-------------------------- MODULE Calculations_proofs --------------------------
(***************************************************************************)
(* What the calculators answer, for every loan, goal and figure that the   *)
(* requests' schemas let through.  Much of it is computed by loops over    *)
(* months, which are recursive functions here: a fact about all of their   *)
(* values is the set of the numbers it holds of, and that set is shown to  *)
(* contain 0 and every successor of its members.                           *)
(***************************************************************************)
EXTENDS Calculations, WellFoundedInduction, TLAPS

----------------------------------------------------------------------------
(* Induction and recursion over the natural numbers *)

(* A set with 0 and every successor of its members has every number. *)
LEMMA Induction ==
    ASSUME NEW S, 0 \in S, \A n \in Nat : n \in S => n + 1 \in S
    PROVE  Nat \subseteq S
<1> DEFINE T == Nat \ S
           less == {p \in Nat \X Nat : p[1] < p[2]}
<1>1. IsWellFoundedOn(less, Nat)
  BY NatLessThanWellFounded DEF OpToRel
<1>2. SUFFICES ASSUME T # {} PROVE FALSE
  OBVIOUS
<1>3. PICK t \in T : \A u \in T : <<u, t>> \notin less
  <2>1. T \subseteq Nat
    OBVIOUS
  <2> HIDE DEF T, less
  <2> QED
    BY <1>1, <1>2, <2>1, WFMin
<1>4. t \in Nat /\ t # 0
  OBVIOUS
<1>5. t - 1 \in Nat /\ (t - 1) + 1 = t
  BY <1>4
<1>6. t - 1 \notin S
  BY <1>5
<1>7. <<t - 1, t>> \in less
  BY <1>4, <1>5
<1> QED
  BY <1>3, <1>5, <1>6, <1>7

(* f[m] is what a loop has computed after m of its N turns. *)
IsLoop(f, v, step, N) == f[0] = v /\ \A m \in 1..N : f[m] = step[m][f[m - 1]]

(* Where it starts and what a turn does give a loop its values. *)
LEMMA Recursion ==
    ASSUME NEW N \in Nat, NEW V, NEW v \in V, NEW step \in [Nat -> [V -> V]]
    PROVE  \E f \in [0..N -> V] : IsLoop(f, v, step, N)
<1> DEFINE Is(f, n) == f[0] = v /\ \A m \in 1..n : f[m] = step[m][f[m - 1]]
           S == {n \in Nat : \E f \in [0..n -> V] : Is(f, n)}
<1>1. 0 \in S
  <2>1. Is([m \in 0..0 |-> v], 0) /\ [m \in 0..0 |-> v] \in [0..0 -> V]
    OBVIOUS
  <2> HIDE DEF Is
  <2> QED
    BY <2>1
<1>2. ASSUME NEW n \in Nat, n \in S PROVE n + 1 \in S
  <2>1. PICK f \in [0..n -> V] : Is(f, n)
    BY <1>2
  <2>2. PICK k \in Nat : k = n + 1
    OBVIOUS
  <2> DEFINE w == step[k][f[n]]
             g == [m \in 0..k |-> IF m = k THEN w ELSE f[m]]
  <2>3. w \in V
    BY <2>2
  <2>4. g \in [0..k -> V]
    BY <2>2, <2>3
  <2>5. \A m \in 0..n : g[m] = f[m]
    BY <2>2
  <2>6. g[k] = w
    BY <2>2
  <2> HIDE DEF g
  <2>7. g[0] = v
    BY <2>1, <2>5
  <2>8. ASSUME NEW m \in 1..k PROVE g[m] = step[m][g[m - 1]]
    <3>1. CASE m = k
      BY <2>2, <2>5, <2>6, <3>1
    <3>2. CASE m # k
      <4>1. m \in 1..n /\ m \in 0..n /\ m - 1 \in 0..n
        BY <2>2, <3>2
      <4> QED
        BY <2>1, <2>5, <4>1
    <3> QED
      BY <3>1, <3>2
  <2>9. Is(g, k)
    BY <2>7, <2>8
  <2> HIDE DEF Is
  <2> QED
    BY <2>2, <2>4, <2>9
<1>3. N \in S
  <2> HIDE DEF S
  <2> QED
    BY <1>1, <1>2, Induction
<1> QED
  BY <1>3 DEF IsLoop

(* Two functions that start alike and go on alike for n turns. *)
Alike(f, g, n) == f[0] = g[0] /\ \A m \in 1..n : f[m - 1] = g[m - 1] => f[m] = g[m]

(* Two loops that start alike and turn alike have the same values. *)
LEMMA SameLoops ==
    ASSUME NEW n \in Nat, NEW f, NEW g, Alike(f, g, n)
    PROVE  \A m \in 0..n : f[m] = g[m]
<1> DEFINE S == {m \in Nat : m <= n => f[m] = g[m]}
<1>1. 0 \in S
  BY DEF Alike
<1>2. ASSUME NEW m \in Nat, m \in S PROVE m + 1 \in S
  <2>1. PICK k \in Nat : k = m + 1
    OBVIOUS
  <2>2. ASSUME k <= n PROVE f[k] = g[k]
    <3>1. k \in 1..n /\ k - 1 = m /\ f[m] = g[m]
      BY <1>2, <2>1, <2>2
    <3> QED
      BY <3>1 DEF Alike
  <2> QED
    BY <2>1, <2>2
<1>3. Nat \subseteq S
  <2> HIDE DEF S
  <2> QED
    BY <1>1, <1>2, Induction
<1> QED
  BY <1>3

----------------------------------------------------------------------------
(* Powers *)

(* Power(b, n) is computed by a loop of n turns. *)
IsPowers(f, b, N) == f[0] = 1 /\ \A m \in 1..N : f[m] = b * f[m - 1]

LEMMA PowerLoop ==
    ASSUME NEW b \in Nat, NEW N \in Nat
    PROVE  \E f \in [0..N -> Nat] : IsPowers(f, b, N) /\ Power(b, N) = f[N]
<1> DEFINE step == [m \in Nat |-> [p \in Nat |-> b * p]]
<1>1. PICK f \in [0..N -> Nat] : IsLoop(f, 1, step, N)
  <2>1. step \in [Nat -> [Nat -> Nat]]
    OBVIOUS
  <2>2. 1 \in Nat
    OBVIOUS
  <2> HIDE DEF step
  <2> QED
    BY <2>1, <2>2, Recursion
<1>2. f[0] = 1
  BY <1>1 DEF IsLoop
<1>3. ASSUME NEW m \in 1..N PROVE f[m] = b * f[m - 1]
  <2>1. m \in Nat /\ f[m - 1] \in Nat
    OBVIOUS
  <2>2. step[m][f[m - 1]] = b * f[m - 1]
    BY <2>1
  <2> QED
    BY <1>1, <2>2 DEF IsLoop
<1> DEFINE P[i \in 0..N] == IF i = 0 THEN 1 ELSE b * P[i - 1]
<1>4. f = [i \in 0..N |-> IF i = 0 THEN 1 ELSE b * f[i - 1]]
  BY <1>2, <1>3
<1>5. P = [i \in 0..N |-> IF i = 0 THEN 1 ELSE b * P[i - 1]]
  BY <1>4
<1>6. Power(b, N) = P[N]
  BY DEF Power
<1> HIDE DEF P, step
<1>7. P[0] = 1 /\ \A m \in 1..N : P[m] = b * P[m - 1]
  BY <1>5
<1>8. f[N] = P[N]
  <2>1. Alike(f, P, N)
    BY <1>2, <1>3, <1>7 DEF Alike
  <2> QED
    BY <2>1, SameLoops
<1> QED
  BY <1>2, <1>3, <1>6, <1>8 DEF IsPowers

(* Any loop that multiplies computes powers. *)
LEMMA PowerTable ==
    ASSUME NEW b \in Nat, NEW N \in Nat, NEW n \in 0..N, NEW f, IsPowers(f, b, N)
    PROVE  Power(b, n) = f[n]
<1> n \in Nat
  OBVIOUS
<1>1. PICK g \in [0..n -> Nat] : IsPowers(g, b, n) /\ Power(b, n) = g[n]
  BY PowerLoop
<1>2. Alike(f, g, n)
  BY <1>1 DEF Alike, IsPowers
<1>3. \A m \in 0..n : f[m] = g[m]
  BY <1>2, SameLoops
<1> QED
  BY <1>1, <1>3

(* Powers by their recursion. *)
LEMMA PowerRules ==
    ASSUME NEW b \in Nat
    PROVE  /\ Power(b, 0) = 1
           /\ \A n \in Nat : Power(b, n) \in Nat /\ Power(b, n + 1) = b * Power(b, n)
<1>1. Power(b, 0) = 1
  BY PowerLoop DEF IsPowers
<1>2. ASSUME NEW n \in Nat
      PROVE  Power(b, n) \in Nat /\ Power(b, n + 1) = b * Power(b, n)
  <2>1. PICK k \in Nat : k = n + 1
    OBVIOUS
  <2>2. PICK f \in [0..k -> Nat] : IsPowers(f, b, k) /\ Power(b, k) = f[k]
    BY PowerLoop
  <2>3. Power(b, n) = f[n]
    <3>1. n \in 0..k
      BY <2>1
    <3> QED
      BY <2>2, <3>1, PowerTable
  <2>4. f[k] = b * f[n] /\ f[n] \in Nat
    BY <2>1, <2>2 DEF IsPowers
  <2> QED
    BY <2>1, <2>2, <2>3, <2>4
<1> QED
  BY <1>1, <1>2

(* A positive base has positive powers. *)
LEMMA PowerPositive ==
    ASSUME NEW b \in Nat \ {0}, NEW n \in Nat
    PROVE  Power(b, n) \in Nat \ {0}
<1> DEFINE S == {m \in Nat : Power(b, m) \in Nat \ {0}}
<1>1. 0 \in S
  BY PowerRules
<1>2. ASSUME NEW m \in Nat, m \in S PROVE m + 1 \in S
  <2>1. PICK p \in Nat \ {0} : p = Power(b, m)
    BY <1>2
  <2>2. b * p \in Nat \ {0}
    OBVIOUS
  <2> QED
    BY <2>1, <2>2, PowerRules
<1>3. Nat \subseteq S
  <2> HIDE DEF S
  <2> QED
    BY <1>1, <1>2, Induction
<1> QED
  BY <1>3

(* A larger base has powers at least as large; above the first, larger ones. *)
LEMMA PowerMonotone ==
    ASSUME NEW b \in Nat \ {0}, NEW r \in Nat, NEW n \in Nat
    PROVE  /\ Power(b, n) <= Power(b + r, n)
           /\ r # 0 /\ n # 0 => Power(b, n) < Power(b + r, n)
<1> PICK a \in Nat \ {0} : a = b + r
  OBVIOUS
<1> DEFINE S == {m \in Nat : /\ Power(b, m) <= Power(a, m)
                             /\ r # 0 /\ m # 0 => Power(b, m) < Power(a, m)}
<1>1. 0 \in S
  BY PowerRules
<1>2. ASSUME NEW m \in Nat, m \in S PROVE m + 1 \in S
  <2>1. PICK p \in Nat \ {0}, q \in Nat \ {0} : p = Power(b, m) /\ q = Power(a, m)
    BY PowerPositive
  <2>2. p <= q /\ a >= b /\ (r # 0 => a > b)
    BY <1>2, <2>1
  <2>3. b * p <= b * q /\ b * q <= a * q
    BY <2>2
  <2>4. r # 0 => b * q < a * q
    BY <2>2
  <2>5. PICK s \in Nat, t \in Nat, u \in Nat : s = b * p /\ t = b * q /\ u = a * q
    OBVIOUS
  <2>6. s <= u /\ (r # 0 => s < u)
    BY <2>3, <2>4, <2>5
  <2>7. Power(b, m + 1) = s /\ Power(a, m + 1) = u
    BY <2>1, <2>5, PowerRules
  <2> QED
    BY <2>6, <2>7
<1>3. Nat \subseteq S
  <2> HIDE DEF S
  <2> QED
    BY <1>1, <1>2, Induction
<1> QED
  BY <1>3

(* Exponents add up. *)
LEMMA PowerOfSum ==
    ASSUME NEW b \in Nat, NEW m \in Nat, NEW n \in Nat
    PROVE  Power(b, m) * Power(b, n) = Power(b, m + n)
<1> DEFINE S == {k \in Nat : Power(b, m) * Power(b, k) = Power(b, m + k)}
<1>1. 0 \in S
  BY PowerRules
<1>2. ASSUME NEW k \in Nat, k \in S PROVE k + 1 \in S
  <2>1. PICK p \in Nat, q \in Nat, s \in Nat :
          p = Power(b, m) /\ q = Power(b, k) /\ s = Power(b, m + k)
    <3>1. m + k \in Nat
      OBVIOUS
    <3> QED
      BY <3>1, PowerRules
  <2>2. p * q = s
    BY <1>2, <2>1
  <2>3. p * (b * q) = b * (p * q)
    OBVIOUS
  <2>4. Power(b, k + 1) = b * q /\ Power(b, (m + k) + 1) = b * s
    BY <2>1, PowerRules
  <2>5. (m + k) + 1 = m + (k + 1)
    OBVIOUS
  <2> QED
    BY <2>1, <2>2, <2>3, <2>4, <2>5
<1>3. Nat \subseteq S
  <2> HIDE DEF S
  <2> QED
    BY <1>1, <1>2, Induction
<1> QED
  BY <1>3

----------------------------------------------------------------------------
(* Optional inputs and what is asked *)

(* The value of an optional input. *)
LEMMA OptionalValue ==
    ASSUME NEW S, NEW o, Optional(o, S), Given(o)
    PROVE  Value(o) \in S /\ o = Some(Value(o))
BY DEF Optional, Given, Missing, Value, Some

LEMMA ValueOfSome ==
    ASSUME NEW v
    PROVE  Value(Some(v)) = v /\ Given(Some(v)) /\ Some(v) # Missing
BY DEF Value, Some, Given, Missing

(* An optional input or a number in its stead. *)
LEMMA OrIsTyped ==
    ASSUME NEW S, NEW o, Optional(o, S), NEW default \in S
    PROVE  Or(o, default) \in S
BY OptionalValue DEF Or

(* Growth is a fraction of positive numbers, of at least one. *)
LEMMA GrowthIsTyped ==
    ASSUME NEW rate \in Nat, NEW n \in Nat
    PROVE  /\ Growth(rate, n).num \in Nat \ {0} /\ Growth(rate, n).den \in Nat \ {0}
           /\ Growth(rate, n).den <= Growth(rate, n).num
           /\ rate # 0 /\ n # 0 => Growth(rate, n).den < Growth(rate, n).num
<1>1. CASE rate = 0
  BY <1>1 DEF Growth
<1>2. CASE rate # 0
  <2>1. Scale \in Nat \ {0} /\ Scale + rate \in Nat \ {0}
    BY EngineAssumption
  <2>2. Power(Scale, n) \in Nat \ {0} /\ Power(Scale + rate, n) \in Nat \ {0}
    BY <2>1, PowerPositive
  <2>3. /\ Power(Scale, n) <= Power(Scale + rate, n)
        /\ n # 0 => Power(Scale, n) < Power(Scale + rate, n)
    BY <1>2, <2>1, PowerMonotone
  <2> QED
    BY <1>2, <2>2, <2>3 DEF Growth
<1> QED
  BY <1>1, <1>2

(* What is asked, and the answer to a goal. *)
Asked ==
    /\ request \in [about : {"loan"}, in : Loans] \union [about : {"goal"}, in : Goals]
                     \union [about : {"drift"}, in : Baselines]
    /\ request.about = "goal" => result = Missing \/ result = GoalFunding(request.in)

LEMMA AskedHolds == Spec => []Asked
<1>1. Init => Asked
  BY DEF Init, Asked
<1>2. Asked /\ [Next]_vars => Asked'
  <2> SUFFICES ASSUME Asked, [Next]_vars PROVE Asked'
    OBVIOUS
  <2>1. CASE AskLoan
    BY <2>1 DEF Asked, AskLoan
  <2>2. CASE AskGoal
    BY <2>2 DEF Asked, AskGoal
  <2>3. ASSUME NEW q \in Figures, NEW v \in Levels[q], Worsen(q, v) PROVE Asked'
    <3>1. request.about = "drift" /\ UNCHANGED request
      BY <2>3 DEF Worsen
    <3> QED
      BY <3>1 DEF Asked
  <2>4. CASE UNCHANGED vars
    BY <2>4 DEF Asked, vars
  <2> QED
    BY <2>1, <2>2, <2>3, <2>4 DEF Next
<1> QED
  BY <1>1, <1>2, PTL DEF Spec

----------------------------------------------------------------------------
(* Rounding, sums and the smaller of two *)

(* Rounding half up keeps the order of fractions; a zero stays one. *)
LEMMA RoundingOfNaturals ==
    ASSUME NEW n \in Nat, NEW d \in Nat \ {0}
    PROVE  /\ RoundHalfUp(n, d) = (2 * n + d) \div (2 * d)
           /\ RoundHalfUp(n, d) \in Nat
           /\ 2 * d * RoundHalfUp(n, d) <= 2 * n + d
           /\ 2 * n + d < 2 * d * RoundHalfUp(n, d) + 2 * d
<1> PICK x \in Nat, y \in Nat \ {0} : x = 2 * n + d /\ y = 2 * d
  OBVIOUS
<1>1. RoundHalfUp(n, d) = x \div y
  BY DEF RoundHalfUp, Abs
<1>2. x \div y \in Nat /\ y * (x \div y) <= x /\ x < y * (x \div y) + y
  OBVIOUS
<1> QED
  BY <1>1, <1>2

LEMMA RoundingIsTyped ==
    ASSUME NEW n \in Int, NEW d \in Nat \ {0}
    PROVE  RoundHalfUp(n, d) \in Int
<1>1. Abs(n) \in Nat
  BY DEF Abs
<1>2. (2 * Abs(n) + d) \div (2 * d) \in Int
  BY <1>1
<1> QED
  BY <1>2 DEF RoundHalfUp

LEMMA RoundingIsMonotone ==
    ASSUME NEW a \in Nat, NEW b \in Nat \ {0}, NEW n \in Nat, NEW d \in Nat \ {0}, a * d <= n * b
    PROVE  RoundHalfUp(a, b) <= RoundHalfUp(n, d)
<1> PICK x \in Nat, y \in Nat : x = RoundHalfUp(a, b) /\ y = RoundHalfUp(n, d)
  BY RoundingOfNaturals
<1>1. 2 * b * x <= 2 * a + b /\ 2 * n + d < 2 * d * y + 2 * d
  BY RoundingOfNaturals
<1>2. d * (2 * b * x) <= d * (2 * a + b)
  BY <1>1
<1>3. d * (2 * a + b) <= b * (2 * n + d)
  <2>1. d * (2 * a + b) = 2 * (a * d) + b * d /\ b * (2 * n + d) = 2 * (n * b) + b * d
    OBVIOUS
  <2>2. PICK u \in Nat, v \in Nat, w \in Nat : u = a * d /\ v = n * b /\ w = b * d
    OBVIOUS
  <2> QED
    BY <2>1, <2>2
<1>4. b * (2 * n + d) < b * (2 * d * y + 2 * d)
  BY <1>1
<1>5. (2 * b * d) * x < (2 * b * d) * (y + 1)
  <2>1. d * (2 * b * x) = (2 * b * d) * x
    OBVIOUS
  <2>2. b * (2 * d * y + 2 * d) = (2 * b * d) * (y + 1)
    OBVIOUS
  <2>3. PICK u \in Nat, v \in Nat : u = d * (2 * b * x) /\ v = d * (2 * a + b)
    OBVIOUS
  <2>4. PICK w \in Nat, z \in Nat : w = b * (2 * n + d) /\ z = b * (2 * d * y + 2 * d)
    <3>1. 2 * n + d \in Nat /\ 2 * d * y + 2 * d \in Nat
      OBVIOUS
    <3>2. \A e \in Nat : b * e \in Nat
      OBVIOUS
    <3> QED
      BY <3>1, <3>2
  <2>5. u < z
    BY <1>2, <1>3, <1>4, <2>3, <2>4
  <2> QED
    BY <2>1, <2>2, <2>3, <2>4, <2>5
<1>6. x < y + 1
  <2>1. PICK e \in Nat \ {0} : e = 2 * b * d
    OBVIOUS
  <2>2. x >= y + 1 => e * x >= e * (y + 1)
    OBVIOUS
  <2> QED
    BY <1>5, <2>1, <2>2
<1> QED
  BY <1>6

LEMMA MinOfTwo ==
    ASSUME NEW a \in Int, NEW b \in Int
    PROVE  /\ Min({a, b}) = IF a <= b THEN a ELSE b
<1> DEFINE m == IF a <= b THEN a ELSE b
<1>1. \A x \in {a, b} : (\A y \in {a, b} : x <= y) <=> x = m
  OBVIOUS
<1>2. m \in {a, b}
  OBVIOUS
<1> QED
  BY <1>1, <1>2 DEF Min

(* What a loop over a sequence adds up. *)
IsSum(f, s, field, n) == f[0] = 0 /\ \A i \in 1..n : f[i] = f[i - 1] + s[i][field]

LEMMA SumLoop ==
    ASSUME NEW R, NEW s \in Seq(R), NEW field, \A row \in R : row[field] \in Int
    PROVE  \E f \in [0..Len(s) -> Int] : IsSum(f, s, field, Len(s)) /\ SumOf(s, field) = f[Len(s)]
<1> PICK N \in Nat : N = Len(s)
  OBVIOUS
<1> DEFINE term == [i \in Nat |-> IF i \in 1..N THEN s[i][field] ELSE 0]
           step == [i \in Nat |-> [sum \in Int |-> sum + term[i]]]
<1>1. \A i \in Nat : term[i] \in Int
  <2>1. \A i \in 1..N : s[i] \in R
    OBVIOUS
  <2> QED
    BY <2>1
<1>2. PICK f \in [0..N -> Int] : IsLoop(f, 0, step, N)
  <2> HIDE DEF term
  <2>1. step \in [Nat -> [Int -> Int]]
    BY <1>1
  <2>2. 0 \in Int
    OBVIOUS
  <2> HIDE DEF step
  <2> QED
    BY <2>1, <2>2, Recursion
<1>3. f[0] = 0
  BY <1>2 DEF IsLoop
<1>4. ASSUME NEW i \in 1..N PROVE f[i] = f[i - 1] + s[i][field]
  <2>1. i \in Nat /\ f[i - 1] \in Int
    OBVIOUS
  <2>2. step[i][f[i - 1]] = f[i - 1] + term[i]
    <3> HIDE DEF term
    <3> QED
      BY <2>1
  <2>3. term[i] = s[i][field]
    BY <2>1
  <2>4. f[i] = step[i][f[i - 1]]
    BY <1>2 DEF IsLoop
  <2> HIDE DEF step, term
  <2> QED
    BY <2>2, <2>3, <2>4
<1> HIDE DEF step, term
<1> DEFINE Sum[i \in 0..N] == IF i = 0 THEN 0 ELSE Sum[i - 1] + s[i][field]
<1>5. f = [i \in 0..N |-> IF i = 0 THEN 0 ELSE f[i - 1] + s[i][field]]
  BY <1>3, <1>4
<1>6. Sum = [i \in 0..N |-> IF i = 0 THEN 0 ELSE Sum[i - 1] + s[i][field]]
  BY <1>5
<1>7. SumOf(s, field) = Sum[N]
  BY DEF SumOf
<1> HIDE DEF Sum
<1>8. Sum[0] = 0 /\ \A i \in 1..N : Sum[i] = Sum[i - 1] + s[i][field]
  BY <1>6
<1>9. f[N] = Sum[N]
  <2>1. Alike(f, Sum, N)
    BY <1>3, <1>4, <1>8 DEF Alike
  <2> QED
    BY <2>1, SameLoops
<1> QED
  BY <1>3, <1>4, <1>7, <1>9 DEF IsSum

(* The sum of an empty sequence, and of one with a row more. *)
LEMMA SumOfNothing ==
    ASSUME NEW field
    PROVE  SumOf(<<>>, field) = 0
<1> DEFINE R == {}
<1>1. <<>> \in Seq(R) /\ (\A row \in R : row[field] \in Int) /\ Len(<<>>) = 0
  OBVIOUS
<1> HIDE DEF R
<1>2. \E f \in [0..Len(<<>>) -> Int] : IsSum(f, <<>>, field, Len(<<>>))
                                       /\ SumOf(<<>>, field) = f[Len(<<>>)]
  BY <1>1, SumLoop, ZenonT(20)
<1> QED
  BY <1>1, <1>2 DEF IsSum

LEMMA SumOfAppend ==
    ASSUME NEW R, NEW s \in Seq(R), NEW row \in R, NEW field, \A r \in R : r[field] \in Int
    PROVE  SumOf(Append(s, row), field) = SumOf(s, field) + row[field]
<1> PICK N \in Nat : N = Len(s)
  OBVIOUS
<1> DEFINE t == Append(s, row)
<1>1. t \in Seq(R) /\ Len(t) = N + 1 /\ t[N + 1] = row /\ \A i \in 1..N : t[i] = s[i]
  OBVIOUS
<1>2. PICK f \in [0..N -> Int] : IsSum(f, s, field, N) /\ SumOf(s, field) = f[N]
  BY SumLoop
<1>3. PICK k \in Nat : k = N + 1
  OBVIOUS
<1> HIDE DEF t
<1>4. PICK g \in [0..k -> Int] : IsSum(g, t, field, k) /\ SumOf(t, field) = g[k]
  BY <1>1, <1>3, SumLoop, SMTT(30)
<1>5. Alike(f, g, N)
  <2>1. f[0] = g[0]
    BY <1>2, <1>4 DEF IsSum
  <2>2. ASSUME NEW i \in 1..N, f[i - 1] = g[i - 1] PROVE f[i] = g[i]
    <3>1. i \in 1..k /\ t[i] = s[i]
      BY <1>1, <1>3
    <3>2. f[i] = f[i - 1] + s[i][field] /\ g[i] = g[i - 1] + t[i][field]
      BY <1>2, <1>4, <3>1 DEF IsSum
    <3> QED
      BY <2>2, <3>1, <3>2
  <2> QED
    BY <2>1, <2>2 DEF Alike
<1>6. f[N] = g[N]
  BY <1>5, SameLoops
<1>7. g[k] = g[N] + row[field]
  <2>1. k \in 1..k /\ k - 1 = N /\ t[k] = row
    BY <1>1, <1>3
  <2> QED
    BY <1>4, <2>1 DEF IsSum
<1> QED
  BY <1>2, <1>4, <1>6, <1>7 DEF t

----------------------------------------------------------------------------
(* Decimals *)

(* The least number with all digits that are kept. *)
Ten == Power(10, Precision - 1)

Fractions == [num : Nat, den : Nat \ {0}]

LEMMA MaxOfTwo ==
    ASSUME NEW a \in Int, NEW b \in Int
    PROVE  Max({a, b}) = IF a <= b THEN b ELSE a
<1>1. PICK x \in {a, b} : x = (IF a <= b THEN b ELSE a) /\ \A y \in {a, b} : x >= y
  BY SMT
<1>2. \A z \in {a, b} : (\A y \in {a, b} : z >= y) => z = x
  BY <1>1
<1>3. Max({a, b}) = CHOOSE z \in {a, b} : \A y \in {a, b} : z >= y
  BY DEF Max
<1> QED
  BY <1>1, <1>2, <1>3

(* Products of natural numbers keep their order; a positive factor cancels. *)
LEMMA ProductsGrow ==
    ASSUME NEW a \in Nat, NEW b \in Nat, NEW c \in Nat, a <= b
    PROVE  a * c <= b * c /\ c * a <= c * b
OBVIOUS

LEMMA ProductsCancel ==
    ASSUME NEW a \in Nat, NEW b \in Nat, NEW c \in Nat \ {0}
    PROVE  /\ a * c <= b * c => a <= b
           /\ a * c < b * c => a < b
<1>1. a > b => a * c > b * c
  OBVIOUS
<1>2. a >= b => a * c >= b * c
  OBVIOUS
<1>3. a * c \in Nat /\ b * c \in Nat
  OBVIOUS
<1> QED
  BY <1>1, <1>2, <1>3

LEMMA TensArePositive ==
    \A n \in Nat : Power(10, n) \in Nat \ {0}
BY PowerPositive

(* Powers of ten: a larger exponent, ten times as much at least. *)
LEMMA TensGrow ==
    ASSUME NEW i \in Nat, NEW j \in Nat
    PROVE  /\ Power(10, i) \in Nat \ {0}
           /\ i <= j => Power(10, i) <= Power(10, j)
           /\ i < j => 10 * Power(10, i) <= Power(10, j)
<1>1. Power(10, i) \in Nat \ {0}
  BY PowerPositive
<1>2. ASSUME NEW a \in Nat, NEW b \in Nat, a <= b PROVE Power(10, a) <= Power(10, b)
  <2>1. PICK d \in Nat : b = a + d
    <3>1. b - a \in Nat /\ b = a + (b - a)
      BY <1>2
    <3> QED
      BY <3>1
  <2>2. PICK p \in Nat \ {0}, q \in Nat \ {0} : p = Power(10, a) /\ q = Power(10, d)
    BY TensArePositive, Zenon
  <2>3. p * q = Power(10, b)
    BY <2>1, <2>2, PowerOfSum
  <2>4. p * 1 <= p * q
    BY ProductsGrow
  <2> QED
    BY <2>2, <2>3, <2>4
<1>3. Power(10, i + 1) = 10 * Power(10, i)
  BY PowerRules
<1>4. i < j => i + 1 <= j /\ i + 1 \in Nat
  OBVIOUS
<1> QED
  BY <1>1, <1>2, <1>3, <1>4

(* Every positive number has digits. *)
LEMMA DigitsExist ==
    ASSUME NEW n \in Nat \ {0}
    PROVE  /\ Digits(n) \in Nat \ {0}
           /\ Power(10, Digits(n) - 1) <= n /\ n < Power(10, Digits(n))
<1> DEFINE Has(m, d) == d \in 1..m /\ Power(10, d - 1) <= m /\ m < Power(10, d)
           S == {m \in Nat : m = 0 \/ \E d \in Nat : Has(m, d)}
<1>1. 0 \in S
  OBVIOUS
<1>2. ASSUME NEW m \in Nat, m \in S PROVE m + 1 \in S
  <2>1. CASE m = 0
    <3>1. Power(10, 0) = 1 /\ Power(10, 0 + 1) = 10 * Power(10, 0)
      BY PowerRules
    <3>2. Has(1, 1)
      BY <3>1
    <3> QED
      BY <2>1, <3>2
  <2>2. CASE m # 0
    <3>1. PICK d \in Nat : Has(m, d)
      BY <1>2, <2>2
    <3>2. PICK p \in Nat \ {0}, q \in Nat \ {0}, r \in Nat \ {0} :
            p = Power(10, d - 1) /\ q = Power(10, d) /\ r = Power(10, d + 1)
      <4>1. d - 1 \in Nat /\ d + 1 \in Nat
        BY <3>1
      <4> QED
        BY <3>1, <4>1, TensArePositive, Zenon
    <3>3. r = 10 * q
      BY <3>2, PowerRules
    <3>4. CASE m + 1 < q
      <4>1. d \in 1..(m + 1) /\ p <= m + 1
        BY <3>1, <3>2
      <4> QED
        BY <3>2, <3>4, <4>1
    <3>5. CASE m + 1 >= q
      <4>1. (d + 1) - 1 = d
        OBVIOUS
      <4>2. d + 1 \in 1..(m + 1) /\ q <= m + 1 /\ m + 1 < r
        BY <3>1, <3>2, <3>3, <3>5
      <4>3. Has(m + 1, d + 1)
        BY <3>2, <4>1, <4>2
      <4> QED
        BY <4>3
    <3> QED
      BY <3>2, <3>4, <3>5
  <2> QED
    BY <2>1, <2>2
<1>3. Nat \subseteq S
  <2> HIDE DEF S
  <2> QED
    BY <1>1, <1>2, Induction
<1>4. \E d \in 1..n : Power(10, d - 1) <= n /\ n < Power(10, d)
  BY <1>3
<1> QED
  BY <1>4 DEF Digits

(* The unit of x's last digit that is kept, 10^j over 10^i, leaves all of the *)
(* digits that are kept.                                                      *)
Fits(x, i, j) ==
    /\ Rounded(x) = [num |-> RoundHalfUp(x.num * Power(10, i), x.den * Power(10, j)) * Power(10, j),
                     den |-> Power(10, i)]
    /\ Ten * (x.den * Power(10, j)) <= x.num * Power(10, i)
    /\ x.num * Power(10, i) < 10 * (Ten * (x.den * Power(10, j)))

(* What lies between a power of ten and the next, in units of d. *)
LEMMA WholeDigits ==
    ASSUME NEW n \in Nat, NEW d \in Nat \ {0}, NEW q \in Nat, NEW a \in Nat \ {0},
           NEW u \in Nat \ {0}, NEW t \in Nat \ {0}, a * u = t,
           d * q <= n, n < d * q + d, a <= q, q < 10 * a
    PROVE  t * d <= n * u /\ n * u < 10 * (t * d)
<1>1. d * a <= d * q /\ d * (q + 1) <= d * (10 * a)
  BY ProductsGrow
<1>2. d * (q + 1) = d * q + d /\ d * (10 * a) = 10 * (d * a)
  OBVIOUS
<1>3. PICK p \in Nat, r \in Nat : p = d * a /\ r = d * q
  OBVIOUS
<1>4. p <= n /\ n < 10 * p
  BY <1>1, <1>2, <1>3
<1>5. p * u <= n * u
  BY <1>4, ProductsGrow
<1>6. n * u < (10 * p) * u
  BY <1>4
<1>7. p * u = t * d /\ (10 * p) * u = 10 * (t * d)
  <2>1. (d * a) * u = (a * u) * d /\ (10 * (d * a)) * u = 10 * ((a * u) * d)
    OBVIOUS
  <2> QED
    BY <1>3, <2>1
<1> QED
  BY <1>5, <1>6, <1>7

LEMMA DecimalDigits ==
    ASSUME NEW n \in Nat \ {0}, NEW d \in Nat, NEW v \in Nat, NEW a \in Nat \ {0},
           NEW t \in Nat \ {0}, NEW u \in Nat, u = t * (10 * a),
           n * v <= d - 1, d - 1 < n * v + n, a <= v, v < 10 * a
    PROVE  t * d <= n * u /\ n * u < 10 * (t * d)
<1>1. n * a <= n * v /\ n * (v + 1) <= n * (10 * a)
  BY ProductsGrow
<1>2. n * (v + 1) = n * v + n /\ n * (10 * a) = 10 * (n * a)
  OBVIOUS
<1>3. PICK p \in Nat, r \in Nat : p = n * a /\ r = n * v
  OBVIOUS
<1>4. p < d /\ d <= 10 * p
  BY <1>1, <1>2, <1>3
<1>5. t * d <= t * (10 * p)
  BY <1>4, ProductsGrow
<1>6. t * p < t * d
  BY <1>4
<1>7. t * (10 * p) = n * u /\ 10 * (t * p) = n * u
  <2>1. t * (10 * (n * a)) = n * (t * (10 * a)) /\ 10 * (t * (n * a)) = n * (t * (10 * a))
    OBVIOUS
  <2> QED
    BY <1>3, <2>1
<1>8. PICK x \in Nat, y \in Nat : x = t * p /\ y = t * d
  OBVIOUS
<1> QED
  BY <1>5, <1>6, <1>7, <1>8

LEMMA DecimalsFit ==
    ASSUME NEW x \in Fractions, x.num # 0
    PROVE  \E i \in Nat, j \in Nat : Fits(x, i, j)
<1>1. PICK n \in Nat \ {0}, d \in Nat \ {0} : n = x.num /\ d = x.den
  BY DEF Fractions
<1>2. Precision \in Nat \ {0} /\ Precision - 1 \in Nat
  BY PrecisionAssumption
<1>3. PICK t \in Nat \ {0} : t = Ten
  BY <1>2, TensArePositive DEF Ten
<1>4. PICK k \in Int : k = Decimals(x)
  <2>1. n >= d => n \div d \in Nat \ {0}
    OBVIOUS
  <2>2. n < d => (d - 1) \div n \in Nat \ {0}
    OBVIOUS
  <2>3. n >= d => Digits(n \div d) \in Nat
    BY <2>1, DigitsExist
  <2>4. n < d => Digits((d - 1) \div n) \in Nat
    BY <2>2, DigitsExist
  <2> QED
    BY <1>1, <1>2, <2>3, <2>4 DEF Decimals
<1>5. Power(10, 0) = 1
  BY PowerRules
<1>6. ASSUME NEW i \in Nat, NEW j \in Nat, i = Max({k, 0}), j = Max({-k, 0}),
             t * (d * Power(10, j)) <= n * Power(10, i),
             n * Power(10, i) < 10 * (t * (d * Power(10, j)))
      PROVE  Fits(x, i, j)
  <2>1. Rounded(x) = [num |-> RoundHalfUp(n * Power(10, i), d * Power(10, j)) * Power(10, j),
                      den |-> Power(10, i)]
    BY <1>1, <1>4, <1>6 DEF Rounded
  <2> QED
    BY <1>1, <1>3, <1>6, <2>1 DEF Fits
<1>7. CASE n >= d
  <2>1. PICK q \in Nat \ {0} : q = n \div d
    BY <1>7
  <2>2. d * q <= n /\ n < d * q + d
    BY <2>1
  <2>3. PICK D \in Nat \ {0} : D = Digits(q)
    BY DigitsExist
  <2>4. PICK a \in Nat \ {0} : a = Power(10, D - 1)
    <3>1. D - 1 \in Nat
      OBVIOUS
    <3> QED
      BY <3>1, TensArePositive
  <2>5. a <= q /\ q < 10 * a
    <3>1. D - 1 \in Nat /\ (D - 1) + 1 = D
      OBVIOUS
    <3>2. Power(10, D) = 10 * a
      BY <2>4, <3>1, PowerRules
    <3> QED
      BY <2>3, <2>4, <3>2, DigitsExist
  <2>6. k = Precision - D
    BY <1>1, <1>4, <1>7, <2>1, <2>3 DEF Decimals
  <2>7. CASE k >= 0
    <3>1. PICK u \in Nat \ {0} : u = Power(10, k)
      BY <2>7, TensArePositive
    <3>2. a * u = t
      <4>1. D - 1 \in Nat /\ k \in Nat /\ (D - 1) + k = Precision - 1
        BY <1>2, <2>6, <2>7
      <4> QED
        BY <1>3, <2>4, <3>1, <4>1, PowerOfSum DEF Ten
    <3>3. t * d <= n * u /\ n * u < 10 * (t * d)
      BY <2>2, <2>5, <3>2, WholeDigits
    <3>4. k = Max({k, 0}) /\ 0 = Max({-k, 0})
      <4>1. -k \in Int /\ -k <= 0
        BY <2>7
      <4> QED
        BY <2>7, <4>1, MaxOfTwo
    <3>5. d * 1 = d
      OBVIOUS
    <3>6. Fits(x, k, 0)
      BY <1>5, <1>6, <2>7, <3>1, <3>3, <3>4, <3>5
    <3> QED
      BY <2>7, <3>6
  <2>8. CASE k < 0
    <3>1. PICK j \in Nat : j = -k
      BY <2>8
    <3>2. PICK w \in Nat \ {0} : w = Power(10, j)
      BY TensArePositive
    <3>3. t * w = a
      <4>1. D - 1 \in Nat /\ (Precision - 1) + j = D - 1
        BY <1>2, <2>6, <3>1
      <4>2. Power(10, Precision - 1) * Power(10, j) = Power(10, (Precision - 1) + j)
        BY <1>2, PowerOfSum
      <4> QED
        BY <1>3, <2>4, <3>2, <4>1, <4>2 DEF Ten
    <3>4. a * 1 = a /\ n * 1 = n
      OBVIOUS
    <3>5. a * d <= n * 1 /\ n * 1 < 10 * (a * d)
      BY <2>2, <2>5, <3>4, WholeDigits
    <3>6. a * d = t * (d * w)
      <4>1. t * (d * w) = (t * w) * d
        OBVIOUS
      <4> QED
        BY <3>3, <4>1
    <3>7. 0 = Max({k, 0}) /\ j = Max({-k, 0})
      <4>1. -k \in Int /\ -k > 0
        BY <2>8
      <4> QED
        BY <2>8, <3>1, <4>1, MaxOfTwo
    <3>8. Fits(x, 0, j)
      BY <1>5, <1>6, <3>2, <3>5, <3>6, <3>7
    <3> QED
      BY <3>8
  <2> QED
    BY <2>7, <2>8
<1>8. CASE n < d
  <2>1. PICK v \in Nat \ {0} : v = (d - 1) \div n
    BY <1>8
  <2>2. n * v <= d - 1 /\ d - 1 < n * v + n
    <3>1. d - 1 \in Nat
      OBVIOUS
    <3> QED
      BY <2>1, <3>1
  <2>3. PICK D \in Nat \ {0} : D = Digits(v)
    BY DigitsExist
  <2>4. PICK a \in Nat \ {0} : a = Power(10, D - 1)
    <3>1. D - 1 \in Nat
      OBVIOUS
    <3> QED
      BY <3>1, TensArePositive
  <2>5. a <= v /\ v < 10 * a /\ Power(10, D) = 10 * a
    <3>1. D - 1 \in Nat /\ (D - 1) + 1 = D
      OBVIOUS
    <3>2. Power(10, D) = 10 * a
      BY <2>4, <3>1, PowerRules
    <3> QED
      BY <2>3, <2>4, <3>2, DigitsExist
  <2>6. k = (Precision - 1) + D
    BY <1>1, <1>4, <1>8, <2>1, <2>3 DEF Decimals
  <2>7. k \in Nat
    BY <1>2, <2>6
  <2>8. PICK u \in Nat \ {0} : u = Power(10, k)
    BY <2>7, TensArePositive
  <2>9. u = t * (10 * a)
    BY <1>2, <1>3, <2>5, <2>6, <2>8, PowerOfSum DEF Ten
  <2>10. t * d <= n * u /\ n * u < 10 * (t * d)
    BY <2>2, <2>5, <2>9, DecimalDigits
  <2>11. k = Max({k, 0}) /\ 0 = Max({-k, 0})
    <3>1. -k \in Int /\ -k <= 0
      BY <2>7
    <3> QED
      BY <2>7, <3>1, MaxOfTwo
  <2>12. d * 1 = d
    OBVIOUS
  <2>13. Fits(x, k, 0)
    BY <1>5, <1>6, <2>7, <2>8, <2>10, <2>11, <2>12
  <2> QED
    BY <2>7, <2>13
<1> QED
  BY <1>7, <1>8

LEMMA TenIsTyped == Ten \in Nat \ {0} /\ Precision - 1 \in Nat
<1>1. Precision - 1 \in Nat
  BY PrecisionAssumption
<1> QED
  BY <1>1, TensArePositive DEF Ten

(* What is rounded has all of the digits: its last is at least 10^(P-1) and *)
(* at most 10^P units.                                                     *)
LEMMA RoundedHasDigits ==
    ASSUME NEW a \in Nat, NEW b \in Nat \ {0}, NEW t \in Nat \ {0}, t * b <= a, a < 10 * (t * b)
    PROVE  /\ RoundHalfUp(a, b) \in Nat /\ t <= RoundHalfUp(a, b) /\ RoundHalfUp(a, b) <= 10 * t
<1>1. PICK r \in Nat : r = RoundHalfUp(a, b) /\ 2 * b * r <= 2 * a + b /\ 2 * a + b < 2 * b * r + 2 * b
  BY RoundingOfNaturals
<1>2. PICK p \in Nat, q \in Nat : p = t * b /\ q = r * b
  OBVIOUS
<1>3. 2 * q <= 2 * a + b /\ 2 * a + b < 2 * q + 2 * b
  <2>1. 2 * b * r = 2 * (r * b)
    OBVIOUS
  <2> QED
    BY <1>1, <1>2, <2>1
<1>4. p <= a /\ a < 10 * p
  BY <1>2
<1>5. p < q + b /\ q < 10 * p + b
  BY <1>3, <1>4
<1>6. t * b < (r + 1) * b /\ r * b < (10 * t + 1) * b
  <2>1. (r + 1) * b = r * b + b /\ (10 * t + 1) * b = 10 * (t * b) + b
    OBVIOUS
  <2> QED
    BY <1>2, <1>5, <2>1
<1>7. t < r + 1 /\ r < 10 * t + 1
  BY <1>6, ProductsCancel
<1> QED
  BY <1>1, <1>7

(* A zero is not rounded; anything else stays positive. *)
LEMMA RoundedIsTyped ==
    ASSUME NEW x \in Fractions
    PROVE  Rounded(x) \in Fractions /\ (x.num # 0 => Rounded(x).num # 0)
<1>1. CASE x.num = 0
  BY <1>1 DEF Rounded, Whole, Fractions
<1>2. CASE x.num # 0
  <2>1. PICK i \in Nat, j \in Nat : Fits(x, i, j)
    BY <1>2, DecimalsFit
  <2>2. PICK n \in Nat, d \in Nat \ {0} : n = x.num /\ d = x.den
    BY DEF Fractions
  <2>3. PICK u \in Nat \ {0}, w \in Nat \ {0} : u = Power(10, i) /\ w = Power(10, j)
    BY TensArePositive, Zenon
  <2>4. PICK t \in Nat \ {0} : t = Ten
    BY TenIsTyped
  <2>5. PICK a \in Nat, b \in Nat \ {0} : a = n * u /\ b = d * w
    OBVIOUS
  <2>6. /\ Rounded(x) = [num |-> RoundHalfUp(a, b) * w, den |-> u]
        /\ t * b <= a /\ a < 10 * (t * b)
    BY <2>1, <2>2, <2>3, <2>4, <2>5 DEF Fits
  <2>7. PICK r \in Nat \ {0} : r = RoundHalfUp(a, b)
    <3>1. RoundHalfUp(a, b) \in Nat /\ t <= RoundHalfUp(a, b)
      BY <2>6, RoundedHasDigits
    <3> QED
      BY <3>1
  <2>8. r * w \in Nat \ {0}
    OBVIOUS
  <2> QED
    BY <2>6, <2>7, <2>8 DEF Fractions
<1> QED
  BY <1>1, <1>2

LEMMA AtMostIsTransitive ==
    ASSUME NEW x \in Fractions, NEW y \in Fractions, NEW z \in Fractions, AtMost(x, y), AtMost(y, z)
    PROVE  AtMost(x, z)
<1>1. PICK a \in Nat, b \in Nat \ {0} : a = x.num /\ b = x.den
  BY DEF Fractions
<1>2. PICK c \in Nat, d \in Nat \ {0} : c = y.num /\ d = y.den
  BY DEF Fractions
<1>3. PICK e \in Nat, f \in Nat \ {0} : e = z.num /\ f = z.den
  BY DEF Fractions
<1>4. a * d <= c * b /\ c * f <= e * d
  BY <1>1, <1>2, <1>3 DEF AtMost
<1>5. (a * d) * f <= (c * b) * f /\ (c * f) * b <= (e * d) * b
  <2>1. a * d \in Nat /\ c * b \in Nat /\ c * f \in Nat /\ e * d \in Nat
    OBVIOUS
  <2> QED
    BY <1>4, <2>1, ProductsGrow
<1>6. /\ (a * d) * f = (a * f) * d /\ (c * b) * f = (c * f) * b /\ (e * d) * b = (e * b) * d
      /\ a * f \in Nat /\ e * b \in Nat
  OBVIOUS
<1>7. PICK p \in Nat, q \in Nat, r \in Nat : p = (a * f) * d /\ q = (c * f) * b /\ r = (e * b) * d
  BY <1>6
<1>8. p <= q /\ q <= r
  BY <1>5, <1>6, <1>7
<1>9. (a * f) * d <= (e * b) * d
  BY <1>7, <1>8
<1>10. a * f <= e * b
  BY <1>6, <1>9, ProductsCancel
<1> QED
  BY <1>1, <1>3, <1>10 DEF AtMost

(* Two fractions n/d and m/e, the first no larger, rounded to a last digit of *)
(* w/u and of b/a: in the same unit,                                         *)
LEMMA RoundedInOneUnit ==
    ASSUME NEW n \in Nat, NEW d \in Nat \ {0}, NEW m \in Nat, NEW e \in Nat \ {0},
           NEW u \in Nat \ {0}, NEW w \in Nat \ {0}, NEW a \in Nat \ {0}, NEW b \in Nat \ {0},
           n * e <= m * d, w * a = u * b
    PROVE  RoundHalfUp(n * u, d * w) * w * a <= RoundHalfUp(m * a, e * b) * b * u
<1>1. PICK p \in Nat, q \in Nat \ {0}, r \in Nat, s \in Nat \ {0} :
        p = n * u /\ q = d * w /\ r = m * a /\ s = e * b
  OBVIOUS
<1>2. PICK v \in Nat : v = u * b /\ v = w * a
  OBVIOUS
<1>3. p * s <= r * q
  <2>1. (n * u) * (e * b) = (n * e) * (u * b) /\ (m * a) * (d * w) = (m * d) * (w * a)
    OBVIOUS
  <2>2. n * e \in Nat /\ m * d \in Nat
    OBVIOUS
  <2>3. (n * e) * v <= (m * d) * v
    BY <2>2, ProductsGrow
  <2> QED
    BY <1>1, <1>2, <2>1, <2>3
<1>4. RoundHalfUp(p, q) <= RoundHalfUp(r, s)
  BY <1>3, RoundingIsMonotone
<1>5. PICK x \in Nat, y \in Nat : x = RoundHalfUp(p, q) /\ y = RoundHalfUp(r, s)
  BY RoundingOfNaturals
<1>6. x * v <= y * v
  BY <1>4, <1>5, ProductsGrow
<1>7. x * w * a = x * (w * a) /\ y * b * u = y * (u * b)
  OBVIOUS
<1>8. x * w * a <= y * b * u
  BY <1>2, <1>6, <1>7
<1> QED
  BY <1>1, <1>5, <1>8

(* in a finer unit than the second's,                                        *)
LEMMA RoundedInAFinerUnit ==
    ASSUME NEW t \in Nat, NEW x \in Nat, NEW y \in Nat, x <= 10 * t, t <= y,
           NEW u \in Nat, NEW w \in Nat, NEW a \in Nat, NEW b \in Nat, 10 * (w * a) <= u * b
    PROVE  x * w * a <= y * b * u
<1>1. PICK p \in Nat, v \in Nat : p = w * a /\ v = u * b
  OBVIOUS
<1>2. x * p <= (10 * t) * p /\ t * (10 * p) <= t * v /\ t * v <= y * v
  BY <1>1, ProductsGrow
<1>3. (10 * t) * p = t * (10 * p)
  OBVIOUS
<1>4. PICK f \in Nat, g \in Nat, h \in Nat, k \in Nat :
        f = x * p /\ g = t * (10 * p) /\ h = t * v /\ k = y * v
  OBVIOUS
<1>5. x * p <= y * v
  BY <1>2, <1>3, <1>4
<1>6. x * w * a = x * (w * a) /\ y * b * u = y * (u * b)
  OBVIOUS
<1> QED
  BY <1>1, <1>5, <1>6

(* and never in a coarser one.                                               *)
LEMMA NeverInACoarserUnit ==
    ASSUME NEW n \in Nat, NEW d \in Nat \ {0}, NEW m \in Nat, NEW e \in Nat \ {0}, NEW t \in Nat,
           NEW u \in Nat \ {0}, NEW w \in Nat \ {0}, NEW a \in Nat \ {0}, NEW b \in Nat \ {0},
           n * e <= m * d, t * (d * w) <= n * u, m * a < 10 * (t * (e * b))
    PROVE  ~(10 * (u * b) <= w * a)
<1> SUFFICES ASSUME 10 * (u * b) <= w * a PROVE FALSE
  OBVIOUS
<1>1. PICK ea \in Nat \ {0}, ua \in Nat \ {0}, du \in Nat \ {0}, td \in Nat, tde \in Nat :
        ea = e * a /\ ua = u * a /\ du = d * u /\ td = t * d /\ tde = t * d * e
  OBVIOUS
<1>2. (t * (d * w)) * ea <= (n * u) * ea
  BY ProductsGrow
<1>3. (n * u) * ea = (n * e) * ua /\ (m * d) * ua = (m * a) * du
  <2>1. (n * u) * (e * a) = (n * e) * (u * a) /\ (m * d) * (u * a) = (m * a) * (d * u)
    OBVIOUS
  <2> QED
    BY <1>1, <2>1
<1>4. (n * e) * ua <= (m * d) * ua
  <2>1. n * e \in Nat /\ m * d \in Nat
    OBVIOUS
  <2> QED
    BY <2>1, ProductsGrow
<1>5. (m * a) * du < (10 * (t * (e * b))) * du
  <2>1. PICK x \in Nat, y \in Nat : x = m * a /\ y = 10 * (t * (e * b))
    <3>1. m * a \in Nat /\ e * b \in Nat
      OBVIOUS
    <3>2. t * (e * b) \in Nat
      BY <3>1
    <3> QED
      BY <3>1, <3>2
  <2>2. x < y => x * du < y * du
    OBVIOUS
  <2> QED
    BY <2>1, <2>2
<1>6. (10 * (t * (e * b))) * du = tde * (10 * (u * b))
  <2>1. (10 * (t * (e * b))) * (d * u) = (t * d * e) * (10 * (u * b))
    OBVIOUS
  <2> QED
    BY <1>1, <2>1
<1>7. tde * (10 * (u * b)) <= tde * (w * a)
  <2>1. 10 * (u * b) \in Nat /\ w * a \in Nat
    OBVIOUS
  <2> QED
    BY <2>1, ProductsGrow
<1>8. tde * (w * a) = (t * (d * w)) * ea
  <2>1. (t * d * e) * (w * a) = (t * (d * w)) * (e * a)
    OBVIOUS
  <2> QED
    BY <1>1, <2>1
<1>9. PICK p1 \in Nat, p2 \in Nat, p3 \in Nat, p4 \in Nat, p5 \in Nat :
        /\ p1 = (t * (d * w)) * ea /\ p2 = (n * u) * ea /\ p3 = (m * d) * ua
        /\ p4 = (10 * (t * (e * b))) * du /\ p5 = (n * e) * ua
  <2>1. /\ t * (d * w) \in Nat /\ n * u \in Nat /\ m * d \in Nat /\ n * e \in Nat
        /\ t * (e * b) \in Nat
    <3>1. d * w \in Nat /\ e * b \in Nat
      OBVIOUS
    <3> QED
      BY <3>1
  <2>2. 10 * (t * (e * b)) \in Nat
    BY <2>1
  <2> QED
    BY <2>1, <2>2
<1> QED
  BY <1>2, <1>3, <1>4, <1>5, <1>6, <1>7, <1>8, <1>9

(* Rounding keeps the order of fractions. *)
LEMMA RoundedIsMonotone ==
    ASSUME NEW x \in Fractions, NEW y \in Fractions, AtMost(x, y)
    PROVE  AtMost(Rounded(x), Rounded(y))
<1>1. PICK n \in Nat, d \in Nat \ {0} : n = x.num /\ d = x.den
  BY DEF Fractions
<1>2. PICK m \in Nat, e \in Nat \ {0} : m = y.num /\ e = y.den
  BY DEF Fractions
<1>3. n * e <= m * d
  BY <1>1, <1>2 DEF AtMost
<1>4. CASE n = 0
  <2>1. Rounded(x) = [num |-> 0, den |-> 1]
    BY <1>1, <1>4 DEF Rounded, Whole
  <2>2. Rounded(y).num \in Nat /\ Rounded(y).den \in Nat
    BY RoundedIsTyped DEF Fractions
  <2> QED
    BY <2>1, <2>2 DEF AtMost
<1>5. CASE n # 0
  <2>1. m # 0
    <3>1. n * e > 0
      BY <1>5
    <3>2. m = 0 => m * d = 0
      OBVIOUS
    <3> QED
      BY <1>3, <3>1, <3>2
  <2>2. PICK i \in Nat, j \in Nat : Fits(x, i, j)
    BY <1>1, <1>5, DecimalsFit
  <2>3. PICK k \in Nat, l \in Nat : Fits(y, k, l)
    BY <1>2, <2>1, DecimalsFit
  <2>4. PICK u \in Nat \ {0}, w \in Nat \ {0} : u = Power(10, i) /\ w = Power(10, j)
    BY TensArePositive, Zenon
  <2>5. PICK a \in Nat \ {0}, b \in Nat \ {0} : a = Power(10, k) /\ b = Power(10, l)
    BY TensArePositive, Zenon
  <2>6. PICK t \in Nat \ {0} : t = Ten
    BY TenIsTyped
  <2>7. /\ Rounded(x) = [num |-> RoundHalfUp(n * u, d * w) * w, den |-> u]
        /\ t * (d * w) <= n * u /\ n * u < 10 * (t * (d * w))
    BY <1>1, <2>2, <2>4, <2>6 DEF Fits
  <2>8. /\ Rounded(y) = [num |-> RoundHalfUp(m * a, e * b) * b, den |-> a]
        /\ t * (e * b) <= m * a /\ m * a < 10 * (t * (e * b))
    BY <1>2, <2>3, <2>5, <2>6 DEF Fits
  <2>9. PICK r \in Nat : r = RoundHalfUp(n * u, d * w) /\ r <= 10 * t
    <3>1. PICK f \in Nat, g \in Nat \ {0} : f = n * u /\ g = d * w
      OBVIOUS
    <3> QED
      BY <2>7, <3>1, RoundedHasDigits
  <2>10. PICK s \in Nat : s = RoundHalfUp(m * a, e * b) /\ t <= s
    <3>1. PICK f \in Nat, g \in Nat \ {0} : f = m * a /\ g = e * b
      OBVIOUS
    <3> QED
      BY <2>8, <3>1, RoundedHasDigits
  <2>11. r * w * a <= s * b * u
    <3>1. w * a = Power(10, j + k) /\ u * b = Power(10, i + l)
      BY <2>4, <2>5, PowerOfSum
    <3>2. PICK g \in Nat, h \in Nat : g = j + k /\ h = i + l
      OBVIOUS
    <3>3. CASE g = h
      <4>1. w * a = u * b
        BY <3>1, <3>2, <3>3
      <4>2. RoundHalfUp(n * u, d * w) * w * a <= RoundHalfUp(m * a, e * b) * b * u
        BY <1>3, <4>1, RoundedInOneUnit
      <4> QED
        BY <2>9, <2>10, <4>2
    <3>4. CASE g < h
      <4>1. 10 * (w * a) <= u * b
        BY <3>1, <3>2, <3>4, TensGrow
      <4> QED
        BY <2>9, <2>10, <4>1, RoundedInAFinerUnit
    <3>5. CASE g > h
      <4>1. 10 * (u * b) <= w * a
        BY <3>1, <3>2, <3>5, TensGrow
      <4> QED
        BY <1>3, <2>7, <2>8, <4>1, NeverInACoarserUnit
    <3> QED
      BY <3>2, <3>3, <3>4, <3>5
  <2>12. AtMost([num |-> r * w, den |-> u], [num |-> s * b, den |-> a])
    BY <2>11 DEF AtMost
  <2> QED
    BY <2>7, <2>8, <2>9, <2>10, <2>12
<1> QED
  BY <1>4, <1>5

(* A number of all digits is not rounded; this direction is enough below. *)
LEMMA RoundedKeepsDigits ==
    ASSUME NEW c \in Nat, Ten <= c, c < 10 * Ten, NEW e \in Nat, NEW x,
           x = [num |-> c, den |-> Power(10, e)]
    PROVE  x \in Fractions /\ AtMost(x, Rounded(x))
<1>1. PICK t \in Nat \ {0} : t = Ten
  BY TenIsTyped
<1>2. PICK v \in Nat \ {0} : v = Power(10, e)
  BY TensArePositive
<1>3. x \in Fractions /\ x.num = c /\ x.den = v /\ c # 0
  BY <1>1, <1>2 DEF Fractions
<1>4. PICK i \in Nat, j \in Nat : Fits(x, i, j)
  BY <1>3, DecimalsFit
<1>5. PICK u \in Nat \ {0}, w \in Nat \ {0} : u = Power(10, i) /\ w = Power(10, j)
  BY TensArePositive, Zenon
<1>6. /\ Rounded(x) = [num |-> RoundHalfUp(c * u, v * w) * w, den |-> u]
      /\ t * (v * w) <= c * u /\ c * u < 10 * (t * (v * w))
  BY <1>1, <1>3, <1>4, <1>5 DEF Fits
<1>7. PICK z \in Nat \ {0} : z = v * w
  OBVIOUS
<1>8. z = Power(10, e + j)
  BY <1>2, <1>5, <1>7, PowerOfSum
<1>9. u = z
  <2>1. PICK g \in Nat : g = e + j
    OBVIOUS
  <2>2. ~(10 * u <= z)
    <3>1. SUFFICES ASSUME 10 * u <= z PROVE FALSE
      OBVIOUS
    <3>2. t * (10 * u) <= t * z
      BY <3>1, ProductsGrow
    <3>3. c * u < (10 * t) * u
      BY <1>1
    <3>4. (10 * t) * u = t * (10 * u)
      OBVIOUS
    <3>5. PICK p \in Nat, q \in Nat, r \in Nat : p = c * u /\ q = t * (10 * u) /\ r = t * z
      OBVIOUS
    <3> QED
      BY <1>6, <1>7, <3>2, <3>3, <3>4, <3>5
  <2>3. ~(10 * z <= u)
    <3>1. SUFFICES ASSUME 10 * z <= u PROVE FALSE
      OBVIOUS
    <3>2. t * (10 * z) <= t * u /\ t * u <= c * u
      BY <1>1, <3>1, ProductsGrow
    <3>3. t * (10 * z) = 10 * (t * z)
      OBVIOUS
    <3>4. PICK p \in Nat, q \in Nat, r \in Nat : p = c * u /\ q = t * (10 * z) /\ r = t * u
      OBVIOUS
    <3> QED
      BY <1>6, <1>7, <3>2, <3>3, <3>4
  <2>4. CASE i = g
    BY <1>5, <1>8, <2>1, <2>4
  <2>5. CASE i < g
    BY <1>5, <1>8, <2>1, <2>2, <2>5, TensGrow
  <2>6. CASE g < i
    BY <1>5, <1>8, <2>1, <2>3, <2>6, TensGrow
  <2> QED
    BY <2>1, <2>4, <2>5, <2>6
<1>10. PICK r \in Nat : r = RoundHalfUp(c * u, z) /\ c <= r
  <2>1. PICK a \in Nat : a = c * u
    OBVIOUS
  <2>2. PICK r \in Nat : r = RoundHalfUp(a, z) /\ 2 * a + z < 2 * z * r + 2 * z
    BY RoundingOfNaturals
  <2>3. (2 * c + 1) * z < (2 * r + 2) * z
    <3>1. 2 * (c * z) + z = (2 * c + 1) * z /\ 2 * z * r + 2 * z = (2 * r + 2) * z
      OBVIOUS
    <3> QED
      BY <1>9, <2>1, <2>2, <3>1
  <2>4. 2 * c + 1 < 2 * r + 2
    BY <2>3, ProductsCancel
  <2> QED
    BY <2>1, <2>2, <2>4
<1>11. c * u <= (r * w) * v
  <2>1. c * z <= r * z
    BY <1>10, ProductsGrow
  <2>2. r * (v * w) = (r * w) * v
    OBVIOUS
  <2> QED
    BY <1>7, <1>9, <2>1, <2>2
<1>12. AtMost(x, [num |-> r * w, den |-> u])
  BY <1>3, <1>11 DEF AtMost
<1> QED
  BY <1>3, <1>6, <1>7, <1>10, <1>12

(* Rounding takes half a unit of the last digit at most. *)
LEMMA RoundedLosesLittle ==
    ASSUME NEW x \in Fractions, x.num # 0
    PROVE  x.num * (2 * Ten - 1) * Rounded(x).den <= Rounded(x).num * (2 * Ten) * x.den
<1>1. PICK n \in Nat \ {0}, d \in Nat \ {0} : n = x.num /\ d = x.den
  BY DEF Fractions
<1>2. PICK i \in Nat, j \in Nat : Fits(x, i, j)
  BY DecimalsFit
<1>3. PICK u \in Nat \ {0}, w \in Nat \ {0} : u = Power(10, i) /\ w = Power(10, j)
  BY TensArePositive, Zenon
<1>4. PICK t \in Nat \ {0} : t = Ten
  BY TenIsTyped
<1>5. PICK a \in Nat, b \in Nat \ {0} : a = n * u /\ b = d * w
  OBVIOUS
<1>6. Rounded(x) = [num |-> RoundHalfUp(a, b) * w, den |-> u] /\ t * b <= a
  BY <1>1, <1>2, <1>3, <1>4, <1>5 DEF Fits
<1>7. PICK r \in Nat : r = RoundHalfUp(a, b) /\ 2 * a + b < 2 * b * r + 2 * b
  BY RoundingOfNaturals
<1>8. 2 * a <= 2 * (b * r) + b
  <2>1. PICK q \in Nat : q = b * r
    OBVIOUS
  <2>2. 2 * b * r = 2 * (b * r)
    OBVIOUS
  <2> QED
    BY <1>7, <2>1, <2>2
<1>9. (2 * t) * a <= (2 * t) * (b * r) + a
  <2>1. PICK q \in Nat : q = b * r
    OBVIOUS
  <2>2. t * (2 * a) <= t * (2 * q + b)
    BY <1>8, <2>1, ProductsGrow
  <2>3. t * (2 * a) = (2 * t) * a /\ t * (2 * q + b) = (2 * t) * q + t * b
    OBVIOUS
  <2>4. PICK f \in Nat, g \in Nat, h \in Nat : f = (2 * t) * a /\ g = (2 * t) * q /\ h = t * b
    OBVIOUS
  <2> QED
    BY <1>6, <2>1, <2>2, <2>3, <2>4
<1>10. n * (2 * t - 1) * u <= (r * w) * (2 * t) * d
  <2>1. n * (2 * t - 1) * u = (2 * t) * (n * u) - n * u
    OBVIOUS
  <2>2. (r * w) * (2 * t) * d = (2 * t) * ((d * w) * r)
    OBVIOUS
  <2>3. PICK f \in Nat, g \in Nat : f = (2 * t) * a /\ g = (2 * t) * (b * r)
    <3>1. b * r \in Nat
      OBVIOUS
    <3> QED
      BY <3>1
  <2>4. f - a <= g
    BY <1>9, <2>3
  <2> QED
    BY <1>5, <2>1, <2>2, <2>3, <2>4
<1> QED
  BY <1>1, <1>4, <1>6, <1>7, <1>10

LEMMA FractionParts ==
    ASSUME NEW x \in Fractions
    PROVE  \E a \in Nat, b \in Nat \ {0} : a = x.num /\ b = x.den
BY DEF Fractions

LEMMA BothProductsGrow ==
    ASSUME NEW a \in Nat, NEW b \in Nat, NEW c \in Nat, NEW d \in Nat, a <= b, c <= d
    PROVE  a * c <= b * d
<1>1. a * c <= b * c /\ b * c <= b * d
  BY ProductsGrow
<1>2. a * c \in Nat /\ b * c \in Nat /\ b * d \in Nat
  OBVIOUS
<1> QED
  BY <1>1, <1>2

LEMMA WholeIsTyped ==
    ASSUME NEW n \in Nat
    PROVE  Whole(n) \in Fractions /\ Whole(n).num = n /\ Whole(n).den = 1
BY DEF Whole, Fractions

(* Products, quotients and differences; none of them loses a sign. *)
LEMMA TimesIsTyped ==
    ASSUME NEW x \in Fractions, NEW y \in Fractions
    PROVE  Times(x, y) \in Fractions /\ (x.num # 0 /\ y.num # 0 => Times(x, y).num # 0)
<1>1. PICK a \in Nat, b \in Nat \ {0} : a = x.num /\ b = x.den
  BY FractionParts
<1>2. PICK c \in Nat, d \in Nat \ {0} : c = y.num /\ d = y.den
  BY FractionParts
<1>3. a * c \in Nat /\ b * d \in Nat \ {0} /\ (a # 0 /\ c # 0 => a * c # 0)
  OBVIOUS
<1>4. [num |-> a * c, den |-> b * d] \in Fractions
  BY <1>3 DEF Fractions
<1> QED
  BY <1>1, <1>2, <1>3, <1>4, RoundedIsTyped DEF Times

LEMMA OverIsTyped ==
    ASSUME NEW x \in Fractions, NEW y \in Fractions, y.num # 0
    PROVE  Over(x, y) \in Fractions /\ (x.num # 0 => Over(x, y).num # 0)
<1>1. PICK a \in Nat, b \in Nat \ {0} : a = x.num /\ b = x.den
  BY FractionParts
<1>2. PICK c \in Nat \ {0}, d \in Nat \ {0} : c = y.num /\ d = y.den
  BY FractionParts
<1>3. a * d \in Nat /\ b * c \in Nat \ {0} /\ (a # 0 => a * d # 0)
  OBVIOUS
<1>4. [num |-> a * d, den |-> b * c] \in Fractions
  BY <1>3 DEF Fractions
<1> QED
  BY <1>1, <1>2, <1>3, <1>4, RoundedIsTyped DEF Over

LEMMA MinusIsTyped ==
    ASSUME NEW x \in Fractions, NEW y \in Fractions, AtMost(y, x)
    PROVE  Minus(x, y) \in Fractions /\ (~AtMost(x, y) => Minus(x, y).num # 0)
<1>1. PICK a \in Nat, b \in Nat \ {0} : a = x.num /\ b = x.den
  BY FractionParts
<1>2. PICK c \in Nat, d \in Nat \ {0} : c = y.num /\ d = y.den
  BY FractionParts
<1>3. PICK p \in Nat, q \in Nat : p = a * d /\ q = c * b
  OBVIOUS
<1>4. q <= p /\ (~AtMost(x, y) => q < p)
  BY <1>1, <1>2, <1>3 DEF AtMost
<1>5. p - q \in Nat /\ b * d \in Nat \ {0} /\ (q < p => p - q # 0)
  BY <1>4
<1>6. [num |-> p - q, den |-> b * d] \in Fractions
  BY <1>5 DEF Fractions
<1>7. Minus(x, y) = Rounded([num |-> p - q, den |-> b * d])
  BY <1>1, <1>2, <1>3 DEF Minus
<1> QED
  BY <1>4, <1>5, <1>6, <1>7, RoundedIsTyped

(* They grow with what is added, multiplied or divided and shrink with what *)
(* is taken away or divided by, rounded as they are.                        *)
LEMMA PlusOneGrows ==
    ASSUME NEW x \in Fractions, NEW y \in Fractions, AtMost(x, y)
    PROVE  AtMost(Plus(Whole(1), x), Plus(Whole(1), y))
<1>1. PICK a \in Nat, b \in Nat \ {0} : a = x.num /\ b = x.den
  BY FractionParts
<1>2. PICK c \in Nat, d \in Nat \ {0} : c = y.num /\ d = y.den
  BY FractionParts
<1>3. a * d <= c * b
  BY <1>1, <1>2 DEF AtMost
<1>4. (b + a) * d <= (d + c) * b
  <2>1. (b + a) * d = b * d + a * d /\ (d + c) * b = b * d + c * b
    OBVIOUS
  <2>2. PICK p \in Nat, q \in Nat, r \in Nat : p = a * d /\ q = c * b /\ r = b * d
    OBVIOUS
  <2> QED
    BY <1>3, <2>1, <2>2
<1>5. /\ Plus(Whole(1), x) = Rounded([num |-> b + a, den |-> b])
      /\ Plus(Whole(1), y) = Rounded([num |-> d + c, den |-> d])
  <2>1. 1 * b = b /\ a * 1 = a /\ 1 * d = d /\ c * 1 = c
    OBVIOUS
  <2> QED
    BY <1>1, <1>2, <2>1, WholeIsTyped DEF Plus
<1>6. [num |-> b + a, den |-> b] \in Fractions /\ [num |-> d + c, den |-> d] \in Fractions
  BY DEF Fractions
<1>7. AtMost([num |-> b + a, den |-> b], [num |-> d + c, den |-> d])
  BY <1>4 DEF AtMost
<1> QED
  BY <1>5, <1>6, <1>7, RoundedIsMonotone

LEMMA TimesGrows ==
    ASSUME NEW x \in Fractions, NEW y \in Fractions, NEW v \in Fractions, NEW w \in Fractions,
           AtMost(x, v), AtMost(y, w)
    PROVE  AtMost(Times(x, y), Times(v, w))
<1>1. PICK a \in Nat, b \in Nat \ {0} : a = x.num /\ b = x.den
  BY FractionParts
<1>2. PICK c \in Nat, d \in Nat \ {0} : c = y.num /\ d = y.den
  BY FractionParts
<1>3. PICK e \in Nat, f \in Nat \ {0} : e = v.num /\ f = v.den
  BY FractionParts
<1>4. PICK g \in Nat, h \in Nat \ {0} : g = w.num /\ h = w.den
  BY FractionParts
<1>5. PICK p \in Nat, q \in Nat, r \in Nat, s \in Nat : p = a * f /\ q = e * b /\ r = c * h /\ s = g * d
  OBVIOUS
<1>6. p <= q /\ r <= s
  BY <1>1, <1>2, <1>3, <1>4, <1>5 DEF AtMost
<1>7. (a * c) * (f * h) <= (e * g) * (b * d)
  <2>1. p * r <= q * s
    BY <1>6, BothProductsGrow
  <2>2. (a * c) * (f * h) = (a * f) * (c * h) /\ (e * g) * (b * d) = (e * b) * (g * d)
    OBVIOUS
  <2> QED
    BY <1>5, <2>1, <2>2
<1>8. /\ [num |-> a * c, den |-> b * d] \in Fractions
      /\ [num |-> e * g, den |-> f * h] \in Fractions
  <2>1. a * c \in Nat /\ b * d \in Nat \ {0} /\ e * g \in Nat /\ f * h \in Nat \ {0}
    OBVIOUS
  <2> QED
    BY <2>1 DEF Fractions
<1>9. AtMost([num |-> a * c, den |-> b * d], [num |-> e * g, den |-> f * h])
  BY <1>7 DEF AtMost
<1> QED
  BY <1>1, <1>2, <1>3, <1>4, <1>8, <1>9, RoundedIsMonotone DEF Times

LEMMA OverGrows ==
    ASSUME NEW x \in Fractions, NEW y \in Fractions, NEW v \in Fractions, NEW w \in Fractions,
           AtMost(x, v), AtMost(w, y), y.num # 0, w.num # 0
    PROVE  AtMost(Over(x, y), Over(v, w))
<1>1. PICK a \in Nat, b \in Nat \ {0} : a = x.num /\ b = x.den
  BY FractionParts
<1>2. PICK c \in Nat \ {0}, d \in Nat \ {0} : c = y.num /\ d = y.den
  BY FractionParts
<1>3. PICK e \in Nat, f \in Nat \ {0} : e = v.num /\ f = v.den
  BY FractionParts
<1>4. PICK g \in Nat \ {0}, h \in Nat \ {0} : g = w.num /\ h = w.den
  BY FractionParts
<1>5. PICK p \in Nat, q \in Nat, r \in Nat, s \in Nat : p = a * f /\ q = e * b /\ r = g * d /\ s = c * h
  OBVIOUS
<1>6. p <= q /\ r <= s
  BY <1>1, <1>2, <1>3, <1>4, <1>5 DEF AtMost
<1>7. (a * d) * (f * g) <= (e * h) * (b * c)
  <2>1. p * r <= q * s
    BY <1>6, BothProductsGrow
  <2>2. (a * d) * (f * g) = (a * f) * (g * d) /\ (e * h) * (b * c) = (e * b) * (c * h)
    OBVIOUS
  <2> QED
    BY <1>5, <2>1, <2>2
<1>8. /\ [num |-> a * d, den |-> b * c] \in Fractions
      /\ [num |-> e * h, den |-> f * g] \in Fractions
  <2>1. a * d \in Nat /\ b * c \in Nat \ {0} /\ e * h \in Nat /\ f * g \in Nat \ {0}
    OBVIOUS
  <2> QED
    BY <2>1 DEF Fractions
<1>9. AtMost([num |-> a * d, den |-> b * c], [num |-> e * h, den |-> f * g])
  BY <1>7 DEF AtMost
<1> QED
  BY <1>1, <1>2, <1>3, <1>4, <1>8, <1>9, RoundedIsMonotone DEF Over

LEMMA MinusGrows ==
    ASSUME NEW x \in Fractions, NEW y \in Fractions, NEW v \in Fractions, NEW w \in Fractions,
           AtMost(x, v), AtMost(w, y), AtMost(y, x)
    PROVE  AtMost(w, v) /\ AtMost(Minus(x, y), Minus(v, w))
<1>1. PICK a \in Nat, b \in Nat \ {0} : a = x.num /\ b = x.den
  BY FractionParts
<1>2. PICK c \in Nat, d \in Nat \ {0} : c = y.num /\ d = y.den
  BY FractionParts
<1>3. PICK e \in Nat, f \in Nat \ {0} : e = v.num /\ f = v.den
  BY FractionParts
<1>4. PICK g \in Nat, h \in Nat \ {0} : g = w.num /\ h = w.den
  BY FractionParts
<1>5. AtMost(w, v)
  <2>1. AtMost(w, x)
    BY AtMostIsTransitive
  <2> QED
    BY <2>1, AtMostIsTransitive
<1>6. PICK p \in Nat, q \in Nat, r \in Nat, s \in Nat : p = a * f /\ q = e * b /\ r = g * d /\ s = c * h
  OBVIOUS
<1>7. p <= q /\ r <= s
  BY <1>1, <1>2, <1>3, <1>4, <1>6 DEF AtMost
<1>8. PICK k \in Nat, l \in Nat, m \in Nat, n \in Nat : k = a * d /\ l = c * b /\ m = e * h /\ n = g * f
  OBVIOUS
<1>9. l <= k /\ n <= m
  BY <1>1, <1>2, <1>3, <1>4, <1>5, <1>8 DEF AtMost
<1>10. (k - l) * (f * h) <= (m - n) * (b * d)
  <2>1. PICK i \in Nat, j \in Nat : i = d * h /\ j = f * b
    OBVIOUS
  <2>2. p * i <= q * i /\ r * j <= s * j
    BY <1>7, ProductsGrow
  <2>3. (k - l) * (f * h) = p * i - s * j
    <3>1. (a * d - c * b) * (f * h) = (a * f) * (d * h) - (c * h) * (f * b)
      OBVIOUS
    <3> QED
      BY <1>6, <1>8, <2>1, <3>1
  <2>4. (m - n) * (b * d) = q * i - r * j
    <3>1. (e * h - g * f) * (b * d) = (e * b) * (d * h) - (g * d) * (f * b)
      OBVIOUS
    <3> QED
      BY <1>6, <1>8, <2>1, <3>1
  <2>5. PICK t1 \in Nat, t2 \in Nat, t3 \in Nat, t4 \in Nat : t1 = p * i /\ t2 = q * i /\ t3 = r * j /\ t4 = s * j
    OBVIOUS
  <2> QED
    BY <2>2, <2>3, <2>4, <2>5
<1>11. /\ [num |-> k - l, den |-> b * d] \in Fractions
       /\ [num |-> m - n, den |-> f * h] \in Fractions
  <2>1. k - l \in Nat /\ b * d \in Nat \ {0} /\ m - n \in Nat /\ f * h \in Nat \ {0}
    BY <1>9
  <2> QED
    BY <2>1 DEF Fractions
<1>12. AtMost([num |-> k - l, den |-> b * d], [num |-> m - n, den |-> f * h])
  BY <1>10 DEF AtMost
<1>13. /\ Minus(x, y) = Rounded([num |-> k - l, den |-> b * d])
       /\ Minus(v, w) = Rounded([num |-> m - n, den |-> f * h])
  BY <1>1, <1>2, <1>3, <1>4, <1>8 DEF Minus
<1> QED
  BY <1>5, <1>11, <1>12, <1>13, RoundedIsMonotone

----------------------------------------------------------------------------
(* Compounding *)

(* One unit of the last digit of a number from 1 on, and one and that unit. *)
Least == [num |-> Ten, den |-> Power(10, (Precision - 1) + (Precision - 1))]
OneAndLeast == [num |-> Ten + 1, den |-> Power(10, Precision - 1)]

LEMMA LeastIsKept ==
    /\ Least \in Fractions /\ AtMost(Least, Rounded(Least))
    /\ OneAndLeast \in Fractions /\ AtMost(OneAndLeast, Rounded(OneAndLeast))
    /\ Least.den = Ten * Ten /\ OneAndLeast.den = Ten
<1>1. PICK p \in Nat : p = Precision - 1
  BY TenIsTyped
<1>2. PICK t \in Nat \ {0} : t = Ten
  BY TenIsTyped
<1>3. t <= t /\ t < 10 * t /\ t <= t + 1 /\ t + 1 < 10 * t /\ p + p \in Nat /\ t + 1 \in Nat
  OBVIOUS
<1>4. Least \in Fractions /\ AtMost(Least, Rounded(Least))
  BY <1>1, <1>2, <1>3, RoundedKeepsDigits DEF Least
<1>5. OneAndLeast \in Fractions /\ AtMost(OneAndLeast, Rounded(OneAndLeast))
  BY <1>1, <1>2, <1>3, RoundedKeepsDigits DEF OneAndLeast
<1>6. Power(10, p) * Power(10, p) = Power(10, p + p)
  BY PowerOfSum
<1>7. Least.den = Ten * Ten /\ OneAndLeast.den = Ten
  BY <1>1, <1>6 DEF Least, OneAndLeast, Ten
<1> QED
  BY <1>4, <1>5, <1>7

(* A monthly rate is not rounded to nothing, and grows with the year's. *)
LEMMA MonthlyRateIsTyped ==
    ASSUME NEW rate \in Nat
    PROVE  /\ MonthlyRate(rate) \in Fractions
           /\ rate # 0 => MonthlyRate(rate).num # 0 /\ AtMost(Least, MonthlyRate(rate))
<1>1. PICK S \in Nat \ {0} : S = Scale
  BY EngineAssumption
<1>2. MonthlyRate(rate) = Rounded([num |-> rate, den |-> S])
  <2>1. rate * 1 = rate /\ 1 * S = S
    OBVIOUS
  <2> QED
    BY <1>1, <2>1, WholeIsTyped DEF MonthlyRate, Over
<1>3. [num |-> rate, den |-> S] \in Fractions
  BY DEF Fractions
<1>4. ASSUME rate # 0 PROVE AtMost(Least, MonthlyRate(rate))
  <2>1. PICK t \in Nat \ {0} : t = Ten /\ S <= t
    BY <1>1, TenIsTyped, PrecisionAssumption DEF Ten
  <2>2. t * S <= rate * (t * t)
    <3>1. t * S <= t * t
      BY <2>1, ProductsGrow
    <3>2. PICK q \in Nat : q = t * t
      OBVIOUS
    <3>3. 1 * q <= rate * q
      BY <1>4, ProductsGrow
    <3>4. t * S \in Nat /\ rate * q \in Nat
      OBVIOUS
    <3> QED
      BY <3>1, <3>2, <3>3, <3>4
  <2>3. AtMost(Least, [num |-> rate, den |-> S])
    <3>1. Least.num = t /\ Least.den = t * t
      BY <2>1, LeastIsKept DEF Least
    <3> QED
      BY <2>2, <3>1 DEF AtMost
  <2>4. AtMost(Rounded(Least), Rounded([num |-> rate, den |-> S]))
    BY <1>3, <2>3, LeastIsKept, RoundedIsMonotone
  <2>5. Rounded(Least) \in Fractions /\ Rounded([num |-> rate, den |-> S]) \in Fractions
    BY <1>3, LeastIsKept, RoundedIsTyped
  <2> QED
    BY <1>2, <2>4, <2>5, LeastIsKept, AtMostIsTransitive
<1> QED
  BY <1>2, <1>3, <1>4, RoundedIsTyped

LEMMA MonthlyRateGrows ==
    ASSUME NEW a \in Nat, NEW b \in Nat, a <= b
    PROVE  AtMost(MonthlyRate(a), MonthlyRate(b))
<1>1. PICK S \in Nat \ {0} : S = Scale
  BY EngineAssumption
<1>2. Whole(S).num # 0 /\ AtMost(Whole(a), Whole(b)) /\ AtMost(Whole(S), Whole(S))
  BY WholeIsTyped DEF AtMost
<1> QED
  BY <1>1, <1>2, WholeIsTyped, OverGrows DEF MonthlyRate

(* One month at a rate that is not nothing. *)
Grows(r) == r \in Fractions /\ AtMost(Least, r)

LEMMA MonthExceedsOne ==
    ASSUME NEW r, Grows(r)
    PROVE  LET month == Plus(Whole(1), r) IN
           month \in Fractions /\ AtMost(OneAndLeast, month) /\ month.den < month.num
<1>1. PICK e \in Nat, f \in Nat \ {0} : e = r.num /\ f = r.den
  BY FractionParts DEF Grows
<1>2. PICK t \in Nat \ {0} : t = Ten
  BY TenIsTyped
<1>3. f <= e * t
  <2>1. Least.num = t /\ Least.den = t * t
    BY <1>2, LeastIsKept DEF Least
  <2>2. t * f <= e * (t * t)
    BY <1>1, <2>1 DEF Grows, AtMost
  <2>3. t * f = f * t /\ e * (t * t) = (e * t) * t /\ e * t \in Nat
    OBVIOUS
  <2> QED
    BY <2>2, <2>3, ProductsCancel
<1>4. (t + 1) * f <= (f + e) * t
  <2>1. (t + 1) * f = t * f + f /\ (f + e) * t = t * f + e * t
    OBVIOUS
  <2>2. PICK p \in Nat, q \in Nat : p = t * f /\ q = e * t
    OBVIOUS
  <2> QED
    BY <1>3, <2>1, <2>2
<1>5. Plus(Whole(1), r) = Rounded([num |-> f + e, den |-> f])
  <2>1. 1 * f = f /\ e * 1 = e
    OBVIOUS
  <2> QED
    BY <1>1, <2>1, WholeIsTyped DEF Plus
<1>6. [num |-> f + e, den |-> f] \in Fractions
  BY DEF Fractions
<1>7. OneAndLeast.num = t + 1 /\ OneAndLeast.den = t
  BY <1>2, LeastIsKept DEF OneAndLeast
<1>8. AtMost(OneAndLeast, [num |-> f + e, den |-> f])
  BY <1>4, <1>7 DEF AtMost
<1>9. AtMost(Rounded(OneAndLeast), Plus(Whole(1), r))
  BY <1>5, <1>6, <1>8, LeastIsKept, RoundedIsMonotone
<1>10. Plus(Whole(1), r) \in Fractions /\ Rounded(OneAndLeast) \in Fractions
  BY <1>5, <1>6, LeastIsKept, RoundedIsTyped
<1>11. AtMost(OneAndLeast, Plus(Whole(1), r))
  BY <1>9, <1>10, LeastIsKept, AtMostIsTransitive
<1>12. PICK g \in Nat, h \in Nat \ {0} : g = Plus(Whole(1), r).num /\ h = Plus(Whole(1), r).den
  BY <1>10, FractionParts
<1>13. (t + 1) * h <= g * t
  BY <1>7, <1>11, <1>12 DEF AtMost
<1>14. h < g
  <2>1. t * h < (t + 1) * h
    OBVIOUS
  <2>2. h * t = t * h
    OBVIOUS
  <2>3. PICK p \in Nat, q \in Nat, s \in Nat : p = t * h /\ q = (t + 1) * h /\ s = g * t
    OBVIOUS
  <2>4. h * t < g * t
    BY <1>13, <2>1, <2>2, <2>3
  <2> QED
    BY <2>4, ProductsCancel
<1> QED
  BY <1>10, <1>11, <1>12, <1>14

(* The power of a product. *)
LEMMA PowerOfProduct ==
    ASSUME NEW a \in Nat, NEW b \in Nat, NEW n \in Nat
    PROVE  Power(a * b, n) = Power(a, n) * Power(b, n)
<1> PICK c \in Nat : c = a * b
  OBVIOUS
<1> DEFINE S == {k \in Nat : Power(c, k) = Power(a, k) * Power(b, k)}
<1>1. 0 \in S
  BY PowerRules
<1>2. ASSUME NEW k \in Nat, k \in S PROVE k + 1 \in S
  <2>1. PICK p \in Nat, q \in Nat, r \in Nat : p = Power(a, k) /\ q = Power(b, k) /\ r = Power(c, k)
    BY PowerRules
  <2>2. r = p * q
    BY <1>2, <2>1
  <2>3. Power(a, k + 1) = a * p /\ Power(b, k + 1) = b * q /\ Power(c, k + 1) = c * r
    BY <2>1, PowerRules
  <2>4. (a * b) * (p * q) = (a * p) * (b * q)
    OBVIOUS
  <2> QED
    BY <2>2, <2>3, <2>4
<1>3. Nat \subseteq S
  <2> HIDE DEF S
  <2> QED
    BY <1>1, <1>2, Induction
<1> QED
  BY <1>3

LEMMA PowersKeepOrder ==
    ASSUME NEW a \in Nat \ {0}, NEW b \in Nat \ {0}, NEW n \in Nat, a <= b
    PROVE  Power(a, n) <= Power(b, n)
<1>1. PICK r \in Nat : b = a + r
  <2>1. b - a \in Nat /\ b = a + (b - a)
    OBVIOUS
  <2> QED
    BY <2>1
<1> QED
  BY <1>1, PowerMonotone

(* Every power of a fraction, as Compounded takes it. *)
Raised(x, n) == [num |-> Power(x.num, n), den |-> Power(x.den, n)]

LEMMA RaisedIsTyped ==
    ASSUME NEW x \in Fractions, x.num # 0, NEW n \in Nat
    PROVE  Raised(x, n) \in Fractions /\ Raised(x, n).num # 0
<1>1. PICK a \in Nat \ {0}, b \in Nat \ {0} : a = x.num /\ b = x.den
  BY FractionParts
<1>2. Power(a, n) \in Nat \ {0} /\ Power(b, n) \in Nat \ {0}
  BY PowerPositive
<1> QED
  BY <1>1, <1>2 DEF Raised, Fractions

LEMMA RaisedGrows ==
    ASSUME NEW x \in Fractions, NEW y \in Fractions, x.num # 0, y.num # 0, AtMost(x, y), NEW n \in Nat
    PROVE  AtMost(Raised(x, n), Raised(y, n))
<1>1. PICK a \in Nat \ {0}, b \in Nat \ {0} : a = x.num /\ b = x.den
  BY FractionParts
<1>2. PICK c \in Nat \ {0}, d \in Nat \ {0} : c = y.num /\ d = y.den
  BY FractionParts
<1>3. PICK p \in Nat \ {0}, q \in Nat \ {0} : p = a * d /\ q = c * b
  OBVIOUS
<1>4. p <= q
  BY <1>1, <1>2, <1>3 DEF AtMost
<1>5. Power(p, n) <= Power(q, n)
  BY <1>4, PowersKeepOrder
<1>6. Power(a, n) * Power(d, n) <= Power(c, n) * Power(b, n)
  <2>1. Power(a * d, n) = Power(a, n) * Power(d, n) /\ Power(c * b, n) = Power(c, n) * Power(b, n)
    BY PowerOfProduct
  <2> QED
    BY <1>3, <1>5, <2>1
<1> QED
  BY <1>1, <1>2, <1>6 DEF Raised, AtMost

LEMMA RaisedGrowsWithTime ==
    ASSUME NEW x \in Fractions, x.num # 0, x.den <= x.num, NEW m \in Nat, NEW n \in Nat, m <= n
    PROVE  AtMost(Raised(x, m), Raised(x, n))
<1>1. PICK a \in Nat \ {0}, b \in Nat \ {0} : a = x.num /\ b = x.den
  BY FractionParts
<1>2. PICK k \in Nat : n = m + k
  <2>1. n - m \in Nat /\ n = m + (n - m)
    OBVIOUS
  <2> QED
    BY <2>1
<1>3. /\ Power(a, n) = Power(a, m) * Power(a, k) /\ Power(b, n) = Power(b, m) * Power(b, k)
      /\ Power(b, k) <= Power(a, k)
  <2>1. b <= a
    BY <1>1
  <2>2. Power(b, k) <= Power(a, k)
    BY <2>1, PowersKeepOrder
  <2>3. /\ Power(a, m + k) = Power(a, m) * Power(a, k)
        /\ Power(b, m + k) = Power(b, m) * Power(b, k)
    BY PowerOfSum
  <2> QED
    BY <1>2, <2>2, <2>3
<1>4. PICK p \in Nat, q \in Nat : p = Power(a, m) /\ q = Power(b, m)
  BY PowerRules
<1>5. PICK r \in Nat, s \in Nat : r = Power(a, k) /\ s = Power(b, k)
  BY PowerRules
<1>6. p * (q * s) <= (p * r) * q
  <2>1. PICK v \in Nat : v = p * q
    OBVIOUS
  <2>2. v * s <= v * r
    BY <1>3, <1>5, ProductsGrow
  <2>3. p * (q * s) = (p * q) * s /\ (p * r) * q = (p * q) * r
    OBVIOUS
  <2> QED
    BY <2>1, <2>2, <2>3
<1> QED
  BY <1>1, <1>3, <1>4, <1>5, <1>6 DEF Raised, AtMost

(* (1 + r)^n is more than one; it grows with the rate and with time. *)
LEMMA CompoundedExceedsOne ==
    ASSUME NEW r, Grows(r), NEW n \in Nat \ {0}
    PROVE  /\ Compounded(r, n) \in Fractions /\ Compounded(r, n).num # 0
           /\ AtMost(OneAndLeast, Compounded(r, n))
           /\ AtMost(Whole(1), Compounded(r, n)) /\ ~AtMost(Compounded(r, n), Whole(1))
<1>1. PICK month \in Fractions :
        month = Plus(Whole(1), r) /\ AtMost(OneAndLeast, month) /\ month.den < month.num
  BY MonthExceedsOne
<1>2. month.num # 0 /\ month.num \in Nat /\ month.den \in Nat
  BY <1>1 DEF Fractions
<1>3. Compounded(r, n) = Rounded(Raised(month, n))
  BY <1>1 DEF Compounded, Raised
<1>4. Raised(month, n) \in Fractions /\ Raised(month, n).num # 0
  BY <1>2, RaisedIsTyped
<1>5. AtMost(OneAndLeast, Raised(month, n))
  <2>1. Power(month.num, 1) = month.num /\ Power(month.den, 1) = month.den
    <3>1. \A b \in Nat : Power(b, 0 + 1) = b * 1
      BY PowerRules
    <3>2. \A b \in Nat : Power(b, 1) = b
      BY <3>1
    <3> QED
      BY <1>2, <3>2
  <2>2. AtMost(OneAndLeast, Raised(month, 1))
    BY <1>1, <2>1 DEF Raised, AtMost
  <2>3. 1 <= n /\ month.den <= month.num
    BY <1>1, <1>2
  <2>4. AtMost(Raised(month, 1), Raised(month, n)) /\ Raised(month, 1) \in Fractions
    BY <1>2, <2>3, RaisedGrowsWithTime, RaisedIsTyped
  <2> QED
    BY <1>4, <2>2, <2>4, LeastIsKept, AtMostIsTransitive
<1>6. AtMost(Rounded(OneAndLeast), Compounded(r, n))
  BY <1>3, <1>4, <1>5, LeastIsKept, RoundedIsMonotone
<1>7. /\ Compounded(r, n) \in Fractions /\ Compounded(r, n).num # 0
      /\ Rounded(OneAndLeast) \in Fractions
  BY <1>3, <1>4, LeastIsKept, RoundedIsTyped
<1>8. AtMost(OneAndLeast, Compounded(r, n))
  BY <1>6, <1>7, LeastIsKept, AtMostIsTransitive
<1>9. PICK t \in Nat \ {0} : t = Ten /\ OneAndLeast.num = t + 1 /\ OneAndLeast.den = t
  BY TenIsTyped, LeastIsKept DEF OneAndLeast
<1>10. PICK g \in Nat, h \in Nat \ {0} : g = Compounded(r, n).num /\ h = Compounded(r, n).den
  BY <1>7, FractionParts
<1>11. (t + 1) * h <= g * t
  BY <1>8, <1>9, <1>10 DEF AtMost
<1>12. h < g
  <2>1. t * h < (t + 1) * h
    OBVIOUS
  <2>2. h * t = t * h
    OBVIOUS
  <2>3. PICK p \in Nat, q \in Nat, s \in Nat : p = t * h /\ q = (t + 1) * h /\ s = g * t
    OBVIOUS
  <2>4. h * t < g * t
    BY <1>11, <2>1, <2>2, <2>3
  <2> QED
    BY <2>4, ProductsCancel
<1>13. AtMost(Whole(1), Compounded(r, n)) /\ ~AtMost(Compounded(r, n), Whole(1))
  BY <1>10, <1>12, WholeIsTyped DEF AtMost
<1> QED
  BY <1>7, <1>8, <1>13

LEMMA CompoundedGrowsWithRate ==
    ASSUME NEW r, NEW s, Grows(r), Grows(s), AtMost(r, s), NEW n \in Nat \ {0}
    PROVE  AtMost(Compounded(r, n), Compounded(s, n))
<1>1. PICK x \in Fractions : x = Plus(Whole(1), r) /\ x.den < x.num
  BY MonthExceedsOne
<1>2. PICK y \in Fractions : y = Plus(Whole(1), s) /\ y.den < y.num
  BY MonthExceedsOne
<1>3. x.num # 0 /\ y.num # 0
  BY <1>1, <1>2 DEF Fractions
<1>4. AtMost(x, y)
  BY <1>1, <1>2, PlusOneGrows DEF Grows
<1>5. n \in Nat
  OBVIOUS
<1>6. /\ AtMost(Raised(x, n), Raised(y, n))
      /\ Raised(x, n) \in Fractions /\ Raised(y, n) \in Fractions
  BY <1>3, <1>4, <1>5, RaisedGrows, RaisedIsTyped
<1>7. Compounded(r, n) = Rounded(Raised(x, n)) /\ Compounded(s, n) = Rounded(Raised(y, n))
  BY <1>1, <1>2 DEF Compounded, Raised
<1> QED
  BY <1>6, <1>7, RoundedIsMonotone

LEMMA CompoundedGrowsWithTime ==
    ASSUME NEW r, Grows(r), NEW m \in Nat \ {0}, NEW n \in Nat \ {0}, m <= n
    PROVE  AtMost(Compounded(r, m), Compounded(r, n))
<1>1. PICK x \in Fractions : x = Plus(Whole(1), r) /\ x.den < x.num
  BY MonthExceedsOne
<1>2. x.num # 0 /\ x.den <= x.num /\ m \in Nat /\ n \in Nat
  BY <1>1 DEF Fractions
<1>3. /\ AtMost(Raised(x, m), Raised(x, n))
      /\ Raised(x, m) \in Fractions /\ Raised(x, n) \in Fractions
  BY <1>2, RaisedGrowsWithTime, RaisedIsTyped
<1>4. Compounded(r, m) = Rounded(Raised(x, m)) /\ Compounded(r, n) = Rounded(Raised(x, n))
  BY <1>1 DEF Compounded, Raised
<1> QED
  BY <1>3, <1>4, RoundedIsMonotone

LEMMA RatesGrow ==
    ASSUME NEW rate \in Nat \ {0}
    PROVE  Grows(MonthlyRate(rate))
<1> rate \in Nat
  OBVIOUS
<1> QED
  BY MonthlyRateIsTyped DEF Grows

(* What an amount grows to is no less than the amount, rounded as it is. *)
LEMMA GrownIsNoLess ==
    ASSUME NEW a \in Nat, NEW rate \in Nat \ {0}, NEW n \in Nat \ {0}
    PROVE  Grown(a, rate, n) \in Fractions /\ AtMost(Whole(a), Grown(a, rate, n))
<1>1. PICK C \in Fractions : C = Compounded(MonthlyRate(rate), n) /\ AtMost(OneAndLeast, C)
  BY RatesGrow, CompoundedExceedsOne
<1>2. Grown(a, rate, n) = Times(Whole(a), C)
  BY <1>1 DEF Grown
<1>3. Grown(a, rate, n) \in Fractions
  BY <1>2, WholeIsTyped, TimesIsTyped
<1>4. CASE a = 0
  <2>1. Grown(a, rate, n).num \in Nat
    BY <1>3 DEF Fractions
  <2>2. 0 * Grown(a, rate, n).den = 0
    BY <1>3 DEF Fractions
  <2> QED
    BY <1>3, <1>4, <2>1, <2>2, WholeIsTyped DEF AtMost
<1>5. CASE a # 0
  <2>1. PICK g \in Nat, h \in Nat \ {0} : g = C.num /\ h = C.den
    BY FractionParts
  <2>2. PICK t \in Nat \ {0} : t = Ten /\ OneAndLeast.num = t + 1 /\ OneAndLeast.den = t
    BY TenIsTyped, LeastIsKept DEF OneAndLeast
  <2>3. (t + 1) * h <= g * t
    BY <1>1, <2>1, <2>2 DEF AtMost
  <2>4. g # 0
    <3>1. (t + 1) * h > 0
      OBVIOUS
    <3>2. g = 0 => g * t = 0
      OBVIOUS
    <3>3. (t + 1) * h \in Nat /\ g * t \in Nat
      OBVIOUS
    <3> QED
      BY <2>3, <3>1, <3>2, <3>3
  <2>5. PICK x \in Fractions : x = [num |-> a * g, den |-> h] /\ x.num # 0
    <3>1. PICK q \in Nat \ {0} : q = a * g
      BY <1>5, <2>4
    <3>2. [num |-> q, den |-> h] \in Fractions /\ [num |-> q, den |-> h].num # 0
      BY DEF Fractions
    <3> QED
      BY <3>1, <3>2
  <2>6. Grown(a, rate, n) = Rounded(x)
    <3>1. 1 * h = h
      OBVIOUS
    <3> QED
      BY <1>2, <2>1, <2>5, <3>1, WholeIsTyped DEF Times
  <2>7. PICK z \in Nat, y \in Nat \ {0} : z = Rounded(x).num /\ y = Rounded(x).den
    BY <1>3, <2>6, FractionParts
  <2>8. (a * g) * (2 * t - 1) * y <= z * (2 * t) * h
    BY <2>2, <2>5, <2>7, RoundedLosesLittle
  <2>9. PICK k \in Nat, p \in Nat, s \in Nat : k = 2 * t - 1 /\ p = a * y /\ s = a * y * k
    <3>1. 2 * t - 1 \in Nat
      OBVIOUS
    <3> QED
      BY <3>1
  <2>10. s * ((t + 1) * h) <= s * (g * t)
    <3>1. (t + 1) * h \in Nat /\ g * t \in Nat
      OBVIOUS
    <3> QED
      BY <2>3, <3>1, ProductsGrow
  <2>11. s * (g * t) <= (2 * t * t * h) * z
    <3>1. ((a * g) * k * y) * t <= (z * (2 * t) * h) * t
      <4>1. PICK q \in Nat, r \in Nat : q = (a * g) * k * y /\ r = z * (2 * t) * h
        <5>1. a * g \in Nat /\ z * (2 * t) \in Nat
          OBVIOUS
        <5>2. (a * g) * k \in Nat
          BY <5>1
        <5> QED
          BY <5>1, <5>2
      <4> QED
        BY <2>8, <2>9, <4>1, ProductsGrow
    <3>2. ((a * g) * k * y) * t = (a * y * k) * (g * t) /\ (z * (2 * t) * h) * t = (2 * t * t * h) * z
      OBVIOUS
    <3> QED
      BY <2>9, <3>1, <3>2
  <2>12. (2 * t * t * h) * p <= s * ((t + 1) * h)
    <3>1. 2 * t * t <= k * (t + 1)
      <4>1. (2 * t - 1) * (t + 1) = 2 * t * t + (t - 1)
        OBVIOUS
      <4>2. 2 * t * t \in Nat /\ t - 1 >= 0
        OBVIOUS
      <4> QED
        BY <2>9, <4>1, <4>2
    <3>2. PICK q \in Nat, r \in Nat, v \in Nat : q = 2 * t * t /\ r = k * (t + 1) /\ v = h * p
      OBVIOUS
    <3>3. q * v <= r * v
      BY <3>1, <3>2, ProductsGrow
    <3>4. (2 * t * t) * (h * p) = (2 * t * t * h) * p
      OBVIOUS
    <3>5. (k * (t + 1)) * (h * (a * y)) = (a * y * k) * ((t + 1) * h)
      OBVIOUS
    <3> QED
      BY <2>9, <3>2, <3>3, <3>4, <3>5
  <2>13. PICK w \in Nat \ {0} : w = 2 * t * t * h
    <3>1. t * t \in Nat \ {0}
      OBVIOUS
    <3>2. (t * t) * h \in Nat \ {0}
      BY <3>1
    <3>3. 2 * t * t * h = 2 * ((t * t) * h)
      OBVIOUS
    <3> QED
      BY <3>2, <3>3
  <2>14. w * p <= w * z
    <3>1. PICK q \in Nat, r \in Nat : q = s * ((t + 1) * h) /\ r = s * (g * t)
      <4>1. (t + 1) * h \in Nat /\ g * t \in Nat
        OBVIOUS
      <4> QED
        BY <4>1
    <3>2. w * p \in Nat /\ w * z \in Nat
      OBVIOUS
    <3> QED
      BY <2>10, <2>11, <2>12, <2>13, <3>1, <3>2
  <2>15. p <= z
    <3>1. w * p = p * w /\ w * z = z * w
      OBVIOUS
    <3> QED
      BY <2>14, <3>1, ProductsCancel
  <2>16. z * 1 = z
    OBVIOUS
  <2> QED
    BY <1>3, <2>6, <2>7, <2>9, <2>15, <2>16, WholeIsTyped DEF AtMost
<1> QED
  BY <1>4, <1>5

LEMMA GrownIsTyped ==
    ASSUME NEW a \in Nat, NEW rate \in Nat, NEW n \in Nat \ {0}
    PROVE  Grown(a, rate, n) \in Fractions
<1>1. CASE rate = 0
  BY <1>1, WholeIsTyped DEF Grown
<1>2. CASE rate # 0
  BY <1>2, GrownIsNoLess
<1> QED
  BY <1>1, <1>2

LEMMA WholesAreOrdered ==
    ASSUME NEW a \in Nat, NEW b \in Nat, a <= b
    PROVE  AtMost(Whole(a), Whole(b))
BY WholeIsTyped DEF AtMost

(* More grows to more, and at a higher rate; *)
LEMMA GrownGrows ==
    ASSUME NEW a \in Nat, NEW b \in Nat, a <= b, NEW rate \in Nat, NEW higher \in Nat, rate <= higher,
           NEW n \in Nat \ {0}
    PROVE  AtMost(Grown(a, rate, n), Grown(b, higher, n))
<1>1. AtMost(Whole(a), Whole(b)) /\ Whole(a) \in Fractions /\ Whole(b) \in Fractions
  BY WholesAreOrdered, WholeIsTyped
<1>2. CASE higher = 0
  <2>1. rate = 0
    BY <1>2
  <2> QED
    BY <1>1, <1>2, <2>1 DEF Grown
<1>3. CASE rate = 0 /\ higher # 0
  <2>1. Grown(b, higher, n) \in Fractions /\ AtMost(Whole(b), Grown(b, higher, n))
    BY <1>3, GrownIsNoLess
  <2>2. Grown(a, rate, n) = Whole(a)
    BY <1>3 DEF Grown
  <2> QED
    BY <1>1, <2>1, <2>2, AtMostIsTransitive
<1>4. CASE rate # 0
  <2>1. rate \in Nat \ {0} /\ higher \in Nat \ {0}
    BY <1>4
  <2>2. PICK r, s : /\ r = MonthlyRate(rate) /\ s = MonthlyRate(higher)
                    /\ Grows(r) /\ Grows(s) /\ AtMost(r, s)
    BY <2>1, RatesGrow, MonthlyRateGrows
  <2>3. /\ Compounded(r, n) \in Fractions /\ Compounded(s, n) \in Fractions
        /\ AtMost(Compounded(r, n), Compounded(s, n))
    BY <2>2, CompoundedExceedsOne, CompoundedGrowsWithRate
  <2>4. AtMost(Times(Whole(a), Compounded(r, n)), Times(Whole(b), Compounded(s, n)))
    BY <1>1, <2>3, TimesGrows
  <2> QED
    BY <2>1, <2>2, <2>4 DEF Grown
<1> QED
  BY <1>2, <1>3, <1>4

(* and to more in a longer time. *)
LEMMA GrownGrowsWithTime ==
    ASSUME NEW a \in Nat, NEW b \in Nat, a <= b, NEW rate \in Nat,
           NEW m \in Nat \ {0}, NEW n \in Nat \ {0}, m <= n
    PROVE  AtMost(Grown(a, rate, m), Grown(b, rate, n))
<1>1. AtMost(Whole(a), Whole(b)) /\ Whole(a) \in Fractions /\ Whole(b) \in Fractions
  BY WholesAreOrdered, WholeIsTyped
<1>2. CASE rate = 0
  BY <1>1, <1>2 DEF Grown
<1>3. CASE rate # 0
  <2>1. PICK r : r = MonthlyRate(rate) /\ Grows(r)
    BY <1>3, RatesGrow
  <2>2. /\ Compounded(r, m) \in Fractions /\ Compounded(r, n) \in Fractions
        /\ AtMost(Compounded(r, m), Compounded(r, n))
    BY <2>1, CompoundedExceedsOne, CompoundedGrowsWithTime
  <2>3. AtMost(Times(Whole(a), Compounded(r, m)), Times(Whole(b), Compounded(r, n)))
    BY <1>1, <2>2, TimesGrows
  <2> QED
    BY <1>3, <2>1, <2>3 DEF Grown
<1> QED
  BY <1>2, <1>3

(* More that is short, or less time to save it in, requires more a month. *)
LEMMA RequiredSipGrows ==
    ASSUME NEW x \in Fractions, NEW y \in Fractions, AtMost(x, y), NEW rate \in Nat,
           NEW m \in Nat \ {0}, NEW n \in Nat \ {0}, m <= n
    PROVE  /\ RequiredSip(x, rate, n) \in Fractions /\ RequiredSip(y, rate, m) \in Fractions
           /\ AtMost(RequiredSip(x, rate, n), RequiredSip(y, rate, m))
<1>1. CASE rate = 0
  <2>1. /\ Whole(m) \in Fractions /\ Whole(n) \in Fractions /\ Whole(m).num # 0 /\ Whole(n).num # 0
        /\ AtMost(Whole(m), Whole(n))
    BY WholeIsTyped, WholesAreOrdered
  <2>2. /\ Over(x, Whole(n)) \in Fractions /\ Over(y, Whole(m)) \in Fractions
        /\ AtMost(Over(x, Whole(n)), Over(y, Whole(m)))
    BY <2>1, OverIsTyped, OverGrows
  <2> QED
    BY <1>1, <2>2 DEF RequiredSip
<1>2. CASE rate # 0
  <2>1. PICK r : r = MonthlyRate(rate) /\ Grows(r)
    BY <1>2, RatesGrow
  <2>2. PICK C \in Fractions, D \in Fractions :
          /\ C = Compounded(r, m) /\ D = Compounded(r, n) /\ AtMost(C, D)
          /\ AtMost(Whole(1), C) /\ ~AtMost(C, Whole(1))
          /\ AtMost(Whole(1), D) /\ ~AtMost(D, Whole(1))
    BY <2>1, CompoundedExceedsOne, CompoundedGrowsWithTime
  <2>3. Whole(1) \in Fractions /\ AtMost(Whole(1), Whole(1))
    BY WholeIsTyped DEF AtMost
  <2>4. PICK c \in Fractions, d \in Fractions :
          /\ c = Minus(C, Whole(1)) /\ d = Minus(D, Whole(1)) /\ c.num # 0 /\ d.num # 0
          /\ AtMost(c, d)
    <3>1. /\ Minus(C, Whole(1)) \in Fractions /\ Minus(C, Whole(1)).num # 0
          /\ Minus(D, Whole(1)) \in Fractions /\ Minus(D, Whole(1)).num # 0
      BY <2>2, <2>3, MinusIsTyped
    <3>2. AtMost(Minus(C, Whole(1)), Minus(D, Whole(1)))
      BY <2>2, <2>3, MinusGrows
    <3> QED
      BY <3>1, <3>2
  <2>5. r \in Fractions /\ AtMost(r, r)
    BY <2>1 DEF Grows, AtMost, Fractions
  <2>6. PICK p \in Fractions, q \in Fractions : p = Times(x, r) /\ q = Times(y, r) /\ AtMost(p, q)
    BY <2>5, TimesIsTyped, TimesGrows
  <2>7. Over(p, d) \in Fractions /\ Over(q, c) \in Fractions /\ AtMost(Over(p, d), Over(q, c))
    BY <2>4, <2>6, OverIsTyped, OverGrows
  <2> QED
    BY <1>2, <2>1, <2>2, <2>4, <2>6, <2>7 DEF RequiredSip
<1> QED
  BY <1>1, <1>2

----------------------------------------------------------------------------
(* Loans *)

AnyRows == [balance : Int, principal : Int, interest : Int]
Rows == [balance : Nat, principal : Nat, interest : Nat]

LEMMA InterestIsTyped ==
    ASSUME NEW balance \in Int, NEW rate \in Nat
    PROVE  /\ Interest(balance, rate) \in Int
           /\ balance >= 0 => Interest(balance, rate) \in Nat
<1>1. Scale \in Nat \ {0}
  BY EngineAssumption
<1>2. PICK n \in Int : n = balance * rate
  OBVIOUS
<1>3. balance >= 0 => n \in Nat
  BY <1>2
<1> QED
  BY <1>1, <1>2, <1>3, RoundingIsTyped, RoundingOfNaturals DEF Interest

LEMMA InterestGrows ==
    ASSUME NEW small \in Nat, NEW large \in Nat, small <= large, NEW rate \in Nat
    PROVE  Interest(small, rate) <= Interest(large, rate)
<1> PICK d \in Nat \ {0} : d = Scale
  BY EngineAssumption
<1>1. PICK a \in Nat, n \in Nat : a = small * rate /\ n = large * rate
  OBVIOUS
<1>2. a * d <= n * d
  <2>1. a <= n
    BY <1>1
  <2> QED
    BY <2>1
<1>3. RoundHalfUp(a, d) <= RoundHalfUp(n, d)
  BY <1>2, RoundingIsMonotone
<1> QED
  BY <1>1, <1>3 DEF Interest

(* The fraction of the principal that a payment rounds. *)
LEMMA EmiParts ==
    ASSUME NEW principal \in Int, NEW rate \in Nat \ {0}, NEW months \in Nat \ {0}
    PROVE  \E p \in Nat \ {0}, q \in Nat \ {0} :
             q < p /\ Emi(principal, rate, months) = RoundHalfUp(principal * rate * p, Scale * (p - q))
<1> months \in Nat
  OBVIOUS
<1>1. PICK p \in Nat \ {0}, q \in Nat \ {0} :
        p = Growth(rate, months).num /\ q = Growth(rate, months).den /\ q < p
  BY GrowthIsTyped
<1>2. Emi(principal, rate, months) = RoundHalfUp(principal * rate * p, Scale * (p - q))
  BY <1>1 DEF Emi
<1> QED
  BY <1>1, <1>2

LEMMA EmiIsTyped ==
    ASSUME NEW principal \in Int, NEW rate \in Nat, NEW months \in Nat \ {0}
    PROVE  Emi(principal, rate, months) \in Int
<1>1. CASE rate = 0
  BY <1>1, RoundingIsTyped DEF Emi
<1>2. CASE rate # 0
  <2>1. PICK p \in Nat \ {0}, q \in Nat \ {0} :
          q < p /\ Emi(principal, rate, months) = RoundHalfUp(principal * rate * p, Scale * (p - q))
    BY <1>2, EmiParts
  <2>2. PICK S \in Nat \ {0} : S = Scale
    BY EngineAssumption
  <2>3. principal * rate * p \in Int /\ S * (p - q) \in Nat \ {0}
    BY <2>1
  <2> QED
    BY <2>1, <2>2, <2>3, RoundingIsTyped
<1> QED
  BY <1>1, <1>2

(* A payment covers a month's interest, rounded as both are. *)
LEMMA EmiCoversInterest ==
    ASSUME NEW principal \in Nat, NEW rate \in Nat, NEW months \in Nat \ {0}
    PROVE  Interest(principal, rate) <= Emi(principal, rate, months)
<1> PICK S \in Nat \ {0} : S = Scale
  BY EngineAssumption
<1>1. CASE rate = 0
  <2>1. principal * rate = 0
    BY <1>1
  <2>2. 0 * months <= principal * S
    OBVIOUS
  <2>3. RoundHalfUp(0, S) <= RoundHalfUp(principal, months)
    BY <2>2, RoundingIsMonotone
  <2> QED
    BY <1>1, <2>1, <2>3 DEF Interest, Emi
<1>2. CASE rate # 0
  <2>1. PICK p \in Nat \ {0}, q \in Nat \ {0} :
          q < p /\ Emi(principal, rate, months) = RoundHalfUp(principal * rate * p, Scale * (p - q))
    <3>1. principal \in Int /\ rate \in Nat \ {0}
      BY <1>2
    <3> HIDE <1>2
    <3> QED
      BY <3>1, EmiParts, ZenonT(30)
  <2>2. PICK a \in Nat : a = principal * rate
    OBVIOUS
  <2>3. PICK n \in Nat, d \in Nat \ {0} : n = a * p /\ d = S * (p - q)
    BY <2>1
  <2>4. a * d <= n * S
    <3>1. a * d = (a * S) * (p - q) /\ n * S = (a * S) * p
      BY <2>3
    <3>2. PICK x \in Nat : x = a * S
      OBVIOUS
    <3>3. x * (p - q) <= x * p
      BY <2>1
    <3> QED
      BY <3>1, <3>2, <3>3
  <2>5. RoundHalfUp(a, S) <= RoundHalfUp(n, d)
    BY <2>4, RoundingIsMonotone
  <2> QED
    BY <2>1, <2>2, <2>3, <2>5 DEF Interest
<1> QED
  BY <1>1, <1>2

LEMMA SumIsTyped ==
    ASSUME NEW rows \in Seq(Rows), NEW field \in {"principal", "interest"}
    PROVE  SumOf(rows, field) \in Int
<1>1. \A r \in Rows : r[field] \in Int
  BY DEF Rows
<1>2. \E f \in [0..Len(rows) -> Int] :
         IsSum(f, rows, field, Len(rows)) /\ SumOf(rows, field) = f[Len(rows)]
  BY <1>1, SumLoop
<1> QED
  BY <1>2

LEMMA InterestIsSummed ==
    ASSUME NEW rows \in Seq(AnyRows)
    PROVE  SumOf(rows, "interest") \in Int
<1>1. \A r \in AnyRows : r["interest"] \in Int
  BY DEF AnyRows
<1>2. \E f \in [0..Len(rows) -> Int] :
         IsSum(f, rows, "interest", Len(rows)) /\ SumOf(rows, "interest") = f[Len(rows)]
  BY <1>1, SumLoop
<1> QED
  BY <1>2

(* A loop over months has written rows and is owed the rest of P. *)
Owed(rows, owed, P) ==
    /\ rows \in Seq(Rows) /\ owed \in Nat
    /\ SumOf(rows, "principal") + owed = P
    /\ IF rows = <<>> THEN owed = P ELSE rows[Len(rows)].balance = owed
    /\ \A i \in 1..Len(rows) - 1 : rows[i].balance # 0

LEMMA OwedAtFirst ==
    ASSUME NEW P \in Nat
    PROVE  Owed(<<>>, P, P)
BY SumOfNothing DEF Owed

(* A payment of what is owed, or less, writes a row more. *)
LEMMA OwedAfterPayment ==
    ASSUME NEW P \in Nat, NEW rows, NEW owed \in Nat \ {0}, Owed(rows, owed, P),
           NEW due \in 0..owed, NEW interest \in Nat
    PROVE  Owed(Append(rows, Row(owed, due, interest)), owed - due, P)
<1>1. PICK row \in Rows : row = Row(owed, due, interest)
  <2>1. owed - due \in Nat /\ due \in Nat
    OBVIOUS
  <2> QED
    BY <2>1 DEF Rows, Row
<1>2. row.balance = owed - due /\ row.principal = due
  BY <1>1 DEF Row
<1>3. rows \in Seq(Rows) /\ SumOf(rows, "principal") + owed = P
  BY DEF Owed
<1>4. SumOf(rows, "principal") \in Int
  BY <1>3, SumIsTyped
<1>5. SumOf(Append(rows, row), "principal") = SumOf(rows, "principal") + row["principal"]
  <2>1. \A r \in Rows : r["principal"] \in Int
    BY DEF Rows
  <2> QED
    BY <1>3, <2>1, SumOfAppend
<1>6. SumOf(Append(rows, row), "principal") + (owed - due) = P
  BY <1>2, <1>3, <1>4, <1>5
<1>7. PICK new \in Seq(Rows) : new = Append(rows, row)
  <2>1. Append(rows, row) \in Seq(Rows)
    BY <1>3
  <2> QED
    BY <2>1
<1>8. /\ Len(new) = Len(rows) + 1 /\ new[Len(new)] = row
      /\ \A i \in 1..Len(rows) : new[i] = rows[i]
  BY <1>3, <1>7
<1>9. new # <<>>
  BY <1>3, <1>7
<1>10. ASSUME NEW i \in 1..Len(new) - 1 PROVE new[i].balance # 0
  <2>1. i \in 1..Len(rows) /\ new[i] = rows[i]
    BY <1>3, <1>8
  <2>2. rows # <<>> /\ rows[Len(rows)].balance = owed
    BY <1>3, <2>1 DEF Owed
  <2>3. \A j \in 1..Len(rows) - 1 : rows[j].balance # 0
    BY DEF Owed
  <2>4. i = Len(rows) \/ i \in 1..Len(rows) - 1
    BY <1>3, <2>1
  <2> QED
    BY <2>1, <2>2, <2>3, <2>4
<1> QED
  BY <1>1, <1>2, <1>6, <1>7, <1>8, <1>9, <1>10 DEF Owed

(* A loan of which nothing is owed any more is repaid. *)
LEMMA ClearedRepays ==
    ASSUME NEW P \in Nat \ {0}, NEW N \in Nat, NEW rows, Owed(rows, 0, P), Len(rows) <= N
    PROVE  Repays(rows, P, N)
<1>1. rows \in Seq(Rows) /\ rows # <<>>
  BY DEF Owed
<1>2. PICK n \in Nat : n = Len(rows) /\ n \in 1..N
  BY <1>1
<1>3. rows[n].balance = 0
  BY <1>1, <1>2 DEF Owed
<1>4. SumOf(rows, "principal") = P
  <2>1. SumOf(rows, "principal") + 0 = P
    BY DEF Owed
  <2>2. SumOf(rows, "principal") \in Int
    BY <1>1, SumIsTyped
  <2> QED
    BY <2>1, <2>2
<1>5. \A i \in 1..n - 1 : rows[i].balance # 0
  BY <1>2 DEF Owed
<1>6. \A i \in 1..n : rows[i] \in Rows
  BY <1>1, <1>2
<1> QED
  BY <1>1, <1>2, <1>3, <1>4, <1>5, <1>6 DEF Repays, Rows

(* A turn of the schedule's loop. *)
Month(was, rate, emi, last) ==
    LET interest == Interest(was.owed, rate)
        due == PrincipalOfMonth(was.owed, interest, emi, last) IN
    IF was.owed = 0 THEN was
    ELSE [rows |-> Append(was.rows, Row(was.owed, due, interest)), owed |-> was.owed - due]

Balances == [rows : Seq(AnyRows), owed : Int]

IsSchedule(f, P, rate, N, emi) ==
    /\ Schedule(P, rate, N, emi) = f[N].rows
    /\ f[0] = [rows |-> <<>>, owed |-> P]
    /\ \A m \in 1..N : f[m] = Month(f[m - 1], rate, emi, m = N)

LEMMA DueIsTyped ==
    ASSUME NEW owed \in Int, NEW interest \in Int, NEW emi \in Int, NEW last \in BOOLEAN
    PROVE  PrincipalOfMonth(owed, interest, emi, last) \in Int
<1>1. PICK rest \in Int : rest = emi - interest
  OBVIOUS
<1>2. Min({rest, owed}) = IF rest <= owed THEN rest ELSE owed
  BY MinOfTwo
<1> QED
  BY <1>1, <1>2 DEF PrincipalOfMonth

LEMMA MonthIsTyped ==
    ASSUME NEW was \in Balances, NEW rate \in Nat, NEW emi \in Int, NEW last \in BOOLEAN
    PROVE  Month(was, rate, emi, last) \in Balances
<1>1. was.owed \in Int /\ was.rows \in Seq(AnyRows)
  BY DEF Balances
<1>2. PICK interest \in Int : interest = Interest(was.owed, rate)
  BY <1>1, InterestIsTyped
<1>3. PICK due \in Int : due = PrincipalOfMonth(was.owed, interest, emi, last)
  BY <1>1, DueIsTyped
<1>4. Row(was.owed, due, interest) \in AnyRows
  BY <1>1 DEF Row, AnyRows
<1>5. Append(was.rows, Row(was.owed, due, interest)) \in Seq(AnyRows)
  BY <1>1, <1>4
<1>6. was.owed - due \in Int
  BY <1>1
<1> QED
  BY <1>2, <1>3, <1>5, <1>6 DEF Month, Balances

LEMMA ScheduleLoop ==
    ASSUME NEW P \in Nat, NEW rate \in Nat, NEW N \in Nat, NEW emi \in Int
    PROVE  \E f \in [0..N -> Balances] : IsSchedule(f, P, rate, N, emi)
<1> DEFINE first == [rows |-> <<>>, owed |-> P]
           step == [m \in Nat |-> [was \in Balances |-> Month(was, rate, emi, m = N)]]
<1>1. PICK f \in [0..N -> Balances] : IsLoop(f, first, step, N)
  <2>1. step \in [Nat -> [Balances -> Balances]]
    BY MonthIsTyped
  <2>2. first \in Balances
    BY DEF Balances
  <2> HIDE DEF step, first
  <2> QED
    BY <2>1, <2>2, Recursion
<1>2. f[0] = first
  BY <1>1 DEF IsLoop
<1>3. ASSUME NEW m \in 1..N PROVE f[m] = Month(f[m - 1], rate, emi, m = N)
  <2>1. m \in Nat /\ f[m - 1] \in Balances
    OBVIOUS
  <2>2. step[m][f[m - 1]] = Month(f[m - 1], rate, emi, m = N)
    BY <2>1
  <2>3. f[m] = step[m][f[m - 1]]
    BY <1>1 DEF IsLoop
  <2> QED
    BY <2>2, <2>3
<1> HIDE DEF step
<1> DEFINE After[m \in 0..N] == IF m = 0 THEN first ELSE Month(After[m - 1], rate, emi, m = N)
<1>4. f = [m \in 0..N |-> IF m = 0 THEN first ELSE Month(f[m - 1], rate, emi, m = N)]
  <2> HIDE DEF first
  <2> QED
    BY <1>2, <1>3
<1>5. After = [m \in 0..N |-> IF m = 0 THEN first ELSE Month(After[m - 1], rate, emi, m = N)]
  <2> HIDE DEF first
  <2> QED
    BY <1>4
<1>6. Schedule(P, rate, N, emi) = After[N].rows
  BY DEF Schedule, Month
<1> HIDE DEF After, first
<1>7. After[0] = first /\ \A m \in 1..N : After[m] = Month(After[m - 1], rate, emi, m = N)
  BY <1>5
<1>8. f[N] = After[N]
  <2>1. Alike(f, After, N)
    BY <1>2, <1>3, <1>7 DEF Alike
  <2> QED
    BY <2>1, SameLoops
<1> QED
  BY <1>2, <1>3, <1>6, <1>8 DEF IsSchedule, first

(* After m of N months with equal payments: the rest is owed, and nothing *)
(* any more after the last.                                               *)
Scheduled(was, P, emi, m, N) ==
    /\ Owed(was.rows, was.owed, P) /\ was.owed <= P
    /\ Len(was.rows) <= m /\ (m > 0 => Len(was.rows) >= 1)
    /\ m = N => was.owed = 0
    /\ \A i \in 1..Len(was.rows) :
         i < Len(was.rows) \/ was.owed # 0 => was.rows[i].principal + was.rows[i].interest = emi

LEMMA MonthIsScheduled ==
    ASSUME NEW P \in Nat \ {0}, NEW rate \in Nat, NEW N \in Nat, NEW emi \in Int, Interest(P, rate) <= emi,
           NEW m \in Nat, NEW k \in 1..N, k = m + 1, NEW was, Scheduled(was, P, emi, m, N)
    PROVE  Scheduled(Month(was, rate, emi, k = N), P, emi, k, N)
<1>1. /\ was.rows \in Seq(Rows) /\ was.owed \in Nat /\ was.owed <= P
      /\ Owed(was.rows, was.owed, P) /\ Len(was.rows) <= m /\ (m > 0 => Len(was.rows) >= 1)
  BY DEF Scheduled, Owed
<1>2. CASE was.owed = 0
  <2>1. Month(was, rate, emi, k = N) = was
    BY <1>2 DEF Month
  <2>2. was.rows # <<>>
    BY <1>1, <1>2 DEF Owed
  <2>3. Len(was.rows) >= 1 /\ Len(was.rows) <= k
    BY <1>1, <2>2
  <2> QED
    BY <1>1, <1>2, <2>1, <2>3 DEF Scheduled
<1>3. CASE was.owed # 0
  <2>1. PICK owed \in Nat \ {0} : owed = was.owed
    BY <1>1, <1>3
  <2>2. PICK interest \in Nat : interest = Interest(owed, rate) /\ interest <= emi
    <3>1. Interest(owed, rate) \in Nat /\ Interest(P, rate) \in Nat
      <4>1. owed \in Int /\ owed >= 0 /\ P \in Int /\ P >= 0
        OBVIOUS
      <4> QED
        BY <4>1, InterestIsTyped
    <3>2. Interest(owed, rate) <= Interest(P, rate)
      BY <1>1, <2>1, InterestGrows
    <3> QED
      BY <3>1, <3>2
  <2>3. PICK due \in 0..owed :
          /\ due = PrincipalOfMonth(owed, interest, emi, k = N)
          /\ k = N => due = owed
          /\ k # N => due = emi - interest \/ due = owed
    <3>1. PICK rest \in Nat : rest = emi - interest
      BY <2>2
    <3>2. Min({rest, owed}) = IF rest <= owed THEN rest ELSE owed
      BY MinOfTwo
    <3> QED
      BY <3>1, <3>2 DEF PrincipalOfMonth
  <2> DEFINE rows == Append(was.rows, Row(owed, due, interest))
  <2>4. Month(was, rate, emi, k = N) = [rows |-> rows, owed |-> owed - due]
    BY <1>3, <2>1, <2>2, <2>3 DEF Month
  <2>5. Owed(rows, owed - due, P)
    BY <1>1, <2>1, OwedAfterPayment
  <2>6. Len(rows) = Len(was.rows) + 1 /\ Len(was.rows) \in Nat
    BY <1>1
  <2>7. ASSUME NEW i \in 1..Len(rows), i < Len(rows) \/ owed - due # 0
        PROVE  rows[i].principal + rows[i].interest = emi
    <3>1. CASE i < Len(rows)
      <4>1. i \in 1..Len(was.rows) /\ rows[i] = was.rows[i]
        BY <1>1, <2>6, <3>1
      <4> QED
        BY <1>3, <4>1 DEF Scheduled
    <3>2. CASE i = Len(rows)
      <4>1. rows[i] = Row(owed, due, interest)
        BY <1>1, <2>6, <3>2
      <4>2. due # owed
        BY <2>7, <3>2
      <4>3. due = emi - interest
        BY <2>3, <4>2
      <4> QED
        BY <4>1, <4>3 DEF Row
    <3> QED
      BY <2>6, <3>1, <3>2
  <2> HIDE DEF rows
  <2>8. k = N => owed - due = 0
    BY <2>3
  <2>9. owed - due <= P /\ owed - due \in Nat
    BY <1>1, <2>1, <2>3
  <2>10. Len(rows) <= k /\ Len(rows) >= 1
    BY <1>1, <2>6
  <2> QED
    BY <2>4, <2>5, <2>7, <2>8, <2>9, <2>10 DEF Scheduled
<1> QED
  BY <1>2, <1>3

(* The schedule of any loan repays it, by equal payments but for the last. *)
LEMMA ScheduleRepays ==
    ASSUME NEW P \in Nat \ {0}, NEW rate \in Nat, NEW N \in Nat \ {0}, NEW emi \in Int,
           Interest(P, rate) <= emi, NEW rows, rows = Schedule(P, rate, N, emi)
    PROVE  /\ Repays(rows, P, N)
           /\ \A i \in 1..Len(rows) - 1 : rows[i].principal + rows[i].interest = emi
<1>1. PICK f \in [0..N -> Balances] : IsSchedule(f, P, rate, N, emi)
  <2>1. N \in Nat /\ P \in Nat
    OBVIOUS
  <2> QED
    BY <2>1, ScheduleLoop
<1>2. rows = f[N].rows
  BY <1>1 DEF IsSchedule
<1> DEFINE T == {m \in Nat : m <= N => Scheduled(f[m], P, emi, m, N)}
<1>3. 0 \in T
  <2>1. f[0] = [rows |-> <<>>, owed |-> P]
    BY <1>1 DEF IsSchedule
  <2>2. Owed(<<>>, P, P)
    BY OwedAtFirst
  <2> QED
    BY <2>1, <2>2 DEF Scheduled
<1>4. ASSUME NEW m \in Nat, m \in T PROVE m + 1 \in T
  <2>1. PICK k \in Nat : k = m + 1
    OBVIOUS
  <2>2. ASSUME k <= N PROVE Scheduled(f[k], P, emi, k, N)
    <3>1. k \in 1..N /\ k - 1 = m /\ N \in Nat
      BY <2>1, <2>2
    <3>2. f[k] = Month(f[m], rate, emi, k = N)
      BY <1>1, <3>1 DEF IsSchedule
    <3>3. Scheduled(f[m], P, emi, m, N)
      BY <1>4, <3>1
    <3>4. Scheduled(Month(f[m], rate, emi, k = N), P, emi, k, N)
      BY <2>1, <3>1, <3>3, MonthIsScheduled
    <3> QED
      BY <3>2, <3>4
  <2> QED
    BY <2>1, <2>2
<1>5. Scheduled(f[N], P, emi, N, N)
  <2>1. N \in T
    <3> HIDE DEF T
    <3> QED
      BY <1>3, <1>4, Induction
  <2> QED
    BY <2>1
<1>6. Owed(rows, 0, P) /\ Len(rows) <= N
  BY <1>2, <1>5 DEF Scheduled
<1>7. PICK n \in Nat : n = Len(rows)
  BY <1>6 DEF Owed
<1>8. Repays(rows, P, N)
  BY <1>6, ClearedRepays
<1>9. \A i \in 1..n - 1 : rows[i].principal + rows[i].interest = emi
  <2>1. \A i \in 1..n : i < n => rows[i].principal + rows[i].interest = emi
    BY <1>2, <1>5, <1>7 DEF Scheduled
  <2>2. \A i \in 1..n - 1 : i \in 1..n /\ i < n
    OBVIOUS
  <2> QED
    BY <2>1, <2>2
<1> QED
  BY <1>7, <1>8, <1>9

(* A turn of the loop with prepayments. *)
PrepaidMonth(was, m, rate, N, extra, strategy) ==
    LET interest == Interest(was.owed, rate)
        due == Min({was.emi - interest, was.owed})
        more == Prepayment(extra, m, was.owed - due)
        owed == was.owed - due - more IN
    IF was.owed = 0 THEN was
    ELSE [rows |-> Append(was.rows, Row(was.owed, due + more, interest)),
          owed |-> owed,
          emi |-> IF m \in DOMAIN extra
                    THEN EmiAfterPrepayment(was.emi, owed, rate, N - m, strategy)
                    ELSE was.emi]

Debts == [rows : Seq(AnyRows), owed : Int, emi : Int]

Prepayments(extra) == \A m \in DOMAIN extra : extra[m] \in Nat \ {0}

IsPrepaid(f, P, rate, N, emi, extra, strategy) ==
    /\ Prepaid(P, rate, N, emi, extra, strategy) = f[2 * N].rows
    /\ f[0] = [rows |-> <<>>, owed |-> P, emi |-> emi]
    /\ \A m \in 1..2 * N : f[m] = PrepaidMonth(f[m - 1], m, rate, N, extra, strategy)

LEMMA PrepaidMonthIsTyped ==
    ASSUME NEW was \in Debts, NEW rate \in Nat, NEW m \in Nat, NEW N \in Nat,
           NEW extra, Prepayments(extra), NEW strategy
    PROVE  PrepaidMonth(was, m, rate, N, extra, strategy) \in Debts
<1>1. was.owed \in Int /\ was.emi \in Int /\ was.rows \in Seq(AnyRows)
  BY DEF Debts
<1>2. PICK interest \in Int : interest = Interest(was.owed, rate)
  BY <1>1, InterestIsTyped
<1>3. PICK due \in Int : due = Min({was.emi - interest, was.owed})
  <2>1. was.emi - interest \in Int
    BY <1>1
  <2>2. Min({was.emi - interest, was.owed}) \in Int
    BY <1>1, <2>1, MinOfTwo
  <2> QED
    BY <2>2
<1>4. PICK more \in Int : more = Prepayment(extra, m, was.owed - due)
  <2>1. CASE m \in DOMAIN extra
    <3>1. extra[m] \in Int /\ was.owed - due \in Int
      BY <1>1, <2>1 DEF Prepayments
    <3>2. Min({extra[m], was.owed - due}) \in Int
      BY <3>1, MinOfTwo
    <3> QED
      BY <2>1, <3>2 DEF Prepayment
  <2>2. CASE m \notin DOMAIN extra
    BY <2>2 DEF Prepayment
  <2> QED
    BY <2>1, <2>2
<1>5. PICK owed \in Int : owed = was.owed - due - more
  BY <1>1
<1>6. Append(was.rows, Row(was.owed, due + more, interest)) \in Seq(AnyRows)
  <2>1. Row(was.owed, due + more, interest) \in AnyRows
    BY <1>1 DEF Row, AnyRows
  <2> QED
    BY <1>1, <2>1
<1>7. EmiAfterPrepayment(was.emi, owed, rate, N - m, strategy) \in Int
  <2>1. N - m > 0 => N - m \in Nat \ {0}
    OBVIOUS
  <2>2. N - m > 0 => Emi(owed, rate, N - m) \in Int
    BY <2>1, EmiIsTyped
  <2> QED
    BY <1>1, <2>2 DEF EmiAfterPrepayment
<1> DEFINE emi == IF m \in DOMAIN extra
                    THEN EmiAfterPrepayment(was.emi, owed, rate, N - m, strategy)
                    ELSE was.emi
<1>8. emi \in Int
  BY <1>1, <1>7
<1>9. was.owed # 0 =>
        PrepaidMonth(was, m, rate, N, extra, strategy)
          = [rows |-> Append(was.rows, Row(was.owed, due + more, interest)), owed |-> owed, emi |-> emi]
  BY <1>2, <1>3, <1>4, <1>5 DEF PrepaidMonth
<1>10. was.owed = 0 => PrepaidMonth(was, m, rate, N, extra, strategy) = was
  BY DEF PrepaidMonth
<1> HIDE DEF emi
<1>11. CASE was.owed = 0
  BY <1>10, <1>11
<1>12. CASE was.owed # 0
  <2>1. PICK rows \in Seq(AnyRows) : rows = Append(was.rows, Row(was.owed, due + more, interest))
    BY <1>6
  <2>2. PICK payment \in Int : payment = emi
    BY <1>8
  <2>3. PrepaidMonth(was, m, rate, N, extra, strategy) = [rows |-> rows, owed |-> owed, emi |-> payment]
    BY <1>9, <1>12, <2>1, <2>2
  <2>4. [rows |-> rows, owed |-> owed, emi |-> payment] \in Debts
    BY DEF Debts
  <2> QED
    BY <2>3, <2>4
<1> QED
  BY <1>11, <1>12

LEMMA PrepaidLoop ==
    ASSUME NEW P \in Nat, NEW rate \in Nat, NEW N \in Nat, NEW emi \in Int,
           NEW extra, Prepayments(extra), NEW strategy
    PROVE  \E f \in [0..2 * N -> Debts] : IsPrepaid(f, P, rate, N, emi, extra, strategy)
<1> PICK K \in Nat : K = 2 * N
  OBVIOUS
<1> DEFINE first == [rows |-> <<>>, owed |-> P, emi |-> emi]
           Turn(was, m) == PrepaidMonth(was, m, rate, N, extra, strategy)
           step == [m \in Nat |-> [was \in Debts |-> Turn(was, m)]]
<1>1. PICK f \in [0..K -> Debts] : IsLoop(f, first, step, K)
  <2>1. step \in [Nat -> [Debts -> Debts]]
    BY PrepaidMonthIsTyped
  <2>2. first \in Debts
    BY DEF Debts
  <2> HIDE DEF step, first
  <2> QED
    BY <2>1, <2>2, Recursion
<1>2. f[0] = first
  BY <1>1 DEF IsLoop
<1>3. ASSUME NEW m \in 1..K PROVE f[m] = Turn(f[m - 1], m)
  <2>1. m \in Nat /\ f[m - 1] \in Debts
    OBVIOUS
  <2>2. step[m][f[m - 1]] = Turn(f[m - 1], m)
    BY <2>1
  <2>3. f[m] = step[m][f[m - 1]]
    BY <1>1 DEF IsLoop
  <2> QED
    BY <2>2, <2>3
<1> HIDE DEF step
<1> DEFINE After[m \in 0..K] == IF m = 0 THEN first ELSE Turn(After[m - 1], m)
<1>4. f = [m \in 0..K |-> IF m = 0 THEN first ELSE Turn(f[m - 1], m)]
  <2> HIDE DEF first, Turn
  <2> QED
    BY <1>2, <1>3
<1>5. After = [m \in 0..K |-> IF m = 0 THEN first ELSE Turn(After[m - 1], m)]
  <2> HIDE DEF first, Turn
  <2> QED
    BY <1>4
<1>6. Prepaid(P, rate, N, emi, extra, strategy) = After[K].rows
  BY DEF Prepaid, PrepaidMonth
<1> HIDE DEF After, first
<1>7. After[0] = first /\ \A m \in 1..K : After[m] = Turn(After[m - 1], m)
  <2> HIDE DEF Turn
  <2> QED
    BY <1>5
<1>8. f[K] = After[K]
  <2> HIDE DEF Turn
  <2>1. Alike(f, After, K)
    BY <1>2, <1>3, <1>7 DEF Alike
  <2> QED
    BY <2>1, SameLoops
<1> QED
  BY <1>2, <1>3, <1>6, <1>8 DEF IsPrepaid, first

(* After m months with prepayments the rest is owed, and the payment still *)
(* covers the interest.                                                     *)
Revised(was, P, rate, m) ==
    /\ Owed(was.rows, was.owed, P) /\ was.owed <= P
    /\ Len(was.rows) <= m /\ (m > 0 => Len(was.rows) >= 1)
    /\ was.emi \in Int /\ Interest(was.owed, rate) <= was.emi

(* What a month with something owed pays: as much of the payment as is owed, *)
(* and of a prepayment what is still owed then.                              *)
Pays(was, month, k, rate, extra, strategy, interest, due, more, emi) ==
    /\ interest = Interest(was.owed, rate) /\ interest <= was.emi
    /\ due = IF was.emi - interest <= was.owed THEN was.emi - interest ELSE was.owed
    /\ due + more <= was.owed
    /\ k \in DOMAIN extra => more = extra[k] \/ due + more = was.owed
    /\ Interest(was.owed - due - more, rate) <= emi
    /\ strategy # "reduce_emi" => emi = was.emi
    /\ month = [rows |-> Append(was.rows, Row(was.owed, due + more, interest)),
                owed |-> was.owed - due - more, emi |-> emi]

LEMMA PrepaidMonthPays ==
    ASSUME NEW P \in Nat \ {0}, NEW rate \in Nat, NEW N \in Nat \ {0}, NEW extra, Prepayments(extra),
           NEW strategy, NEW k \in Nat \ {0}, NEW m \in Nat, NEW was, Revised(was, P, rate, m),
           was.owed # 0
    PROVE  \E interest \in Nat, due \in 0..was.owed, more \in 0..was.owed, emi \in Int :
             Pays(was, PrepaidMonth(was, k, rate, N, extra, strategy), k, rate, extra, strategy,
                  interest, due, more, emi)
<1>1. PICK x \in Nat \ {0} : x = was.owed
  BY DEF Revised, Owed
<1>2. PICK payment \in Int : payment = was.emi
  BY DEF Revised
<1>3. PICK interest \in Nat : interest = Interest(x, rate) /\ interest <= payment
  <2>1. x \in Int /\ x >= 0
    OBVIOUS
  <2> QED
    BY <1>1, <1>2, <2>1, InterestIsTyped DEF Revised
<1>4. PICK due \in 0..x : /\ due = Min({payment - interest, x})
                          /\ due = IF payment - interest <= x THEN payment - interest ELSE x
  <2>1. PICK rest \in Nat : rest = payment - interest
    BY <1>3
  <2>2. Min({rest, x}) = IF rest <= x THEN rest ELSE x
    BY MinOfTwo
  <2> QED
    BY <2>1, <2>2
<1>5. PICK more \in 0..x : /\ more = Prepayment(extra, k, x - due)
                           /\ due + more <= x
                           /\ k \in DOMAIN extra => more = extra[k] \/ due + more = x
  <2>1. CASE k \in DOMAIN extra
    <3>1. PICK e \in Nat, rest \in 0..x : e = extra[k] /\ rest = x - due
      BY <2>1 DEF Prepayments
    <3>2. Min({e, rest}) = IF e <= rest THEN e ELSE rest
      BY <3>1, MinOfTwo
    <3> QED
      BY <2>1, <3>1, <3>2 DEF Prepayment
  <2>2. CASE k \notin DOMAIN extra
    BY <2>2 DEF Prepayment
  <2> QED
    BY <2>1, <2>2
<1>6. PICK owed \in 0..x : owed = x - due - more
  BY <1>5
<1> DEFINE anew == k \in DOMAIN extra /\ strategy = "reduce_emi" /\ owed > 0 /\ N - k > 0
           emi == IF k \in DOMAIN extra
                    THEN EmiAfterPrepayment(payment, owed, rate, N - k, strategy)
                    ELSE payment
<1>7. emi \in Int /\ Interest(owed, rate) <= emi
  <2>1. CASE anew
    <3>1. N - k \in Nat \ {0} /\ owed \in Nat /\ owed \in Int
      BY <2>1
    <3>2. Emi(owed, rate, N - k) \in Int
      BY <3>1, EmiIsTyped
    <3>3. Interest(owed, rate) <= Emi(owed, rate, N - k)
      BY <3>1, EmiCoversInterest
    <3>4. emi = Emi(owed, rate, N - k)
      BY <2>1 DEF EmiAfterPrepayment
    <3> HIDE DEF emi, anew
    <3> QED
      BY <3>2, <3>3, <3>4
  <2>2. CASE ~anew
    <3>1. owed \in Nat /\ owed <= x /\ x \in Nat /\ owed \in Int /\ x \in Int /\ owed >= 0
      BY <1>6
    <3>2. Interest(owed, rate) <= Interest(x, rate)
      BY <3>1, InterestGrows
    <3>3. Interest(owed, rate) \in Nat
      BY <3>1, InterestIsTyped
    <3>4. emi = payment
      BY <2>2 DEF EmiAfterPrepayment
    <3> HIDE DEF emi, anew
    <3> QED
      BY <1>3, <3>2, <3>3, <3>4
  <2> QED
    BY <2>1, <2>2
<1>8. PrepaidMonth(was, k, rate, N, extra, strategy)
        = [rows |-> Append(was.rows, Row(x, due + more, interest)), owed |-> owed, emi |-> emi]
  BY <1>1, <1>2, <1>3, <1>4, <1>5, <1>6 DEF PrepaidMonth
<1>9. strategy # "reduce_emi" => emi = payment
  BY DEF EmiAfterPrepayment
<1> HIDE DEF emi
<1>10. PICK then \in Int : then = emi
  BY <1>7
<1>11. Pays(was, PrepaidMonth(was, k, rate, N, extra, strategy), k, rate, extra, strategy,
            interest, due, more, then)
  <2>1. was.owed = x /\ was.emi = payment
    BY <1>1, <1>2
  <2>2. owed = x - due - more /\ Interest(owed, rate) <= then
    BY <1>6, <1>7, <1>10
  <2> QED
    BY <1>3, <1>4, <1>5, <1>8, <1>9, <1>10, <2>1, <2>2 DEF Pays
<1> QED
  BY <1>1, <1>4, <1>5, <1>11

LEMMA MonthIsRevised ==
    ASSUME NEW P \in Nat \ {0}, NEW rate \in Nat, NEW N \in Nat \ {0}, NEW extra, Prepayments(extra),
           NEW strategy, NEW m \in Nat, NEW k \in Nat \ {0}, k = m + 1,
           NEW was, Revised(was, P, rate, m)
    PROVE  Revised(PrepaidMonth(was, k, rate, N, extra, strategy), P, rate, k)
<1>1. /\ was.rows \in Seq(Rows) /\ was.owed \in Nat /\ was.owed <= P
      /\ Owed(was.rows, was.owed, P) /\ Len(was.rows) <= m /\ (m > 0 => Len(was.rows) >= 1)
  BY DEF Revised, Owed
<1>2. CASE was.owed = 0
  <2>1. PrepaidMonth(was, k, rate, N, extra, strategy) = was
    BY <1>2 DEF PrepaidMonth
  <2>2. was.rows # <<>>
    BY <1>1, <1>2 DEF Owed
  <2>3. Len(was.rows) >= 1 /\ Len(was.rows) <= k
    BY <1>1, <2>2
  <2> QED
    BY <1>1, <1>2, <2>1, <2>3 DEF Revised
<1>3. CASE was.owed # 0
  <2>1. PICK interest \in Nat, due \in 0..was.owed, more \in 0..was.owed, emi \in Int :
          Pays(was, PrepaidMonth(was, k, rate, N, extra, strategy), k, rate, extra, strategy,
               interest, due, more, emi)
    BY <1>3, PrepaidMonthPays
  <2>2. PICK owed \in Nat \ {0} : owed = was.owed
    BY <1>1, <1>3
  <2>3. PICK paid \in 0..owed : paid = due + more
    BY <2>1, <2>2, SMTT(30) DEF Pays
  <2>4. PICK left \in Nat : left = owed - paid /\ left = was.owed - due - more /\ left <= P
    BY <1>1, <2>2, <2>3
  <2> DEFINE rows == Append(was.rows, Row(owed, paid, interest))
  <2>5. PrepaidMonth(was, k, rate, N, extra, strategy) = [rows |-> rows, owed |-> left, emi |-> emi]
    BY <2>1, <2>2, <2>3, <2>4 DEF Pays
  <2>6. Owed(rows, left, P)
    BY <1>1, <2>2, <2>3, <2>4, OwedAfterPayment
  <2>7. Len(rows) = Len(was.rows) + 1 /\ Len(was.rows) \in Nat
    BY <1>1
  <2>8. Interest(left, rate) <= emi
    BY <2>1, <2>4 DEF Pays
  <2> HIDE DEF rows
  <2>9. Len(rows) <= k /\ Len(rows) >= 1
    BY <1>1, <2>7
  <2> QED
    BY <2>4, <2>5, <2>6, <2>8, <2>9 DEF Revised
<1> QED
  BY <1>1, <1>2, <1>3

(* The loop with prepayments never repays more than is owed. *)
NeverOverpays(rows, P, N) ==
    /\ Len(rows) \in 1..2 * N
    /\ rows[Len(rows)].balance = P - SumOf(rows, "principal")
    /\ \A i \in DOMAIN rows :
         /\ rows[i].balance >= 0 /\ rows[i].principal >= 0 /\ rows[i].interest >= 0
         /\ rows[i].balance = 0 => i = Len(rows)

LEMMA PrepaidNeverOverpays ==
    ASSUME NEW P \in Nat \ {0}, NEW rate \in Nat, NEW N \in Nat \ {0}, NEW emi \in Int,
           Interest(P, rate) <= emi, NEW extra, Prepayments(extra), NEW strategy,
           NEW rows, rows = Prepaid(P, rate, N, emi, extra, strategy)
    PROVE  NeverOverpays(rows, P, N)
<1> PICK K \in Nat \ {0} : K = 2 * N
  OBVIOUS
<1>1. PICK f \in [0..K -> Debts] : IsPrepaid(f, P, rate, N, emi, extra, strategy)
  <2>1. N \in Nat /\ P \in Nat
    OBVIOUS
  <2> QED
    BY <2>1, PrepaidLoop
<1>2. rows = f[K].rows
  BY <1>1 DEF IsPrepaid
<1> DEFINE T == {m \in Nat : m <= K => Revised(f[m], P, rate, m)}
<1>3. 0 \in T
  <2>1. f[0] = [rows |-> <<>>, owed |-> P, emi |-> emi]
    BY <1>1 DEF IsPrepaid
  <2>2. Owed(<<>>, P, P)
    BY OwedAtFirst
  <2> QED
    BY <2>1, <2>2 DEF Revised
<1>4. ASSUME NEW m \in Nat, m \in T PROVE m + 1 \in T
  <2>1. PICK k \in Nat \ {0} : k = m + 1
    OBVIOUS
  <2>2. ASSUME k <= K PROVE Revised(f[k], P, rate, k)
    <3>1. k \in 1..2 * N /\ k - 1 = m /\ m <= K
      BY <2>1, <2>2
    <3>2. f[k] = PrepaidMonth(f[m], k, rate, N, extra, strategy)
      BY <1>1, <3>1 DEF IsPrepaid
    <3>3. Revised(f[m], P, rate, m)
      BY <1>4, <3>1
    <3>4. Revised(PrepaidMonth(f[m], k, rate, N, extra, strategy), P, rate, k)
      BY <2>1, <3>3, MonthIsRevised
    <3> QED
      BY <3>2, <3>4
  <2> QED
    BY <2>1, <2>2
<1>5. Revised(f[K], P, rate, K)
  <2>1. K \in T
    <3> HIDE DEF T
    <3> QED
      BY <1>3, <1>4, Induction
  <2> QED
    BY <2>1
<1>6. PICK owed \in Nat : owed = f[K].owed /\ Owed(rows, owed, P)
  BY <1>2, <1>5 DEF Revised, Owed
<1>7. PICK n \in Nat : n = Len(rows) /\ n \in 1..K
  BY <1>2, <1>5, <1>6 DEF Revised, Owed
<1>8. rows \in Seq(Rows) /\ rows # <<>> /\ rows[n].balance = owed
  BY <1>6, <1>7 DEF Owed
<1>9. PICK s \in Int : s = SumOf(rows, "principal") /\ s + owed = P
  <2>1. SumOf(rows, "principal") + owed = P
    BY <1>6 DEF Owed
  <2>2. SumOf(rows, "principal") \in Int
    BY <1>8, SumIsTyped
  <2> QED
    BY <2>1, <2>2
<1>10. \A i \in 1..n : rows[i] \in Rows
  BY <1>7, <1>8
<1>11. \A i \in 1..n - 1 : rows[i].balance # 0
  BY <1>6, <1>7 DEF Owed
<1>12. ASSUME NEW i \in 1..n
       PROVE  /\ rows[i].balance >= 0 /\ rows[i].principal >= 0 /\ rows[i].interest >= 0
              /\ rows[i].balance = 0 => i = n
  <2>1. i = n \/ i \in 1..n - 1
    BY <1>7
  <2> QED
    BY <1>10, <1>11, <2>1 DEF Rows
<1>13. DOMAIN rows = 1..n /\ owed = P - s
  BY <1>7, <1>8, <1>9
<1> QED
  BY <1>7, <1>8, <1>9, <1>12, <1>13 DEF NeverOverpays

(* The answer about a loan is Loan's. *)
AskedLoan == request.about = "loan" => result = Missing \/ result = Some(Loan(request.in))

LEMMA AskedLoanHolds == Spec => [](Asked /\ AskedLoan)
<1>1. Init => AskedLoan
  BY DEF Init, AskedLoan
<1>2. AskedLoan /\ [Next]_vars => AskedLoan'
  <2> SUFFICES ASSUME AskedLoan, [Next]_vars PROVE AskedLoan'
    OBVIOUS
  <2>1. CASE AskLoan
    BY <2>1 DEF AskedLoan, AskLoan
  <2>2. CASE AskGoal
    BY <2>2 DEF AskedLoan, AskGoal
  <2>3. ASSUME NEW q \in Figures, NEW v \in Levels[q], Worsen(q, v) PROVE AskedLoan'
    <3>1. request.about = "drift" /\ UNCHANGED request
      BY <2>3 DEF Worsen
    <3> QED
      BY <3>1 DEF AskedLoan
  <2>4. CASE UNCHANGED vars
    BY <2>4 DEF AskedLoan, vars
  <2> QED
    BY <2>1, <2>2, <2>3, <2>4 DEF Next
<1> QED
  BY <1>1, <1>2, AskedHolds, PTL DEF Spec

LEMMA LoanAnswers ==
    ASSUME Asked, AskedLoan, request.about = "loan", result # Missing
    PROVE  /\ request.in \in Loans
           /\ request.in.principal \in Nat \ {0} /\ request.in.rate \in Nat
           /\ request.in.months \in Nat \ {0}
           /\ Prepayments(request.in.extra)
           /\ Value(result) = Loan(request.in)
           /\ Emi(request.in.principal, request.in.rate, request.in.months) \in Int
           /\ Interest(request.in.principal, request.in.rate)
                <= Emi(request.in.principal, request.in.rate, request.in.months)
<1>1. request.in \in Loans
  BY DEF Asked
<1>2. /\ request.in.principal \in Nat \ {0} /\ request.in.rate \in Nat
      /\ request.in.months \in Nat \ {0}
      /\ Prepayments(request.in.extra)
  BY <1>1, LoansAssumption DEF Prepayments
<1>3. Value(result) = Loan(request.in)
  <2>1. result = Some(Loan(request.in))
    BY DEF AskedLoan
  <2> QED
    BY <2>1, ValueOfSome
<1>4. Emi(request.in.principal, request.in.rate, request.in.months) \in Int
  BY <1>2, EmiIsTyped
<1>5. Interest(request.in.principal, request.in.rate)
        <= Emi(request.in.principal, request.in.rate, request.in.months)
  BY <1>2, EmiCoversInterest
<1> QED
  BY <1>1, <1>2, <1>3, <1>4, <1>5

(* The schedule of any loan repays its principal exactly and within its     *)
(* months, by equal payments but for the last, however the payment and the  *)
(* interest were rounded (generateAmortizationSchedule).                    *)
THEOREM SchedulesAreRepaid == Spec => []SchedulesRepay
<1>1. Asked /\ AskedLoan => SchedulesRepay
  <2> SUFFICES ASSUME Asked, AskedLoan, request.about = "loan", result # Missing
               PROVE  LET in == request.in
                          loan == Value(result) IN
                      /\ Repays(loan.schedule, in.principal, in.months)
                      /\ \A i \in 1..Len(loan.schedule) - 1 :
                           loan.schedule[i].principal + loan.schedule[i].interest = loan.emi
    BY DEF SchedulesRepay
  <2> DEFINE in == request.in
             emi == Emi(in.principal, in.rate, in.months)
  <2>1. PICK rows : rows = Schedule(in.principal, in.rate, in.months, emi)
    OBVIOUS
  <2>2. Value(result).schedule = rows /\ Value(result).emi = emi
    BY <2>1, LoanAnswers DEF Loan
  <2>3. /\ Repays(rows, in.principal, in.months)
        /\ \A i \in 1..Len(rows) - 1 : rows[i].principal + rows[i].interest = emi
    BY <2>1, LoanAnswers, ScheduleRepays, SMTT(30)
  <2> QED
    BY <2>2, <2>3
<1> QED
  BY <1>1, AskedLoanHolds, PTL

(* Of any loan, with any prepayments and either strategy, the loop with     *)
(* prepayments repays no more than is owed, and nothing follows the month   *)
(* that clears it (calculateLoan).                                          *)
THEOREM PrepaymentsAreCapped == Spec => []PrepaymentsNeverOverpay
<1>1. Asked /\ AskedLoan => PrepaymentsNeverOverpay
  <2> SUFFICES ASSUME Asked, AskedLoan, request.about = "loan", result # Missing,
                      DOMAIN request.in.extra # {}
               PROVE  NeverOverpays(Value(result).revised, request.in.principal, request.in.months)
    BY DEF PrepaymentsNeverOverpay, NeverOverpays
  <2> DEFINE in == request.in
             emi == Emi(in.principal, in.rate, in.months)
  <2>1. PICK rows : rows = Prepaid(in.principal, in.rate, in.months, emi, in.extra, in.strategy)
    OBVIOUS
  <2>2. Value(result).revised = rows
    BY <2>1, LoanAnswers DEF Loan
  <2>3. NeverOverpays(rows, in.principal, in.months)
    BY <2>1, LoanAnswers, PrepaidNeverOverpays
  <2> QED
    BY <2>2, <2>3
<1> QED
  BY <1>1, AskedLoanHolds, PTL

IsMonth(u, x, rate, emi, m, N) == u = Month(x, rate, emi, m = N)

(* With prepayments that shorten the loan: month by month no more is owed  *)
(* than without them, and no more interest was paid.  From month k on, the *)
(* prepayment e made then is owed less, until nothing is owed at all.      *)
Ahead(x, y, P, emi, rate, k, e, m, N) ==
    /\ Scheduled(x, P, emi, m, N) /\ Revised(y, P, rate, m) /\ y.emi = emi
    /\ y.owed <= x.owed
    /\ m >= k => y.owed + e <= x.owed \/ y.owed = 0
    /\ SumOf(y.rows, "interest") <= SumOf(x.rows, "interest")

(* A loan whose instalment covers the first month's interest, and the *)
(* prepayment e of its month k.                                       *)
Shortened(P, rate, N, emi, extra, k, e) ==
    /\ P \in Nat \ {0} /\ rate \in Nat /\ N \in Nat \ {0} /\ emi \in Int
    /\ Interest(P, rate) <= emi /\ Prepayments(extra)
    /\ k \in DOMAIN extra /\ k \in 1..N /\ e \in Nat \ {0} /\ e = extra[k]

(* One month of each of the two loops, j, after m of them. *)
BothPay(u, v, x, y, rate, emi, extra, m, j, N) ==
    /\ m \in Nat /\ j \in 1..N /\ j = m + 1
    /\ IsMonth(u, x, rate, emi, j, N)
    /\ v = PrepaidMonth(y, j, rate, N, extra, "reduce_tenure")

LEMMA InterestSums ==
    ASSUME NEW rows \in Seq(Rows), NEW owed \in Nat, NEW due \in 0..owed, NEW interest \in Nat
    PROVE  /\ SumOf(rows, "interest") \in Int
           /\ SumOf(Append(rows, Row(owed, due, interest)), "interest")
                = SumOf(rows, "interest") + interest
<1>1. PICK row \in Rows : row = Row(owed, due, interest)
  <2>1. owed - due \in Nat /\ due \in Nat
    OBVIOUS
  <2> QED
    BY <2>1 DEF Rows, Row
<1>2. row["interest"] = interest
  BY <1>1 DEF Row
<1>3. \A r \in Rows : r["interest"] \in Int
  BY DEF Rows
<1>4. SumOf(Append(rows, row), "interest") = SumOf(rows, "interest") + row["interest"]
  BY <1>3, SumOfAppend
<1> QED
  BY <1>1, <1>2, <1>4, SumIsTyped

LEMMA StaysAhead ==
    ASSUME NEW P, NEW rate, NEW N, NEW emi, NEW extra, NEW k, NEW e, NEW m, NEW j,
           NEW x, NEW y, NEW u, NEW v,
           Shortened(P, rate, N, emi, extra, k, e), Ahead(x, y, P, emi, rate, k, e, m, N),
           BothPay(u, v, x, y, rate, emi, extra, m, j, N), j # N
    PROVE  Ahead(u, v, P, emi, rate, k, e, j, N)
<1> /\ P \in Nat \ {0} /\ rate \in Nat /\ N \in Nat \ {0} /\ emi \in Int
    /\ Interest(P, rate) <= emi /\ Prepayments(extra)
    /\ k \in DOMAIN extra /\ k \in 1..N /\ e \in Nat \ {0} /\ e = extra[k]
  BY DEF Shortened
<1> /\ m \in Nat /\ j \in 1..N /\ j = m + 1
    /\ IsMonth(u, x, rate, emi, j, N)
    /\ v = PrepaidMonth(y, j, rate, N, extra, "reduce_tenure")
  BY DEF BothPay
<1>1. Scheduled(u, P, emi, j, N)
  <2>1. Scheduled(x, P, emi, m, N) /\ N \in Nat
    BY DEF Ahead
  <2>2. Scheduled(Month(x, rate, emi, j = N), P, emi, j, N)
    BY <2>1, MonthIsScheduled
  <2> QED
    BY <2>2 DEF IsMonth
<1>2. Revised(v, P, rate, j)
  <2>1. Revised(y, P, rate, m) /\ j \in Nat \ {0}
    BY DEF Ahead
  <2> QED
    BY <2>1, MonthIsRevised
<1>3. /\ x.rows \in Seq(Rows) /\ x.owed \in Nat /\ x.owed <= P
      /\ y.rows \in Seq(Rows) /\ y.owed \in Nat /\ y.owed <= x.owed /\ y.emi = emi
  BY DEF Ahead, Scheduled, Revised, Owed
<1>4. PICK a \in Int, b \in Int : a = SumOf(x.rows, "interest") /\ b = SumOf(y.rows, "interest") /\ b <= a
  BY <1>3, SumIsTyped DEF Ahead
<1>5. CASE x.owed = 0
  <2>1. u = x /\ v = y
    BY <1>3, <1>5 DEF IsMonth, Month, PrepaidMonth
  <2>2. y.owed = 0
    BY <1>3, <1>5
  <2> QED
    BY <1>1, <1>2, <1>3, <1>4, <2>1, <2>2 DEF Ahead
<1>6. CASE x.owed # 0
  <2>1. PICK o \in Nat \ {0} : o = x.owed
    BY <1>3, <1>6
  <2>2. PICK i \in Nat : i = Interest(o, rate) /\ i <= emi
    <3>1. o \in Nat /\ o \in Int /\ o >= 0 /\ P \in Nat /\ P \in Int /\ P >= 0 /\ o <= P
      BY <1>3, <2>1
    <3>2. Interest(o, rate) \in Nat /\ Interest(P, rate) \in Nat
      BY <3>1, InterestIsTyped
    <3>3. Interest(o, rate) <= Interest(P, rate)
      BY <3>1, InterestGrows
    <3> QED
      BY <3>2, <3>3
  <2>3. PICK due \in 0..o : due = PrincipalOfMonth(o, i, emi, j = N) /\ due <= emi - i
    <3>1. PICK rest \in Nat : rest = emi - i
      BY <2>2
    <3>2. Min({rest, o}) = IF rest <= o THEN rest ELSE o
      BY MinOfTwo
    <3> QED
      BY <3>1, <3>2 DEF PrincipalOfMonth
  <2>4. PICK c \in Nat : c = o - due /\ u.owed = c /\ SumOf(u.rows, "interest") = a + i
    <3>1. PICK c \in Nat : c = o - due
      OBVIOUS
    <3>2. u = [rows |-> Append(x.rows, Row(o, due, i)), owed |-> c]
      BY <2>1, <2>2, <2>3, <3>1 DEF IsMonth, Month
    <3>3. SumOf(Append(x.rows, Row(o, due, i)), "interest") = a + i
      <4>1. o \in Nat /\ due \in 0..o /\ x.rows \in Seq(Rows)
        BY <1>3
      <4> QED
        BY <1>4, <4>1, InterestSums, SMTT(20)
    <3>4. u.owed = c /\ SumOf(u.rows, "interest") = a + i
      <4> PICK rows : rows = Append(x.rows, Row(o, due, i))
        OBVIOUS
      <4>1. u.owed = c /\ u.rows = rows
        BY <3>2
      <4> QED
        BY <3>3, <4>1
    <3> QED
      BY <3>1, <3>4
  <2>5. CASE y.owed = 0
    <3>1. v = y
      BY <2>5 DEF PrepaidMonth
    <3>2. v.owed = 0 /\ v.emi = emi /\ SumOf(v.rows, "interest") = b
      BY <1>3, <1>4, <2>5, <3>1
    <3>3. v.owed <= u.owed /\ SumOf(v.rows, "interest") <= SumOf(u.rows, "interest")
      BY <1>4, <2>4, <3>2
    <3> QED
      BY <1>1, <1>2, <3>2, <3>3 DEF Ahead
  <2>6. CASE y.owed # 0
    <3>1. PICK q \in Nat \ {0} : q = y.owed /\ q <= o
      BY <1>3, <2>1, <2>6
    <3>2. PICK iy \in Nat, dy \in 0..y.owed, more \in 0..y.owed, ey \in Int :
            Pays(y, PrepaidMonth(y, j, rate, N, extra, "reduce_tenure"), j, rate, extra,
                 "reduce_tenure", iy, dy, more, ey)
      <4>1. Revised(y, P, rate, m) /\ j \in Nat \ {0}
        BY DEF Ahead
      <4> QED
        BY <2>6, <4>1, PrepaidMonthPays
    <3>3. PICK h \in Nat, d \in 0..q, w \in 0..q : h = iy /\ d = dy /\ w = more
      BY <3>1
    <3>4. h = Interest(q, rate) /\ d = IF emi - h <= q THEN emi - h ELSE q
      BY <1>3, <3>1, <3>2, <3>3 DEF Pays
    <3>5. d + w <= q /\ (j = k => w = e \/ d + w = q)
      BY <3>1, <3>2, <3>3 DEF Pays
    <3>6. PICK paid \in 0..q, r \in Nat : paid = d + w /\ r = q - paid
      BY <3>5
    <3>7. v.rows = Append(y.rows, Row(q, paid, h)) /\ v.owed = r /\ v.emi = emi
      <4>1. PrepaidMonth(y, j, rate, N, extra, "reduce_tenure")
              = [rows |-> Append(y.rows, Row(y.owed, dy + more, iy)),
                 owed |-> y.owed - dy - more, emi |-> ey]
        BY <3>2 DEF Pays
      <4>2. ey = emi
        BY <1>3, <3>2 DEF Pays
      <4>3. dy + more = paid /\ y.owed - dy - more = r
        BY <3>1, <3>3, <3>6
      <4>4. Row(y.owed, dy + more, iy) = Row(q, paid, h)
        BY <3>1, <3>3, <4>3
      <4>5. PICK rows : rows = Append(y.rows, Row(q, paid, h))
        OBVIOUS
      <4>6. v = [rows |-> rows, owed |-> r, emi |-> emi]
        BY <4>1, <4>2, <4>3, <4>4, <4>5
      <4>7. v.rows = rows /\ v.owed = r /\ v.emi = emi
        BY <4>6
      <4> QED
        BY <4>5, <4>7
    <3>8. h <= i
      <4>1. q \in Nat /\ o \in Nat
        OBVIOUS
      <4>2. Interest(q, rate) <= Interest(o, rate)
        BY <3>1, <4>1, InterestGrows
      <4> QED
        BY <2>2, <3>4, <4>2
    <3>9. c >= o + i - emi
      BY <2>3, <2>4
    <3>10. r # 0 => r = q + h - emi - w
      BY <3>4, <3>6
    <3>11. r <= c
      BY <3>1, <3>8, <3>9, <3>10
    <3>12. ASSUME j >= k PROVE r + e <= c \/ r = 0
      <4>1. CASE j = k
        <5>1. r # 0 => w = e
          BY <3>5, <3>6, <4>1
        <5> QED
          BY <3>1, <3>8, <3>9, <3>10, <5>1
      <4>2. CASE j # k
        <5>1. m >= k
          BY <3>12, <4>2
        <5>2. q + e <= o
          BY <2>1, <3>1, <5>1 DEF Ahead
        <5> QED
          BY <3>8, <3>9, <3>10, <5>2
      <4> QED
        BY <4>1, <4>2
    <3>13. SumOf(v.rows, "interest") = b + h
      <4>1. q \in Nat /\ y.rows \in Seq(Rows)
        BY <1>3
      <4>2. SumOf(Append(y.rows, Row(q, paid, h)), "interest") = b + h
        BY <1>4, <4>1, InterestSums, SMTT(30)
      <4> QED
        BY <3>7, <4>2
    <3>14. SumOf(v.rows, "interest") <= SumOf(u.rows, "interest")
      BY <1>4, <2>4, <3>8, <3>13
    <3> QED
      BY <1>1, <1>2, <2>4, <3>7, <3>11, <3>12, <3>14 DEF Ahead
  <2> QED
    BY <2>5, <2>6
<1> QED
  BY <1>5, <1>6

(* The schedule's last payment exceeds the instalment by e at most. *)
LastWithin(schedule, emi, e) ==
    schedule[Len(schedule)].principal + schedule[Len(schedule)].interest <= emi + e

(* Owing a prepayment less, with no more interest on it, an instalment is enough. *)
LEMMA InstalmentIsEnough ==
    ASSUME NEW o \in Nat, NEW i \in Nat, NEW q \in Nat, NEW h \in Nat, NEW e \in Nat,
           NEW emi \in Int, o + i <= emi + e, h <= i, q + e <= o
    PROVE  q <= emi - h
<1>1. q + e + h <= o + i
  OBVIOUS
<1> QED
  BY <1>1

LEMMA LastRowSums ==
    ASSUME NEW rows \in Seq(Rows), NEW owed \in Nat, NEW interest \in Nat
    PROVE  SumOf(Append(rows, Row(owed, owed, interest)), "interest")
             = SumOf(rows, "interest") + interest
<1>1. owed \in 0..owed
  OBVIOUS
<1> QED
  BY <1>1, InterestSums

(* The last month: a prepayment of what the schedule's last payment exceeds *)
(* the others by clears the loan in time.                                   *)
LEMMA ClearsInTime ==
    ASSUME NEW P, NEW rate, NEW N, NEW emi, NEW extra, NEW k, NEW e, NEW m,
           NEW x, NEW y, NEW u, NEW v, NEW schedule,
           Shortened(P, rate, N, emi, extra, k, e), Ahead(x, y, P, emi, rate, k, e, m, N),
           BothPay(u, v, x, y, rate, emi, extra, m, N, N), schedule = u.rows,
           LastWithin(schedule, emi, e)
    PROVE  /\ v.owed = 0 /\ Revised(v, P, rate, N)
           /\ SumOf(v.rows, "interest") <= SumOf(schedule, "interest")
<1> /\ P \in Nat \ {0} /\ rate \in Nat /\ N \in Nat \ {0} /\ emi \in Int
    /\ Interest(P, rate) <= emi /\ Prepayments(extra)
    /\ k \in DOMAIN extra /\ k \in 1..N /\ e \in Nat \ {0} /\ e = extra[k]
  BY DEF Shortened
<1> /\ m \in Nat /\ N = m + 1
    /\ IsMonth(u, x, rate, emi, N, N)
    /\ v = PrepaidMonth(y, N, rate, N, extra, "reduce_tenure")
    /\ schedule = u.rows
  BY DEF BothPay
<1>1. Revised(v, P, rate, N)
  <2>1. Revised(y, P, rate, m)
    BY DEF Ahead
  <2> QED
    BY <2>1, MonthIsRevised
<1>2. /\ x.rows \in Seq(Rows) /\ x.owed \in Nat /\ x.owed <= P
      /\ y.rows \in Seq(Rows) /\ y.owed \in Nat /\ y.owed <= x.owed /\ y.emi = emi
  BY DEF Ahead, Scheduled, Revised, Owed
<1>3. PICK a \in Int, b \in Int : a = SumOf(x.rows, "interest") /\ b = SumOf(y.rows, "interest") /\ b <= a
  BY <1>2, SumIsTyped DEF Ahead
<1>4. CASE x.owed = 0
  <2>1. y.owed = 0
    BY <1>2, <1>4
  <2>2. u = x /\ v = y
    BY <1>4, <2>1 DEF IsMonth, Month, PrepaidMonth
  <2> QED
    BY <1>1, <1>3, <2>1, <2>2
<1>5. CASE x.owed # 0
  <2>1. PICK o \in Nat \ {0} : o = x.owed
    BY <1>2, <1>5
  <2>2. PICK i \in Nat : i = Interest(o, rate)
    <3>1. o \in Int /\ o >= 0
      OBVIOUS
    <3> QED
      BY <3>1, InterestIsTyped
  <2>3. PICK rows : rows = Append(x.rows, Row(o, o, i))
    OBVIOUS
  <2>4. u.rows = rows
    BY <1>5, <2>1, <2>2, <2>3 DEF IsMonth, Month, PrincipalOfMonth
  <2>5. o + i <= emi + e
    <3>1. rows[Len(rows)] = Row(o, o, i)
      BY <1>2, <2>3
    <3>2. rows[Len(rows)].principal = o /\ rows[Len(rows)].interest = i
      BY <3>1 DEF Row
    <3> QED
      BY <2>4, <3>2 DEF LastWithin
  <2>6. SumOf(u.rows, "interest") = a + i
    <3>1. o \in Nat /\ x.rows \in Seq(Rows)
      BY <1>2
    <3>3. SumOf(Append(x.rows, Row(o, o, i)), "interest") = SumOf(x.rows, "interest") + i
      BY <3>1, LastRowSums
    <3>2. SumOf(rows, "interest") = a + i
      BY <1>3, <2>3, <3>3
    <3> QED
      BY <2>4, <3>2
  <2>7. CASE y.owed = 0
    <3>1. v = y
      BY <2>7 DEF PrepaidMonth
    <3>2. b <= a + i
      BY <1>3
    <3> QED
      BY <1>1, <1>3, <2>6, <2>7, <3>1, <3>2
  <2>8. CASE y.owed # 0
    <3>1. PICK q \in Nat \ {0} : q = y.owed /\ q <= o
      BY <1>2, <2>1, <2>8
    <3>2. PICK iy \in Nat, dy \in 0..y.owed, more \in 0..y.owed, ey \in Int :
            Pays(y, PrepaidMonth(y, N, rate, N, extra, "reduce_tenure"), N, rate, extra,
                 "reduce_tenure", iy, dy, more, ey)
      <4>1. Revised(y, P, rate, m)
        BY DEF Ahead
      <4> QED
        BY <2>8, <4>1, PrepaidMonthPays
    <3>3. PICK h \in Nat, d \in 0..q, w \in 0..q : h = iy /\ d = dy /\ w = more
      BY <3>1
    <3>4. h = Interest(q, rate) /\ d = IF emi - h <= q THEN emi - h ELSE q
      BY <1>2, <3>1, <3>2, <3>3 DEF Pays
    <3>5. d + w <= q /\ (N = k => w = e \/ d + w = q)
      BY <3>1, <3>2, <3>3 DEF Pays
    <3>6. h <= i
      <4>1. q \in Nat /\ o \in Nat
        OBVIOUS
      <4>2. Interest(q, rate) <= Interest(o, rate)
        BY <3>1, <4>1, InterestGrows
      <4> QED
        BY <2>2, <3>4, <4>2
    <3>7. d + w = q
      <4>3. q + h <= o + i
        <5>1. q <= o
          BY <3>1
        <5>2. h \in Int /\ i \in Int /\ q \in Int /\ o \in Int
          OBVIOUS
        <5> QED
          BY <3>6, <5>1, <5>2
      <4>4. d # q => d = emi - h
        BY <3>4
      <4>1. CASE N = k
        <5>1. CASE d = q
          BY <3>5, <5>1
        <5>2. CASE d # q /\ w = e
          <6>1. d + w = emi - h + e
            BY <4>4, <5>2
          <6>2. q + h <= emi + e
            BY <2>5, <4>3
          <6>3. d + w <= q
            BY <3>5
          <6> QED
            BY <6>1, <6>2, <6>3
        <5> QED
          BY <3>5, <4>1, <5>1, <5>2
      <4>2. CASE N # k
        <5>1. m >= k
          BY <4>2
        <5>2. q + e <= o
          BY <2>1, <3>1, <5>1 DEF Ahead
        <5>3. q <= emi - h
          <6>1. o \in Nat /\ q \in Nat /\ e \in Nat
            OBVIOUS
          <6> QED
            BY <2>5, <3>6, <5>2, <6>1, InstalmentIsEnough
        <5>4. d = q
          BY <3>4, <5>3
        <5> QED
          BY <3>5, <5>4
      <4> QED
        BY <4>1, <4>2
    <3>8. v.owed = 0 /\ v.rows = Append(y.rows, Row(q, q, h))
      <4>1. v = [rows |-> Append(y.rows, Row(y.owed, dy + more, iy)),
                 owed |-> y.owed - dy - more, emi |-> ey]
        BY <3>2 DEF Pays
      <4>2. dy + more = q /\ y.owed - dy - more = 0
        BY <3>1, <3>3, <3>7
      <4>3. Row(y.owed, dy + more, iy) = Row(q, q, h)
        BY <3>1, <3>3, <4>2
      <4>4. PICK new : new = Append(y.rows, Row(q, q, h))
        OBVIOUS
      <4>5. v = [rows |-> new, owed |-> 0, emi |-> ey]
        BY <4>1, <4>2, <4>3, <4>4
      <4>6. v.rows = new /\ v.owed = 0
        BY <4>5
      <4> QED
        BY <4>4, <4>6
    <3>9. SumOf(v.rows, "interest") = b + h
      <4>1. q \in Nat /\ y.rows \in Seq(Rows)
        BY <1>2
      <4>2. SumOf(Append(y.rows, Row(q, q, h)), "interest") = SumOf(y.rows, "interest") + h
        BY <4>1, LastRowSums
      <4>3. SumOf(Append(y.rows, Row(q, q, h)), "interest") = b + h
        BY <1>3, <4>2
      <4> QED
        BY <3>8, <4>3
    <3>10. b + h <= a + i
      BY <1>3, <3>6
    <3> QED
      BY <1>1, <2>6, <3>8, <3>9, <3>10
  <2> QED
    BY <2>7, <2>8
<1> QED
  BY <1>4, <1>5

LEMMA ShorteningSaves ==
    ASSUME NEW P, NEW rate, NEW N, NEW emi, NEW extra, NEW k, NEW e,
           Shortened(P, rate, N, emi, extra, k, e), NEW rows, rows = Schedule(P, rate, N, emi),
           NEW revised, revised = Prepaid(P, rate, N, emi, extra, "reduce_tenure"),
           LastWithin(rows, emi, e)
    PROVE  /\ Repays(revised, P, N)
           /\ SumOf(revised, "interest") \in Int /\ SumOf(rows, "interest") \in Int
           /\ SumOf(revised, "interest") <= SumOf(rows, "interest")
<1>0. /\ P \in Nat \ {0} /\ rate \in Nat /\ N \in Nat \ {0} /\ emi \in Int
      /\ Interest(P, rate) <= emi /\ Prepayments(extra)
  BY DEF Shortened
<1> N \in Nat \ {0} /\ P \in Nat \ {0}
  BY <1>0
<1> PICK K \in Nat : K = 2 * N
  OBVIOUS
<1>1. PICK f \in [0..N -> Balances] : IsSchedule(f, P, rate, N, emi)
  <2>1. N \in Nat /\ P \in Nat
    OBVIOUS
  <2> QED
    BY <1>0, <2>1, ScheduleLoop
<1>2. PICK g \in [0..K -> Debts] : IsPrepaid(g, P, rate, N, emi, extra, "reduce_tenure")
  <2>1. N \in Nat /\ P \in Nat
    OBVIOUS
  <2> QED
    BY <1>0, <2>1, PrepaidLoop
<1>3. rows = f[N].rows /\ revised = g[K].rows
  BY <1>1, <1>2 DEF IsSchedule, IsPrepaid
<1> DEFINE T == {m \in Nat : m < N => Ahead(f[m], g[m], P, emi, rate, k, e, m, N)}
<1>4. 0 \in T
  <2>1. f[0] = [rows |-> <<>>, owed |-> P] /\ g[0] = [rows |-> <<>>, owed |-> P, emi |-> emi]
    BY <1>1, <1>2 DEF IsSchedule, IsPrepaid
  <2>2. Owed(<<>>, P, P)
    BY OwedAtFirst
  <2>3. Scheduled(f[0], P, emi, 0, N)
    BY <2>1, <2>2 DEF Scheduled
  <2>4. Revised(g[0], P, rate, 0)
    BY <2>1, <2>2 DEF Revised
  <2>5. SumOf(<<>>, "interest") = 0
    BY SumOfNothing
  <2> QED
    BY <2>1, <2>3, <2>4, <2>5 DEF Ahead
<1>5. ASSUME NEW m \in Nat, m \in T PROVE m + 1 \in T
  <2>1. PICK j \in Nat : j = m + 1
    OBVIOUS
  <2>2. ASSUME j < N PROVE Ahead(f[j], g[j], P, emi, rate, k, e, j, N)
    <3>1. j \in 1..N /\ j \in 1..2 * N /\ j # N /\ j - 1 = m /\ m < N
      BY <2>1, <2>2
    <3>2. IsMonth(f[j], f[m], rate, emi, j, N)
      BY <1>1, <3>1 DEF IsSchedule, IsMonth
    <3>3. g[j] = PrepaidMonth(g[m], j, rate, N, extra, "reduce_tenure")
      BY <1>2, <3>1 DEF IsPrepaid
    <3>4. Ahead(f[m], g[m], P, emi, rate, k, e, m, N)
      BY <1>5, <3>1
    <3>5. BothPay(f[j], g[j], f[m], g[m], rate, emi, extra, m, j, N)
      BY <2>1, <3>1, <3>2, <3>3 DEF BothPay
    <3> HIDE DEF T
    <3> QED
      BY <3>1, <3>4, <3>5, StaysAhead
  <2> QED
    BY <2>1, <2>2
<1>6. \A m \in Nat : m < N => Ahead(f[m], g[m], P, emi, rate, k, e, m, N)
  <2>1. Nat \subseteq T
    <3> HIDE DEF T
    <3> QED
      BY <1>4, <1>5, Induction
  <2> QED
    BY <2>1
<1>7. PICK v : v = g[N]
  OBVIOUS
<1> HIDE DEF T
<1>8. v.owed = 0 /\ Revised(v, P, rate, N) /\ SumOf(v.rows, "interest") <= SumOf(rows, "interest")
  <2>1. PICK m \in Nat : N = m + 1 /\ m = N - 1 /\ m < N
    OBVIOUS
  <2>2. N \in 1..N /\ N \in 1..2 * N
    OBVIOUS
  <2>3. IsMonth(f[N], f[m], rate, emi, N, N)
    BY <1>1, <2>1, <2>2 DEF IsSchedule, IsMonth
  <2>4. g[N] = PrepaidMonth(g[m], N, rate, N, extra, "reduce_tenure")
    BY <1>2, <2>1, <2>2 DEF IsPrepaid
  <2>5. Ahead(f[m], g[m], P, emi, rate, k, e, m, N)
    BY <1>6, <2>1
  <2>6. BothPay(f[N], v, f[m], g[m], rate, emi, extra, m, N, N)
    BY <1>7, <2>1, <2>2, <2>3, <2>4 DEF BothPay
  <2>7. rows = f[N].rows
    BY <1>3
  <2> QED
    BY <2>5, <2>6, <2>7, ClearsInTime
<1> DEFINE S == {d \in Nat : N + d <= K => g[N + d] = v}
<1>9. 0 \in S
  BY <1>7
<1>10. ASSUME NEW d \in Nat, d \in S PROVE d + 1 \in S
  <2>1. PICK j \in Nat : j = N + (d + 1)
    OBVIOUS
  <2>2. ASSUME j <= K PROVE g[j] = v
    <3>1. j \in 1..2 * N /\ j - 1 = N + d /\ N + d <= K
      <4> HIDE DEF S
      <4>1. j = N + d + 1 /\ j <= 2 * N /\ N >= 1 /\ K \in Int
        BY <2>1, <2>2
      <4> QED
        BY <2>2, <4>1
    <3>2. g[j] = PrepaidMonth(g[N + d], j, rate, N, extra, "reduce_tenure")
      BY <1>2, <3>1 DEF IsPrepaid
    <3>3. g[N + d] = v
      BY <1>10, <3>1
    <3> QED
      BY <1>8, <3>2, <3>3 DEF PrepaidMonth
  <2> QED
    BY <2>1, <2>2
<1>11. g[K] = v
  <2>1. N \in S
    <3> HIDE DEF S
    <3> QED
      BY <1>9, <1>10, Induction
  <2>2. N + N = K
    OBVIOUS
  <2> QED
    BY <2>1, <2>2
<1>12. Repays(revised, P, N)
  <2>3. revised = v.rows
    BY <1>3, <1>11
  <2>4. Owed(v.rows, 0, P) /\ Len(v.rows) <= N
    BY <1>8 DEF Revised
  <2>1. Owed(revised, 0, P) /\ Len(revised) \in Nat /\ Len(revised) <= N
    BY <2>3, <2>4 DEF Owed
  <2> QED
    BY <2>1, ClearedRepays
<1>13. SumOf(revised, "interest") \in Int /\ SumOf(rows, "interest") \in Int
  <2>1. rows \in Seq(AnyRows) /\ revised \in Seq(AnyRows)
    <3>1. N \in 0..N /\ K \in 0..K
      OBVIOUS
    <3>2. f[N] \in Balances /\ g[K] \in Debts
      BY <3>1
    <3> QED
      BY <1>3, <3>2 DEF Balances, Debts
  <2> QED
    BY <2>1, InterestIsSummed
<1> QED
  BY <1>3, <1>8, <1>11, <1>12, <1>13

(* What the schedule's last payment exceeds the others by is rounding, and *)
(* is less than some prepayment.                                           *)
RoundingIsPrepaid(in, loan) ==
    /\ in.strategy = "reduce_tenure"
    /\ \E m \in DOMAIN in.extra :
         LET last == loan.schedule[Len(loan.schedule)] IN
         last.principal + last.interest <= loan.emi + in.extra[m]

(* A loan whose prepayments shorten it, and are more than what rounding     *)
(* leaves to its last month, is repaid within its months, and at no more    *)
(* interest than without them (calculateLoan).                              *)
THEOREM ShorteningNeverCosts ==
    Spec => [](request.about = "loan" /\ result # Missing
                 /\ RoundingIsPrepaid(request.in, Value(result))
               => PrepaymentsRepay /\ PrepaymentsNeverCost)
<1> DEFINE in == request.in
           loan == Value(result)
           emi == Emi(in.principal, in.rate, in.months)
<1>1. Asked /\ AskedLoan /\ SchedulesRepay =>
        (request.about = "loan" /\ result # Missing /\ RoundingIsPrepaid(in, loan)
           => PrepaymentsRepay /\ PrepaymentsNeverCost)
  <2> SUFFICES ASSUME Asked, AskedLoan, SchedulesRepay, request.about = "loan", result # Missing,
                      RoundingIsPrepaid(in, loan), DOMAIN in.extra # {}
               PROVE  /\ Repays(loan.revised, in.principal, in.months)
                      /\ SumOf(loan.revised, "interest") <= SumOf(loan.schedule, "interest") + Cent
    BY DEF PrepaymentsNeverCost, PrepaymentsRepay
  <2>1. /\ loan.schedule = Schedule(in.principal, in.rate, in.months, emi)
        /\ loan.revised = Prepaid(in.principal, in.rate, in.months, emi, in.extra, "reduce_tenure")
        /\ loan.emi = emi
    BY LoanAnswers DEF Loan, RoundingIsPrepaid
  <2>2. PICK k \in DOMAIN in.extra :
          LET last == loan.schedule[Len(loan.schedule)] IN
          last.principal + last.interest <= emi + in.extra[k]
    BY <2>1 DEF RoundingIsPrepaid
  <2>3. k \in 1..in.months /\ in.extra[k] \in Nat \ {0}
    BY LoanAnswers, LoansAssumption
  <2> PICK rows, revised : rows = loan.schedule /\ revised = loan.revised
    OBVIOUS
  <2>4. PICK e \in Nat \ {0} : e = in.extra[k]
    BY <2>3
  <2>5. LastWithin(rows, emi, e)
    BY <2>2, <2>4 DEF LastWithin
  <2>7. Shortened(in.principal, in.rate, in.months, emi, in.extra, k, e)
    BY <2>3, <2>4, LoanAnswers DEF Shortened
  <2>6. Repays(revised, in.principal, in.months)
        /\ SumOf(revised, "interest") <= SumOf(rows, "interest")
    BY <2>1, <2>5, <2>7, ShorteningSaves
  <2>8. SumOf(revised, "interest") \in Int /\ SumOf(rows, "interest") \in Int
    BY <2>1, <2>5, <2>7, ShorteningSaves
  <2>9. Cent \in Nat
    BY CentAssumption
  <2>10. SumOf(revised, "interest") <= SumOf(rows, "interest") + Cent
    BY <2>6, <2>8, <2>9
  <2> QED
    BY <2>6, <2>10
<1> QED
  BY <1>1, AskedLoanHolds, SchedulesAreRepaid, PTL

----------------------------------------------------------------------------
(* Figures that get worse *)

(* G judges what `code` stands for as F does or more severely. *)
Harsher(F, G, code) ==
    \A i \in 1..3 : [code |-> code, severity |-> Severities[i]] \in F =>
      \E j \in 1..3 : i <= j /\ [code |-> code, severity |-> Severities[j]] \in G

LEMMA RankGrows ==
    ASSUME NEW F, NEW G, NEW code, Harsher(F, G, code)
    PROVE  Rank(F, code) <= Rank(G, code)
<1> DEFINE Places(findings) ==
             {0} \union {i \in DOMAIN Severities :
                           [code |-> code, severity |-> Severities[i]] \in findings}
<1>1. DOMAIN Severities = 1..3
  BY DEF Severities
<1>2. ASSUME NEW findings
      PROVE  /\ Max(Places(findings)) \in Places(findings)
             /\ \A i \in Places(findings) : i <= Max(Places(findings))
  <2> PICK S : S = Places(findings)
    OBVIOUS
  <2>1. S \subseteq 0..3 /\ 0 \in S
    BY <1>1
  <2> HIDE DEF Places
  <2>2. \E x \in S : \A y \in S : x >= y
    <3>1. CASE 3 \in S
      BY <2>1, <3>1
    <3>2. CASE 3 \notin S /\ 2 \in S
      BY <2>1, <3>2
    <3>3. CASE 3 \notin S /\ 2 \notin S /\ 1 \in S
      BY <2>1, <3>3
    <3>4. CASE 3 \notin S /\ 2 \notin S /\ 1 \notin S
      BY <2>1, <3>4
    <3> QED
      BY <3>1, <3>2, <3>3, <3>4
  <2>3. Max(S) \in S /\ \A y \in S : Max(S) >= y
    BY <2>2 DEF Max
  <2>4. \A y \in S : y <= Max(S)
    BY <2>1, <2>3
  <2> QED
    BY <2>3, <2>4
<1>3. Max(Places(F)) <= Max(Places(G))
  <2>1. CASE Max(Places(F)) = 0
    <3>1. 0 \in Places(G)
      OBVIOUS
    <3> HIDE DEF Places
    <3> QED
      BY <1>2, <2>1, <3>1
  <2>2. CASE Max(Places(F)) # 0
    <3>1. PICK i \in 1..3 : i = Max(Places(F)) /\ [code |-> code, severity |-> Severities[i]] \in F
      <4>1. Max(Places(F)) \in Places(F)
        BY <1>2
      <4> QED
        BY <1>1, <2>2, <4>1
    <3>2. PICK j \in 1..3 : i <= j /\ [code |-> code, severity |-> Severities[j]] \in G
      BY <3>1 DEF Harsher
    <3>3. j \in Places(G)
      BY <1>1, <3>2
    <3>4. Max(Places(G)) \in Int
      <4>1. Max(Places(G)) \in Places(G) /\ Places(G) \subseteq Int
        BY <1>1, <1>2, SMTT(30)
      <4> QED
        BY <4>1
    <3>5. j <= Max(Places(G))
      <4> HIDE DEF Places
      <4> QED
        BY <1>2, <3>3
    <3> HIDE DEF Places
    <3> QED
      BY <3>1, <3>2, <3>4, <3>5
  <2> QED
    BY <2>1, <2>2
<1> QED
  BY <1>3 DEF Rank

(* What becomes of a finding when it stays material and its severity rises. *)
LEMMA FindingGrows ==
    ASSUME NEW code, NEW m \in BOOLEAN, NEW n \in BOOLEAN, NEW i \in 1..3, NEW j \in 1..3,
           m => n /\ i <= j, NEW other
    PROVE  Harsher(Finding(code, m, Severities[i]), Finding(code, n, Severities[j]), other)
<1> SUFFICES ASSUME NEW k \in 1..3,
                    [code |-> other, severity |-> Severities[k]] \in Finding(code, m, Severities[i])
             PROVE  \E l \in 1..3 : k <= l /\ [code |-> other, severity |-> Severities[l]]
                                              \in Finding(code, n, Severities[j])
  BY DEF Harsher
<1>1. m = TRUE /\ n = TRUE /\ i <= j
  BY DEF Finding
<1>2. [code |-> other, severity |-> Severities[k]] = [code |-> code, severity |-> Severities[i]]
  BY <1>1 DEF Finding
<1>3. other = code /\ Severities[k] = Severities[i]
  BY <1>2
<1>4. k = i
  BY <1>3 DEF Severities
<1>5. [code |-> other, severity |-> Severities[j]] \in Finding(code, n, Severities[j])
  BY <1>1, <1>3 DEF Finding
<1> QED
  BY <1>1, <1>4, <1>5

(* An optional number sinks to another: both are given or neither. *)
Sinks(x, y) ==
    /\ Optional(x, Int) /\ Optional(y, Int)
    /\ Given(x) <=> Given(y)
    /\ Or(y, 0) <= Or(x, 0)

(* d is a check that finds what c finds, and as much of it. *)
Stricter(c, d) ==
    /\ c.material \in BOOLEAN /\ c.twice \in BOOLEAN /\ d.material \in BOOLEAN /\ d.twice \in BOOLEAN
    /\ c.material => d.material
    /\ c.twice => d.twice

StaysNegative(c, d) ==
    /\ c.regression \in BOOLEAN /\ d.regression \in BOOLEAN
    /\ c.regression => d.regression

LEMMA SinkingIsTyped ==
    ASSUME NEW x, NEW y, Sinks(x, y)
    PROVE  Or(x, 0) \in Int /\ Or(y, 0) \in Int /\ Or(y, 0) <= Or(x, 0)
BY OrIsTyped DEF Sinks

(* A move away from the baseline b, to o and then further to p, meets every *)
(* threshold it has met, and a sign that has changed does not change back.  *)
LEMMA ThresholdStays ==
    ASSUME NEW b \in Int, NEW o \in Int, NEW p \in Int, NEW percent \in Nat, NEW floor \in Nat \ {0},
           (p <= o /\ o <= b) \/ (b <= o /\ o <= p)
    PROVE  /\ Moved(b, o) \in Nat /\ Moved(b, p) \in Nat /\ Moved(b, o) <= Moved(b, p)
           /\ Relative(b, o, percent) => Relative(b, p, percent)
           /\ ThresholdMet(b, o, percent, floor) => ThresholdMet(b, p, percent, floor)
           /\ SignChanged(b, o, floor) => SignChanged(b, p, floor)
<1>1. Moved(b, o) \in Nat /\ Moved(b, p) \in Nat /\ Moved(b, o) <= Moved(b, p)
  BY DEF Moved, Abs
<1>2. PICK x \in Nat, y \in Nat : x = Moved(b, o) /\ y = Moved(b, p) /\ x <= y
  BY <1>1
<1>3. PICK part \in Int : part = percent * Abs(b)
  BY DEF Abs
<1>4. Relative(b, o, percent) => Relative(b, p, percent)
  BY <1>2, <1>3 DEF Relative
<1>5. ThresholdMet(b, o, percent, floor) => ThresholdMet(b, p, percent, floor)
  BY <1>2, <1>4 DEF ThresholdMet
<1>6. SignChanged(b, o, floor) => SignChanged(b, p, floor)
  BY <1>2 DEF SignChanged
<1> QED
  BY <1>1, <1>4, <1>5, <1>6

LEMMA SinkingCheckGrows ==
    ASSUME NEW base, NEW obs, NEW then, Sinks(base, obs), Sinks(obs, then),
           NEW percent \in Nat, NEW floor \in Nat \ {0}, NEW signs \in BOOLEAN, NEW c, NEW d,
           c = Check(base, obs, percent, floor, "decrease", signs),
           d = Check(base, then, percent, floor, "decrease", signs)
    PROVE  Stricter(c, d) /\ StaysNegative(c, d)
<1>1. PICK b \in Int, o \in Int, p \in Int :
        b = Or(base, 0) /\ o = Or(obs, 0) /\ p = Or(then, 0) /\ p <= o /\ o <= b
  BY SinkingIsTyped
<1>2. CASE ~Given(base)
  BY <1>2 DEF Sinks, Check, Stricter, StaysNegative
<1>3. CASE Given(base)
  <2>1. Given(obs) /\ Given(then)
    BY <1>3 DEF Sinks
  <2>2. /\ c.material = (\/ signs /\ SignChanged(b, o, floor)
                         \/ ThresholdMet(b, o, percent, floor))
        /\ c.twice = (/\ o - b < 0 /\ Moved(b, o) >= 2 * floor
                      /\ b # 0 => Relative(b, o, 2 * percent))
        /\ c.regression = (o < 0 /\ b >= 0)
    BY <1>1, <1>3, <2>1 DEF Check, Adverse
  <2>3. /\ d.material = (\/ signs /\ SignChanged(b, p, floor)
                         \/ ThresholdMet(b, p, percent, floor))
        /\ d.twice = (/\ p - b < 0 /\ Moved(b, p) >= 2 * floor
                      /\ b # 0 => Relative(b, p, 2 * percent))
        /\ d.regression = (p < 0 /\ b >= 0)
    BY <1>1, <1>3, <2>1 DEF Check, Adverse
  <2>4. /\ Moved(b, o) \in Nat /\ Moved(b, p) \in Nat /\ Moved(b, o) <= Moved(b, p)
        /\ ThresholdMet(b, o, percent, floor) => ThresholdMet(b, p, percent, floor)
        /\ SignChanged(b, o, floor) => SignChanged(b, p, floor)
    BY <1>1, ThresholdStays
  <2>5. Relative(b, o, 2 * percent) => Relative(b, p, 2 * percent)
    <3>1. 2 * percent \in Nat
      OBVIOUS
    <3> QED
      BY <1>1, <3>1, ThresholdStays
  <2>6. c.material => d.material
    BY <2>2, <2>3, <2>4
  <2>7. c.twice => d.twice
    <3>1. o - b < 0 => p - b < 0
      BY <1>1
    <3>2. Moved(b, o) >= 2 * floor => Moved(b, p) >= 2 * floor
      BY <2>4
    <3> QED
      BY <2>2, <2>3, <2>5, <3>1, <3>2
  <2>8. c.regression => d.regression
    BY <1>1, <2>2, <2>3
  <2> QED
    BY <2>2, <2>3, <2>6, <2>7, <2>8 DEF Stricter, StaysNegative
<1> QED
  BY <1>2, <1>3

LEMMA RisingCheckGrows ==
    ASSUME NEW base, NEW obs, NEW then, Sinks(obs, base), Sinks(then, obs),
           NEW percent \in Nat, NEW floor \in Nat \ {0}, NEW c, NEW d,
           c = Check(base, obs, percent, floor, "increase", FALSE),
           d = Check(base, then, percent, floor, "increase", FALSE)
    PROVE  Stricter(c, d)
<1>1. PICK b \in Int, o \in Int, p \in Int :
        b = Or(base, 0) /\ o = Or(obs, 0) /\ p = Or(then, 0) /\ b <= o /\ o <= p
  BY SinkingIsTyped
<1>2. CASE ~Given(base)
  BY <1>2 DEF Sinks, Check, Stricter
<1>3. CASE Given(base)
  <2>1. Given(obs) /\ Given(then)
    BY <1>3 DEF Sinks
  <2>2. /\ c.material = ThresholdMet(b, o, percent, floor)
        /\ c.twice = (/\ o - b > 0 /\ Moved(b, o) >= 2 * floor
                      /\ b # 0 => Relative(b, o, 2 * percent))
    BY <1>1, <1>3, <2>1 DEF Check, Adverse, ThresholdMet
  <2>3. /\ d.material = ThresholdMet(b, p, percent, floor)
        /\ d.twice = (/\ p - b > 0 /\ Moved(b, p) >= 2 * floor
                      /\ b # 0 => Relative(b, p, 2 * percent))
    BY <1>1, <1>3, <2>1 DEF Check, Adverse, ThresholdMet
  <2>4. /\ Moved(b, o) \in Nat /\ Moved(b, p) \in Nat /\ Moved(b, o) <= Moved(b, p)
        /\ ThresholdMet(b, o, percent, floor) => ThresholdMet(b, p, percent, floor)
    BY <1>1, ThresholdStays
  <2>5. Relative(b, o, 2 * percent) => Relative(b, p, 2 * percent)
    <3>1. 2 * percent \in Nat
      OBVIOUS
    <3> QED
      BY <1>1, <3>1, ThresholdStays
  <2>6. c.material => d.material
    BY <2>2, <2>3, <2>4
  <2>7. c.twice => d.twice
    <3>1. o - b > 0 => p - b > 0
      BY <1>1
    <3>2. Moved(b, o) >= 2 * floor => Moved(b, p) >= 2 * floor
      BY <2>4
    <3> QED
      BY <2>2, <2>3, <2>5, <3>1, <3>2
  <2>8. c.material \in BOOLEAN /\ c.twice \in BOOLEAN /\ d.material \in BOOLEAN /\ d.twice \in BOOLEAN
    BY <2>2, <2>3 DEF ThresholdMet
  <2> QED
    BY <2>6, <2>7, <2>8 DEF Stricter
<1> QED
  BY <1>2, <1>3

(* The checks as the comparisons make them. *)
Sinking(base, obs, percent, floor) == Check(base, obs, percent, floor, "decrease", FALSE)
Turning(base, obs, percent, floor) == Check(base, obs, percent, floor, "decrease", TRUE)
Rising(base, obs, percent, floor) == Check(base, obs, percent, floor, "increase", FALSE)

LEMMA SinkingGrows ==
    ASSUME NEW base, NEW obs, NEW then, Sinks(base, obs), Sinks(obs, then),
           NEW percent \in Nat, NEW floor \in Nat \ {0}
    PROVE  Stricter(Sinking(base, obs, percent, floor), Sinking(base, then, percent, floor))
BY SinkingCheckGrows DEF Sinking

LEMMA TurningGrows ==
    ASSUME NEW base, NEW obs, NEW then, Sinks(base, obs), Sinks(obs, then),
           NEW percent \in Nat, NEW floor \in Nat \ {0}, NEW c, NEW d,
           c = Turning(base, obs, percent, floor), d = Turning(base, then, percent, floor)
    PROVE  Stricter(c, d) /\ StaysNegative(c, d)
<1>1. PICK signs \in BOOLEAN : signs = TRUE
  OBVIOUS
<1>2. /\ c = Check(base, obs, percent, floor, "decrease", signs)
      /\ d = Check(base, then, percent, floor, "decrease", signs)
  BY <1>1 DEF Turning
<1> QED
  BY <1>2, SinkingCheckGrows

LEMMA RisingGrows ==
    ASSUME NEW base, NEW obs, NEW then, Sinks(obs, base), Sinks(then, obs),
           NEW percent \in Nat, NEW floor \in Nat \ {0}
    PROVE  Stricter(Rising(base, obs, percent, floor), Rising(base, then, percent, floor))
BY RisingCheckGrows DEF Rising

LEMMA StepCheckGrows ==
    ASSUME NEW base, NEW obs, NEW then, Sinks(obs, base), Sinks(then, obs), NEW step \in Nat \ {0},
           NEW c, NEW d, c = StepCheck(base, obs, step), d = StepCheck(base, then, step)
    PROVE  Stricter(c, d)
<1>1. PICK b \in Int, o \in Int, p \in Int :
        b = Or(base, 0) /\ o = Or(obs, 0) /\ p = Or(then, 0) /\ b <= o /\ o <= p
  BY SinkingIsTyped
<1>2. Given(obs) <=> Given(then)
  BY DEF Sinks
<1>3. Moved(b, o) \in Nat /\ Moved(b, p) \in Nat /\ Moved(b, o) <= Moved(b, p)
  BY <1>1 DEF Moved, Abs
<1>4. /\ c.material = (Moved(b, o) >= step)
      /\ c.twice = (Given(obs) /\ o - b >= 2 * step)
  BY <1>1 DEF StepCheck, Given
<1>5. /\ d.material = (Moved(b, p) >= step)
      /\ d.twice = (Given(then) /\ p - b >= 2 * step)
  BY <1>1 DEF StepCheck, Given
<1>6. Moved(b, o) >= step => Moved(b, p) >= step
  BY <1>3
<1>7. o - b >= 2 * step => p - b >= 2 * step
  BY <1>1
<1>8. c.material => d.material
  BY <1>4, <1>5, <1>6
<1>9. c.twice => d.twice
  BY <1>2, <1>4, <1>5, <1>7
<1>10. c.material \in BOOLEAN /\ c.twice \in BOOLEAN /\ d.material \in BOOLEAN /\ d.twice \in BOOLEAN
  BY <1>4, <1>5 DEF Given
<1> QED
  BY <1>8, <1>9, <1>10 DEF Stricter

LEMMA HorizonCheckGrows ==
    ASSUME NEW base, NEW obs, NEW then, Sinks(base, obs), Sinks(obs, then),
           NEW c, NEW d, c = HorizonCheck(base, obs), d = HorizonCheck(base, then)
    PROVE  Stricter(c, d)
<1>1. PICK b \in Int, o \in Int, p \in Int :
        b = Or(base, 0) /\ o = Or(obs, 0) /\ p = Or(then, 0) /\ p <= o /\ o <= b
  BY SinkingIsTyped
<1>2. Moved(b, o) \in Nat /\ Moved(b, p) \in Nat /\ Moved(b, o) <= Moved(b, p)
  BY <1>1 DEF Moved, Abs
<1>3. /\ c.material = (Moved(b, o) >= 3)
      /\ c.twice = (Given(base) /\ b - o >= 6)
  BY <1>1 DEF HorizonCheck, Given
<1>4. /\ d.material = (Moved(b, p) >= 3)
      /\ d.twice = (Given(base) /\ b - p >= 6)
  BY <1>1 DEF HorizonCheck, Given
<1>5. Moved(b, o) >= 3 => Moved(b, p) >= 3
  BY <1>2
<1>6. b - o >= 6 => b - p >= 6
  BY <1>1
<1>7. c.material => d.material
  BY <1>3, <1>4, <1>5
<1>8. c.twice => d.twice
  BY <1>3, <1>4, <1>6
<1>9. c.material \in BOOLEAN /\ c.twice \in BOOLEAN /\ d.material \in BOOLEAN /\ d.twice \in BOOLEAN
  BY <1>3, <1>4 DEF Given
<1> QED
  BY <1>7, <1>8, <1>9 DEF Stricter

(* A stricter check makes a harsher finding. *)
LEMMA CheckedGrows ==
    ASSUME NEW c, NEW d, Stricter(c, d), NEW code, NEW other
    PROVE  Harsher(Checked(code, c), Checked(code, d), other)
<1>1. PICK i \in 1..3 : i = IF c.twice THEN 2 ELSE 1
  OBVIOUS
<1>2. PICK j \in 1..3 : j = IF d.twice THEN 2 ELSE 1
  OBVIOUS
<1>3. Severity(c) = Severities[i] /\ Severity(d) = Severities[j]
  BY <1>1, <1>2 DEF Severity, Severities
<1>4. i <= j
  BY <1>1, <1>2 DEF Stricter
<1>5. PICK m \in BOOLEAN, n \in BOOLEAN : m = c.material /\ n = d.material /\ (m => n)
  BY DEF Stricter
<1>6. Harsher(Finding(code, m, Severities[i]), Finding(code, n, Severities[j]), other)
  BY <1>4, <1>5, FindingGrows
<1> QED
  BY <1>3, <1>5, <1>6 DEF Checked

LEMMA CheckedSignGrows ==
    ASSUME NEW c, NEW d, Stricter(c, d), StaysNegative(c, d), NEW code, NEW other
    PROVE  Harsher(CheckedSign(code, c), CheckedSign(code, d), other)
<1>1. PICK i \in 1..3 : i = IF c.regression THEN 3 ELSE IF c.twice THEN 2 ELSE 1
  OBVIOUS
<1>2. PICK j \in 1..3 : j = IF d.regression THEN 3 ELSE IF d.twice THEN 2 ELSE 1
  OBVIOUS
<1>3. SignedSeverity(c) = Severities[i] /\ SignedSeverity(d) = Severities[j]
  BY <1>1, <1>2 DEF SignedSeverity, Severity, Severities
<1>4. i <= j
  BY <1>1, <1>2 DEF Stricter, StaysNegative
<1>5. PICK m \in BOOLEAN, n \in BOOLEAN : m = c.material /\ n = d.material /\ (m => n)
  BY DEF Stricter
<1>6. Harsher(Finding(code, m, Severities[i]), Finding(code, n, Severities[j]), other)
  BY <1>4, <1>5, FindingGrows
<1> QED
  BY <1>3, <1>5, <1>6 DEF CheckedSign

(* A runway that a baseline has, or that neither has. *)
LEMMA RunwayFindingGrows ==
    ASSUME NEW base, NEW obs, NEW then, Sinks(base, obs), Sinks(obs, then), NEW other
    PROVE  Harsher(RunwayFinding(base, obs), RunwayFinding(base, then), other)
<1>1. PICK b \in Int, o \in Int, p \in Int :
        b = Or(base, 0) /\ o = Or(obs, 0) /\ p = Or(then, 0) /\ p <= o /\ o <= b
  BY SinkingIsTyped
<1>2. /\ Moved(b, o) \in Nat /\ Moved(b, p) \in Nat /\ Moved(b, o) <= Moved(b, p)
      /\ Given(base) <=> Given(obs)
      /\ Given(base) <=> Given(then)
  BY <1>1 DEF Moved, Abs, Sinks
<1> DEFINE worse(x) == Given(base) /\ x < b /\ Moved(b, x) >= 20000
           material(x) == Given(base) /\ Moved(b, x) >= 10000
<1>3. PICK i \in 1..3 : i = IF worse(o) THEN 2 ELSE 1
  OBVIOUS
<1>4. PICK j \in 1..3 : j = IF worse(p) THEN 2 ELSE 1
  OBVIOUS
<1>5. i <= j
  <2>1. worse(o) => worse(p)
    BY <1>1, <1>2
  <2> HIDE DEF worse
  <2> QED
    BY <1>3, <1>4, <2>1
<1>6. PICK m \in BOOLEAN, n \in BOOLEAN : m = material(o) /\ n = material(p) /\ (m => n)
  <2>1. material(o) => material(p)
    BY <1>2
  <2>2. material(o) \in BOOLEAN /\ material(p) \in BOOLEAN
    OBVIOUS
  <2> HIDE DEF material
  <2> QED
    BY <2>1, <2>2
<1>8. RunwayFinding(base, obs) = Finding("reserve_runway_changed", m, Severities[i])
  <2>1. Given(base) \/ Given(obs) <=> Given(base)
    BY <1>2
  <2>2. Severities[i] = IF worse(o) THEN "warning" ELSE "notice"
    BY <1>3 DEF Severities
  <2>3. (Given(base) \/ Given(obs)) /\ Moved(b, o) >= 10000 <=> m
    <3>1. m <=> material(o)
      <4> HIDE DEF material
      <4> QED
        BY <1>6
    <3> QED
      BY <2>1, <3>1
  <2>4. RunwayFinding(base, obs) = Finding("reserve_runway_changed",
          (Given(base) \/ Given(obs)) /\ Moved(b, o) >= 10000, IF worse(o) THEN "warning" ELSE "notice")
    BY <1>1 DEF RunwayFinding
  <2> HIDE DEF worse
  <2>5. CASE m
    BY <2>2, <2>3, <2>4, <2>5 DEF Finding
  <2>6. CASE ~m
    BY <2>2, <2>3, <2>4, <2>6 DEF Finding
  <2> QED
    BY <2>5, <2>6
<1>9. RunwayFinding(base, then) = Finding("reserve_runway_changed", n, Severities[j])
  <2>1. Given(base) \/ Given(then) <=> Given(base)
    BY <1>2
  <2>2. Severities[j] = IF worse(p) THEN "warning" ELSE "notice"
    BY <1>4 DEF Severities
  <2>3. (Given(base) \/ Given(then)) /\ Moved(b, p) >= 10000 <=> n
    <3>1. n <=> material(p)
      <4> HIDE DEF material
      <4> QED
        BY <1>6
    <3> QED
      BY <2>1, <3>1
  <2>4. RunwayFinding(base, then) = Finding("reserve_runway_changed",
          (Given(base) \/ Given(then)) /\ Moved(b, p) >= 10000, IF worse(p) THEN "warning" ELSE "notice")
    BY <1>1 DEF RunwayFinding
  <2> HIDE DEF worse
  <2>5. CASE n
    BY <2>2, <2>3, <2>4, <2>5 DEF Finding
  <2>6. CASE ~n
    BY <2>2, <2>3, <2>4, <2>6 DEF Finding
  <2> QED
    BY <2>5, <2>6
<1> HIDE DEF worse, material
<1>10. Harsher(Finding("reserve_runway_changed", m, Severities[i]),
              Finding("reserve_runway_changed", n, Severities[j]), other)
  BY <1>5, <1>6, FindingGrows
<1> QED
  BY <1>8, <1>9, <1>10

(* Several checks that make one finding. *)
Finds(C) == \E c \in C : c.material
Warns(C) == \E c \in C : c.material /\ c.twice

LEMMA ChecksGrow ==
    ASSUME NEW C, NEW D, \A c \in C : \E d \in D : Stricter(c, d)
    PROVE  (Finds(C) => Finds(D)) /\ (Warns(C) => Warns(D))
<1>1. ASSUME Finds(C) PROVE Finds(D)
  <2>1. PICK c \in C : c.material
    BY <1>1 DEF Finds
  <2>2. PICK d \in D : Stricter(c, d)
    OBVIOUS
  <2> QED
    BY <2>1, <2>2 DEF Finds, Stricter
<1>2. ASSUME Warns(C) PROVE Warns(D)
  <2>1. PICK c \in C : c.material /\ c.twice
    BY <1>2 DEF Warns
  <2>2. PICK d \in D : Stricter(c, d)
    OBVIOUS
  <2> QED
    BY <2>1, <2>2 DEF Warns, Stricter
<1> QED
  BY <1>1, <1>2

LEMMA ChecksAsRecords ==
    ASSUME NEW C, NEW R, R = {[material |-> x.material, twice |-> x.twice] : x \in C}
    PROVE  /\ (\E r \in R : r.material) <=> Finds(C)
           /\ (\E r \in R : r.material /\ r.twice) <=> Warns(C)
<1>1. \A r \in R : \E c \in C : r.material = c.material /\ r.twice = c.twice
  OBVIOUS
<1>2. \A c \in C : \E r \in R : r.material = c.material /\ r.twice = c.twice
  <2> SUFFICES ASSUME NEW c \in C PROVE \E r \in R : r.material = c.material /\ r.twice = c.twice
    OBVIOUS
  <2> DEFINE r == [material |-> c.material, twice |-> c.twice]
  <2>1. r \in R /\ r.material = c.material /\ r.twice = c.twice
    OBVIOUS
  <2> QED
    BY <2>1
<1> QED
  BY <1>1, <1>2 DEF Finds, Warns

DebtChecks(base, obs) ==
    {Rising(base.principal, obs.principal, 5, 5000),
     StepCheck(base.rate, obs.rate, 50), StepCheck(base.tenure, obs.tenure, 3)}

LEMMA DebtFindingGrows ==
    ASSUME NEW base, NEW obs, NEW then,
           \A field \in {"principal", "rate", "tenure"} :
             Sinks(obs[field], base[field]) /\ Sinks(then[field], obs[field]),
           obs.extras = base.extras, then.extras = base.extras, NEW other
    PROVE  Harsher(DebtFinding(base, obs), DebtFinding(base, then), other)
<1> PICK C, D : C = DebtChecks(base, obs) /\ D = DebtChecks(base, then)
  OBVIOUS
<1>1. ASSUME NEW now, now.extras = base.extras
      PROVE  DebtFinding(base, now)
               = Finding("debt_terms_changed", Finds(DebtChecks(base, now)),
                         IF Warns(DebtChecks(base, now)) THEN "warning" ELSE "notice")
  <2> PICK S : S = {[material |-> x.material, twice |-> x.twice] : x \in DebtChecks(base, now)}
    OBVIOUS
  <2>1. DebtFinding(base, now)
          = Finding("debt_terms_changed", (\E c \in S : c.material) \/ base.extras # now.extras,
                    IF \E c \in S : c.material /\ c.twice THEN "warning" ELSE "notice")
    BY DEF DebtFinding, DebtChecks, Rising
  <2>2. (\E c \in S : c.material) <=> Finds(DebtChecks(base, now))
    BY ChecksAsRecords
  <2>3. (\E c \in S : c.material /\ c.twice) <=> Warns(DebtChecks(base, now))
    BY ChecksAsRecords
  <2> QED
    BY <1>1, <2>1, <2>2, <2>3 DEF Finding
<1>2. \A c \in C : \E d \in D : Stricter(c, d)
  <2>1. Sinks(obs.principal, base.principal) /\ Sinks(then.principal, obs.principal)
    OBVIOUS
  <2>2. Stricter(Rising(base.principal, obs.principal, 5, 5000),
                 Rising(base.principal, then.principal, 5, 5000))
    BY <2>1, RisingGrows
  <2>3. Stricter(StepCheck(base.rate, obs.rate, 50), StepCheck(base.rate, then.rate, 50))
    BY StepCheckGrows
  <2>4. Stricter(StepCheck(base.tenure, obs.tenure, 3), StepCheck(base.tenure, then.tenure, 3))
    BY StepCheckGrows
  <2> QED
    BY <2>2, <2>3, <2>4 DEF DebtChecks
<1>3. (Finds(C) => Finds(D)) /\ (Warns(C) => Warns(D))
  BY <1>2, ChecksGrow
<1>4. PICK i \in 1..3 : i = IF Warns(C) THEN 2 ELSE 1
  OBVIOUS
<1>5. PICK j \in 1..3 : j = IF Warns(D) THEN 2 ELSE 1
  OBVIOUS
<1>6. i <= j
  BY <1>3, <1>4, <1>5
<1>7. PICK m \in BOOLEAN, n \in BOOLEAN : m = Finds(C) /\ n = Finds(D) /\ (m => n)
  BY <1>3 DEF Finds
<1>8. Harsher(Finding("debt_terms_changed", m, Severities[i]),
              Finding("debt_terms_changed", n, Severities[j]), other)
  BY <1>6, <1>7, FindingGrows
<1>9. /\ Severities[i] = IF Warns(C) THEN "warning" ELSE "notice"
      /\ Severities[j] = IF Warns(D) THEN "warning" ELSE "notice"
  BY <1>4, <1>5 DEF Severities
<1> QED
  BY <1>1, <1>7, <1>8, <1>9

(* A goal's input. *)
GoalInput(in) ==
    /\ Optional(in.target, Nat \ {0}) /\ Optional(in.horizon, Nat \ {0})
    /\ Optional(in.savings, Nat) /\ Optional(in.capacity, Nat)
    /\ Optional(in.inflation, Nat) /\ Optional(in.return, Nat)
    /\ in.category \in DOMAIN PolicyInflation

Complete(in) == Given(in.target) /\ Given(in.horizon) /\ Given(in.savings)

GoalInflation(in) == Or(in.inflation, PolicyInflation[in.category])
GoalReturn(in) == Or(in.return, PolicyReturn)

Standing(cost, saved, rate, n, capacity) ==
    IF AtMost(cost, saved) THEN "funded"
    ELSE IF ~Given(capacity) THEN "unconstrained"
    ELSE IF AtMost(RequiredSip(Minus(cost, saved), rate, n), Whole(Or(capacity, 0))) THEN "feasible"
    ELSE "infeasible"

LEMMA GoalFigures ==
    ASSUME NEW in, GoalInput(in)
    PROVE  /\ Or(in.savings, 0) \in Nat /\ Or(in.capacity, 0) \in Nat
           /\ GoalInflation(in) \in Nat /\ GoalReturn(in) \in Nat
           /\ Complete(in) => Or(in.target, 0) \in Nat \ {0} /\ Or(in.horizon, 0) \in Nat \ {0}
<1>1. PolicyReturn \in Nat /\ PolicyInflation[in.category] \in Nat
  BY EngineAssumption DEF GoalInput
<1>2. 0 \in Nat
  OBVIOUS
<1>3. /\ Or(in.savings, 0) \in Nat /\ Or(in.capacity, 0) \in Nat
      /\ GoalInflation(in) \in Nat /\ GoalReturn(in) \in Nat
  BY <1>1, <1>2, OrIsTyped DEF GoalInput, GoalInflation, GoalReturn
<1>4. Complete(in) => Or(in.target, 0) \in Nat \ {0} /\ Or(in.horizon, 0) \in Nat \ {0}
  BY OptionalValue DEF GoalInput, Complete, Or
<1> QED
  BY <1>3, <1>4

LEMMA GoalIsJudged ==
    ASSUME NEW in, GoalInput(in)
    PROVE  LET n == Or(in.horizon, 0)
               cost == Grown(Or(in.target, 0), GoalInflation(in), n)
               saved == Grown(Or(in.savings, 0), GoalReturn(in), n) IN
           /\ ~Complete(in) => GoalFunding(in) = Missing
           /\ Complete(in) =>
                GoalFunding(in) = Some(Standing(cost, saved, GoalReturn(in), n, in.capacity))
<1> DEFINE n == Or(in.horizon, 0)
           cost == Grown(Or(in.target, 0), GoalInflation(in), n)
           saved == Grown(Or(in.savings, 0), GoalReturn(in), n)
<1>1. ASSUME ~Complete(in) PROVE GoalFunding(in) = Missing
  <2>1. \E f \in GoalFields : ~Given(in[f])
    BY <1>1 DEF Complete, GoalFields
  <2> QED
    BY <2>1 DEF GoalFunding
<1>2. ASSUME Complete(in)
      PROVE  GoalFunding(in) = Some(Standing(cost, saved, GoalReturn(in), n, in.capacity))
  <2>1. ~ \E f \in GoalFields : ~Given(in[f])
    BY <1>2 DEF Complete, GoalFields
  <2>2. /\ Or(in.target, 0) = Value(in.target) /\ Or(in.horizon, 0) = Value(in.horizon)
        /\ Or(in.savings, 0) = Value(in.savings)
    BY <1>2 DEF Complete, Or
  <2>3. Given(in.capacity) => Or(in.capacity, 0) = Value(in.capacity)
    BY DEF Or
  <2> DEFINE c == Grown(Value(in.target), Or(in.inflation, PolicyInflation[in.category]), Value(in.horizon))
             s == Grown(Value(in.savings), Or(in.return, PolicyReturn), Value(in.horizon))
             r == Or(in.return, PolicyReturn)
             answer == IF AtMost(c, s) THEN "funded"
                       ELSE IF ~Given(in.capacity) THEN "unconstrained"
                       ELSE IF AtMost(RequiredSip(Minus(c, s), r, Value(in.horizon)),
                                      Whole(Value(in.capacity))) THEN "feasible"
                       ELSE "infeasible"
  <2>4. GoalFunding(in) = Some(answer)
    BY <2>1 DEF GoalFunding
  <2>5. cost = c /\ saved = s /\ GoalReturn(in) = r /\ n = Value(in.horizon)
    BY <2>2 DEF GoalInflation, GoalReturn
  <2> HIDE DEF c, s, r, cost, saved, n
  <2>6. answer = Standing(cost, saved, GoalReturn(in), n, in.capacity)
    BY <2>3, <2>5 DEF Standing
  <2> QED
    BY <2>4, <2>6
<1> QED
  BY <1>1, <1>2

(* The same goal or a poorer one: more is asked for, less is there. *)
Poorer(x, y) ==
    /\ Sinks(y.target, x.target) /\ Sinks(x.horizon, y.horizon)
    /\ Sinks(x.savings, y.savings) /\ Sinks(x.capacity, y.capacity)
    /\ GoalInflation(x) <= GoalInflation(y) /\ GoalReturn(x) = GoalReturn(y)

(* An answer that is no better than another. *)
NoMilder(was, now) ==
    \/ was = now
    \/ was = Some("funded") /\ now # Missing
    \/ was = Some("feasible") /\ now = Some("infeasible")

(* A poorer goal is judged no better, but for the cost of one that is wanted *)
(* sooner: whatever is rounded on the way.                                   *)
LEMMA PoorerGoals ==
    ASSUME NEW x, NEW y, GoalInput(x), GoalInput(y), Poorer(x, y),
           Or(x.horizon, 0) = Or(y.horizon, 0) \/ GoalInflation(y) = 0
    PROVE  NoMilder(GoalFunding(x), GoalFunding(y))
<1>1. (Complete(x) <=> Complete(y)) /\ (Given(x.capacity) <=> Given(y.capacity))
  BY DEF Complete, Poorer, Sinks
<1>2. CASE ~Complete(x)
  BY <1>1, <1>2, GoalIsJudged DEF NoMilder
<1>3. CASE Complete(x)
  <2>1. PICK t \in Nat \ {0}, n \in Nat \ {0}, s \in Nat, i \in Nat, rate \in Nat, c \in Nat :
          /\ t = Or(x.target, 0) /\ n = Or(x.horizon, 0) /\ s = Or(x.savings, 0)
          /\ i = GoalInflation(x) /\ rate = GoalReturn(x) /\ c = Or(x.capacity, 0)
    BY <1>3, GoalFigures
  <2>2. PICK T \in Nat \ {0}, N \in Nat \ {0}, S \in Nat, I \in Nat, C \in Nat :
          /\ T = Or(y.target, 0) /\ N = Or(y.horizon, 0) /\ S = Or(y.savings, 0)
          /\ I = GoalInflation(y) /\ rate = GoalReturn(y) /\ C = Or(y.capacity, 0)
    BY <1>1, <1>3, <2>1, GoalFigures DEF Poorer
  <2>3. t <= T /\ N <= n /\ S <= s /\ i <= I /\ C <= c
    BY <2>1, <2>2, SinkingIsTyped DEF Poorer
  <2>4. PICK cost \in Fractions, saved \in Fractions : cost = Grown(t, i, n) /\ saved = Grown(s, rate, n)
    BY GrownIsTyped
  <2>5. PICK dear \in Fractions, less \in Fractions : dear = Grown(T, I, N) /\ less = Grown(S, rate, N)
    BY GrownIsTyped
  <2>6. AtMost(cost, dear)
    <3>1. CASE n = N
      <4>1. t \in Nat /\ T \in Nat
        OBVIOUS
      <4> QED
        BY <2>3, <2>4, <2>5, <3>1, <4>1, GrownGrows
    <3>2. CASE I = 0
      <4>1. i = 0 /\ t \in Nat /\ T \in Nat
        BY <2>3, <3>2
      <4>2. cost = Whole(t) /\ dear = Whole(T)
        BY <2>4, <2>5, <3>2, <4>1 DEF Grown
      <4> QED
        BY <2>3, <4>1, <4>2, WholesAreOrdered
    <3> QED
      BY <2>1, <2>2, <3>1, <3>2
  <2>7. AtMost(less, saved)
    BY <2>3, <2>4, <2>5, GrownGrowsWithTime
  <2>8. /\ GoalFunding(x) = Some(Standing(cost, saved, rate, n, x.capacity))
        /\ GoalFunding(y) = Some(Standing(dear, less, rate, N, y.capacity))
    BY <1>1, <1>3, <2>1, <2>2, <2>4, <2>5, GoalIsJudged
  <2>9. AtMost(dear, less) => AtMost(cost, saved)
    <3>1. SUFFICES ASSUME AtMost(dear, less) PROVE AtMost(cost, saved)
      OBVIOUS
    <3>2. AtMost(cost, less)
      BY <2>6, <3>1, AtMostIsTransitive
    <3> QED
      BY <2>7, <3>2, AtMostIsTransitive
  <2>10. ASSUME ~AtMost(cost, saved),
                AtMost(RequiredSip(Minus(dear, less), rate, N), Whole(C))
         PROVE  AtMost(RequiredSip(Minus(cost, saved), rate, n), Whole(c))
    <3>1. AtMost(saved, cost)
      <4>1. cost.num * saved.den \in Nat /\ saved.num * cost.den \in Nat
        BY DEF Fractions
      <4> QED
        BY <2>10, <4>1 DEF AtMost
    <3>2. AtMost(less, dear) /\ AtMost(Minus(cost, saved), Minus(dear, less))
      BY <2>6, <2>7, <3>1, MinusGrows
    <3>3. Minus(cost, saved) \in Fractions /\ Minus(dear, less) \in Fractions
      BY <3>1, <3>2, MinusIsTyped
    <3>4. PICK sip \in Fractions, more \in Fractions :
            /\ sip = RequiredSip(Minus(cost, saved), rate, n)
            /\ more = RequiredSip(Minus(dear, less), rate, N)
            /\ AtMost(sip, more)
      BY <2>3, <3>2, <3>3, RequiredSipGrows
    <3>5. Whole(C) \in Fractions /\ Whole(c) \in Fractions /\ AtMost(Whole(C), Whole(c))
      BY <2>3, WholeIsTyped, WholesAreOrdered
    <3>6. AtMost(sip, Whole(C))
      BY <2>10, <3>4, <3>5, AtMostIsTransitive
    <3> QED
      BY <3>4, <3>5, <3>6, AtMostIsTransitive
  <2>11. /\ Standing(cost, saved, rate, n, x.capacity) # Standing(dear, less, rate, N, y.capacity) =>
              \/ Standing(cost, saved, rate, n, x.capacity) = "funded"
              \/ /\ Standing(cost, saved, rate, n, x.capacity) = "feasible"
                 /\ Standing(dear, less, rate, N, y.capacity) = "infeasible"
    BY <1>1, <2>1, <2>2, <2>9, <2>10 DEF Standing
  <2> QED
    BY <2>8, <2>11, ValueOfSome DEF NoMilder
<1> QED
  BY <1>2, <1>3

(* Three goals, each judged no better than the one before; or the last as *)
(* the one before.                                                        *)
GoalsKeepOrder(base, obs, then) ==
    \/ GoalFunding(obs) = GoalFunding(then)
    \/ NoMilder(GoalFunding(base), GoalFunding(obs)) /\ NoMilder(GoalFunding(obs), GoalFunding(then))

LEMMA GoalsSink ==
    ASSUME NEW was, NEW now, NEW then, now = then \/ (NoMilder(was, now) /\ NoMilder(now, then))
    PROVE  /\ was # now => was # then
           /\ now = Some("infeasible") => then = Some("infeasible")
<1>1. /\ Some("funded") # Some("feasible") /\ Some("funded") # Some("infeasible")
      /\ Some("feasible") # Some("infeasible")
  BY DEF Some
<1> QED
  BY <1>1 DEF NoMilder

GoalChecks(base, obs) ==
    {Rising(base.target, obs.target, 5, 5000), HorizonCheck(base.horizon, obs.horizon),
     Sinking(base.savings, obs.savings, 10, 1000), Sinking(base.capacity, obs.capacity, 10, 1000)}

\* The goal was feasible and is no more.
Lost(base, obs) == GoalFunding(base) \in Feasible /\ GoalFunding(obs) = Some("infeasible")

LEMMA GoalFindingGrows ==
    ASSUME NEW base, NEW obs, NEW then, GoalsKeepOrder(base, obs, then),
           Sinks(obs.target, base.target), Sinks(then.target, obs.target),
           Sinks(base.horizon, obs.horizon), Sinks(obs.horizon, then.horizon),
           Sinks(base.savings, obs.savings), Sinks(obs.savings, then.savings),
           Sinks(base.capacity, obs.capacity), Sinks(obs.capacity, then.capacity), NEW other
    PROVE  Harsher(GoalFinding(base, obs), GoalFinding(base, then), other)
<1> PICK C, D : C = GoalChecks(base, obs) /\ D = GoalChecks(base, then)
  OBVIOUS
<1>1. ASSUME NEW now
      PROVE  GoalFinding(base, now)
               = Finding("goal_changed",
                         Finds(GoalChecks(base, now)) \/ GoalFunding(base) # GoalFunding(now),
                         IF Lost(base, now) THEN "critical"
                         ELSE IF Warns(GoalChecks(base, now)) THEN "warning" ELSE "notice")
  <2> PICK S : S = {[material |-> x.material, twice |-> x.twice] : x \in GoalChecks(base, now)}
    OBVIOUS
  <2>1. GoalFinding(base, now)
          = Finding("goal_changed",
                    (\E c \in S : c.material) \/ GoalFunding(base) # GoalFunding(now),
                    IF Lost(base, now) THEN "critical"
                    ELSE IF \E c \in S : c.material /\ c.twice THEN "warning" ELSE "notice")
    BY DEF GoalFinding, GoalChecks, Rising, Sinking, Lost
  <2>2. (\E c \in S : c.material) <=> Finds(GoalChecks(base, now))
    BY ChecksAsRecords
  <2>3. (\E c \in S : c.material /\ c.twice) <=> Warns(GoalChecks(base, now))
    BY ChecksAsRecords
  <2> QED
    BY <2>1, <2>2, <2>3 DEF Finding
<1>2. \A c \in C : \E d \in D : Stricter(c, d)
  <2>1. Stricter(Rising(base.target, obs.target, 5, 5000), Rising(base.target, then.target, 5, 5000))
    BY RisingGrows
  <2>2. Stricter(HorizonCheck(base.horizon, obs.horizon), HorizonCheck(base.horizon, then.horizon))
    BY HorizonCheckGrows
  <2>3. Stricter(Sinking(base.savings, obs.savings, 10, 1000),
                 Sinking(base.savings, then.savings, 10, 1000))
    BY SinkingGrows
  <2>4. Stricter(Sinking(base.capacity, obs.capacity, 10, 1000),
                 Sinking(base.capacity, then.capacity, 10, 1000))
    BY SinkingGrows
  <2> QED
    BY <2>1, <2>2, <2>3, <2>4 DEF GoalChecks
<1>3. (Finds(C) => Finds(D)) /\ (Warns(C) => Warns(D))
  BY <1>2, ChecksGrow
<1>4. /\ GoalFunding(base) # GoalFunding(obs) => GoalFunding(base) # GoalFunding(then)
      /\ Lost(base, obs) => Lost(base, then)
  BY GoalsSink DEF Lost, GoalsKeepOrder
<1>5. PICK i \in 1..3 : i = IF Lost(base, obs) THEN 3 ELSE IF Warns(C) THEN 2 ELSE 1
  OBVIOUS
<1>6. PICK j \in 1..3 : j = IF Lost(base, then) THEN 3 ELSE IF Warns(D) THEN 2 ELSE 1
  OBVIOUS
<1>7. i <= j
  BY <1>3, <1>4, <1>5, <1>6
<1>8. PICK m \in BOOLEAN, n \in BOOLEAN :
        /\ m = (Finds(C) \/ GoalFunding(base) # GoalFunding(obs))
        /\ n = (Finds(D) \/ GoalFunding(base) # GoalFunding(then))
        /\ m => n
  BY <1>3, <1>4 DEF Finds
<1>9. Harsher(Finding("goal_changed", m, Severities[i]), Finding("goal_changed", n, Severities[j]), other)
  BY <1>7, <1>8, FindingGrows
<1>10. /\ Severities[i] = IF Lost(base, obs) THEN "critical"
                          ELSE IF Warns(C) THEN "warning" ELSE "notice"
       /\ Severities[j] = IF Lost(base, then) THEN "critical"
                          ELSE IF Warns(D) THEN "warning" ELSE "notice"
  BY <1>5, <1>6 DEF Severities
<1>11. GoalFinding(base, obs) = Finding("goal_changed", m, Severities[i])
  BY <1>1, <1>8, <1>10
<1>12. GoalFinding(base, then) = Finding("goal_changed", n, Severities[j])
  BY <1>1, <1>8, <1>10
<1> QED
  BY <1>9, <1>11, <1>12

(* Figures that are no better than a plan's. *)
NoBetter(f, g) ==
    /\ \A q \in Figures : IF Worsens[q] = "decrease" THEN Sinks(f[q], g[q]) ELSE Sinks(g[q], f[q])
    /\ f["return"] = g["return"]

LEMMA PlansAreTyped ==
    ASSUME NEW f \in PlanFigures
    PROVE  /\ f \in [Figures \union {"return"} -> SUBSET Nat]
           /\ \A q \in Figures \union {"return"} : Optional(f[q], Allowed(q)) /\ Optional(f[q], Nat)
<1>1. \A q : Allowed(q) \subseteq Nat
  BY DEF Allowed
<1>2. /\ f \in [Figures \union {"return"} -> SUBSET Nat]
      /\ \A q \in DOMAIN f : Optional(f[q], Allowed(q))
  BY DEF PlanFigures
<1>3. DOMAIN f = Figures \union {"return"}
  BY <1>2
<1> QED
  BY <1>1, <1>2, <1>3 DEF Optional

LEMMA SinkingValues ==
    /\ Sinks(Missing, Missing)
    /\ \A a, b \in Int : b <= a => Sinks(Some(a), Some(b))
<1>1. Sinks(Missing, Missing)
  BY DEF Sinks, Optional, Or, Given, Missing
<1>2. ASSUME NEW a \in Int, NEW b \in Int, b <= a PROVE Sinks(Some(a), Some(b))
  <2>1. Or(Some(a), 0) = a /\ Or(Some(b), 0) = b
    BY ValueOfSome DEF Or
  <2>2. Given(Some(a)) /\ Given(Some(b))
    BY ValueOfSome
  <2>3. Optional(Some(a), Int) /\ Optional(Some(b), Int)
    BY DEF Optional, Some
  <2> QED
    BY <1>2, <2>1, <2>2, <2>3 DEF Sinks
<1> QED
  BY <1>1, <1>2

LEMMA FiguresAreNumbers ==
    ASSUME NEW f \in PlanFigures, NEW q \in Figures
    PROVE  /\ Or(f[q], 0) \in Nat
           /\ Given(f[q]) => f[q] = Some(Or(f[q], 0)) /\ Value(f[q]) = Or(f[q], 0)
           /\ ~Given(f[q]) => f[q] = Missing
<1>1. Optional(f[q], Nat)
  BY PlansAreTyped
<1>2. Given(f[q]) => f[q] = Some(Or(f[q], 0)) /\ Value(f[q]) = Or(f[q], 0)
  BY <1>1, OptionalValue DEF Or
<1>3. ~Given(f[q]) => f[q] = Missing
  BY DEF Given
<1> QED
  BY <1>1, <1>2, <1>3, OrIsTyped

LEMMA SurplusOfFigures ==
    ASSUME NEW f \in PlanFigures, NEW s, s = CashFlow(Inputs(f).cashFlow).surplus
    PROVE  IF Given(f["income"]) /\ Given(f["essential"]) /\ Given(f["emis"])
             THEN s = Some(Or(f["income"], 0) - Or(f["essential"], 0) - Or(f["emis"], 0))
             ELSE s = Missing
<1> PICK in : in = Inputs(f).cashFlow
  OBVIOUS
<1>1. /\ in.income = f["income"] /\ in.essential = f["essential"] /\ in.emis = f["emis"]
      /\ in.discretionary = (IF Given(f["income"]) THEN Some(0) ELSE Missing)
      /\ in.mandatory = (IF Given(f["income"]) THEN Some(0) ELSE Missing)
  BY DEF Inputs
<1>2. {"income", "essential", "emis"} \subseteq Figures
  BY DEF Figures, Worsens
<1>3. CASE Given(f["income"]) /\ Given(f["essential"]) /\ Given(f["emis"])
  <2>1. PICK i \in Nat, e \in Nat, m \in Nat :
          /\ i = Or(f["income"], 0) /\ i = Value(in.income)
          /\ e = Or(f["essential"], 0) /\ e = Value(in.essential)
          /\ m = Or(f["emis"], 0) /\ m = Value(in.emis)
    BY <1>1, <1>2, <1>3, FiguresAreNumbers
  <2>2. /\ Value(in.discretionary) = 0 /\ Value(in.mandatory) = 0
        /\ Given(in.discretionary) /\ Given(in.mandatory)
    BY <1>1, <1>3, ValueOfSome
  <2>3. ~ \E field \in CashFlowFields : ~Given(in[field])
    BY <1>1, <1>3, <2>2 DEF CashFlowFields
  <2>4. i - (e + 0) - (m + 0) = i - e - m
    OBVIOUS
  <2> QED
    BY <1>3, <2>1, <2>2, <2>3, <2>4 DEF CashFlow
<1>4. CASE ~(Given(f["income"]) /\ Given(f["essential"]) /\ Given(f["emis"]))
  <2>1. \E field \in CashFlowFields : ~Given(in[field])
    BY <1>1, <1>4 DEF CashFlowFields
  <2> QED
    BY <1>4, <2>1 DEF CashFlow
<1> QED
  BY <1>3, <1>4

LEMMA SurplusSinks ==
    ASSUME NEW f \in PlanFigures, NEW g \in PlanFigures, NoBetter(f, g)
    PROVE  Sinks(CashFlow(Inputs(f).cashFlow).surplus, CashFlow(Inputs(g).cashFlow).surplus)
<1>1. /\ {"income", "essential", "emis"} \subseteq Figures
      /\ Worsens["income"] = "decrease" /\ Worsens["essential"] # "decrease"
      /\ Worsens["emis"] # "decrease"
  BY DEF Figures, Worsens
<1>2. Sinks(f["income"], g["income"]) /\ Sinks(g["essential"], f["essential"]) /\ Sinks(g["emis"], f["emis"])
  BY <1>1 DEF NoBetter
<1>3. PICK s, t : s = CashFlow(Inputs(f).cashFlow).surplus /\ t = CashFlow(Inputs(g).cashFlow).surplus
  OBVIOUS
<1>4. CASE Given(f["income"]) /\ Given(f["essential"]) /\ Given(f["emis"])
  <2>1. Given(g["income"]) /\ Given(g["essential"]) /\ Given(g["emis"])
    BY <1>2, <1>4 DEF Sinks
  <2>2. PICK a \in Int, b \in Int :
          /\ a = Or(f["income"], 0) - Or(f["essential"], 0) - Or(f["emis"], 0)
          /\ b = Or(g["income"], 0) - Or(g["essential"], 0) - Or(g["emis"], 0)
          /\ b <= a
    BY <1>2, SinkingIsTyped
  <2>3. s = Some(a) /\ t = Some(b)
    BY <1>3, <1>4, <2>1, <2>2, SurplusOfFigures
  <2> QED
    BY <1>3, <2>2, <2>3, SinkingValues
<1>5. CASE ~(Given(f["income"]) /\ Given(f["essential"]) /\ Given(f["emis"]))
  <2>1. ~(Given(g["income"]) /\ Given(g["essential"]) /\ Given(g["emis"]))
    BY <1>2, <1>5 DEF Sinks
  <2>2. s = Missing /\ t = Missing
    BY <1>3, <1>5, <2>1, SurplusOfFigures
  <2> QED
    BY <1>3, <2>2, SinkingValues
<1> QED
  BY <1>4, <1>5

LEMMA CombinedRises ==
    ASSUME NEW x, NEW y, Sinks(y, x), NEW u \in {Missing, Some(0)}
    PROVE  Sinks(Combined(y, u), Combined(x, u))
<1>1. Or(x, 0) \in Int /\ Or(y, 0) \in Int /\ Or(x, 0) <= Or(y, 0) /\ (Given(x) <=> Given(y))
  BY SinkingIsTyped DEF Sinks
<1>2. Or(u, 0) = 0
  <2>1. Or(Missing, 0) = 0
    BY DEF Or, Given
  <2>2. Or(Some(0), 0) = 0
    BY ValueOfSome DEF Or
  <2> QED
    BY <2>1, <2>2
<1>3. CASE ~Given(x) /\ ~Given(u)
  BY <1>1, <1>3, SinkingValues DEF Combined
<1>4. CASE Given(x) \/ Given(u)
  <2>1. PICK a \in Int, b \in Int : a = Or(y, 0) + Or(u, 0) /\ b = Or(x, 0) + Or(u, 0) /\ b <= a
    BY <1>1, <1>2
  <2>2. Combined(y, u) = Some(a) /\ Combined(x, u) = Some(b)
    BY <1>1, <1>4, <2>1 DEF Combined
  <2> QED
    BY <2>1, <2>2, SinkingValues
<1> QED
  BY <1>3, <1>4

(* A runway needs a need. *)
LEMMA RunwayOfFigures ==
    ASSUME NEW f \in PlanFigures, NEW r, r = EmergencyFund(Inputs(f).emergencyFund).runway
    PROVE  IF Given(f["need"]) /\ Given(f["reserves"]) /\ Or(f["need"], 0) # 0
             THEN r = Some(RoundHalfUp(Or(f["reserves"], 0) * 10000, Or(f["need"], 0)))
             ELSE r = Missing
<1> PICK in : in = Inputs(f).emergencyFund
  OBVIOUS
<1>1. /\ in.essential = f["need"] /\ in.reserves = f["reserves"]
      /\ in.emis = (IF Given(f["need"]) THEN Some(0) ELSE Missing)
      /\ in.mandatory = (IF Given(f["need"]) THEN Some(0) ELSE Missing)
      /\ in.stability = (IF Given(f["need"]) THEN Some("stable") ELSE Missing)
      /\ in.dependents = (IF Given(f["need"]) THEN Some(0) ELSE Missing)
  BY DEF Inputs
<1>2. {"need", "reserves"} \subseteq Figures
  BY DEF Figures, Worsens
<1>3. CASE Given(f["need"]) /\ Given(f["reserves"])
  <2>1. PICK n \in Nat, s \in Nat :
          /\ n = Or(f["need"], 0) /\ n = Value(in.essential)
          /\ s = Or(f["reserves"], 0) /\ s = Value(in.reserves)
    BY <1>1, <1>2, <1>3, FiguresAreNumbers
  <2>2. /\ Value(in.emis) = 0 /\ Value(in.mandatory) = 0
        /\ Given(in.emis) /\ Given(in.mandatory) /\ Given(in.stability) /\ Given(in.dependents)
    BY <1>1, <1>3, ValueOfSome
  <2>3. ~ \E field \in EmergencyFields : ~Given(in[field])
    BY <1>1, <1>3, <2>2 DEF EmergencyFields
  <2>4. n + 0 + 0 = n
    OBVIOUS
  <2>5. r = IF n = 0 THEN Missing ELSE Some(RoundHalfUp(s * 10000, n))
    BY <2>1, <2>2, <2>3, <2>4 DEF EmergencyFund
  <2> QED
    BY <1>3, <2>1, <2>5
<1>4. CASE ~(Given(f["need"]) /\ Given(f["reserves"]))
  <2>1. \E field \in EmergencyFields : ~Given(in[field])
    BY <1>1, <1>4 DEF EmergencyFields
  <2> QED
    BY <1>4, <2>1 DEF EmergencyFund
<1> QED
  BY <1>3, <1>4

LEMMA RunwaySinks ==
    ASSUME NEW f \in PlanFigures, NEW g \in PlanFigures, NoBetter(f, g), f["need"] # Some(0)
    PROVE  Sinks(EmergencyFund(Inputs(f).emergencyFund).runway,
                 EmergencyFund(Inputs(g).emergencyFund).runway)
<1>1. /\ {"need", "reserves"} \subseteq Figures
      /\ Worsens["reserves"] = "decrease" /\ Worsens["need"] # "decrease"
  BY DEF Figures, Worsens
<1>2. Sinks(f["reserves"], g["reserves"]) /\ Sinks(g["need"], f["need"])
  BY <1>1 DEF NoBetter
<1>3. PICK s, t : /\ s = EmergencyFund(Inputs(f).emergencyFund).runway
                  /\ t = EmergencyFund(Inputs(g).emergencyFund).runway
  OBVIOUS
<1>4. CASE Given(f["need"]) /\ Given(f["reserves"])
  <2>1. Given(g["need"]) /\ Given(g["reserves"])
    BY <1>2, <1>4 DEF Sinks
  <2>2. PICK n \in Nat \ {0}, k \in Nat \ {0} : n = Or(f["need"], 0) /\ k = Or(g["need"], 0) /\ n <= k
    <3>1. Or(f["need"], 0) \in Nat /\ Or(g["need"], 0) \in Nat /\ f["need"] = Some(Or(f["need"], 0))
      BY <1>1, <1>4, FiguresAreNumbers
    <3>2. Or(f["need"], 0) # 0
      BY <3>1
    <3>3. Or(f["need"], 0) <= Or(g["need"], 0)
      BY <1>2, SinkingIsTyped
    <3> QED
      BY <3>1, <3>2, <3>3
  <2>3. PICK a \in Nat, b \in Nat : /\ a = Or(f["reserves"], 0) * 10000
                                    /\ b = Or(g["reserves"], 0) * 10000 /\ b <= a
    <3>1. Or(f["reserves"], 0) \in Nat /\ Or(g["reserves"], 0) \in Nat
      BY <1>1, FiguresAreNumbers
    <3>2. Or(g["reserves"], 0) <= Or(f["reserves"], 0)
      BY <1>2, SinkingIsTyped
    <3> QED
      BY <3>1, <3>2
  <2>4. b * n <= a * k
    <3>1. b * n <= a * n /\ a * n <= a * k
      BY <2>2, <2>3
    <3>2. b * n \in Int /\ a * n \in Int /\ a * k \in Int
      OBVIOUS
    <3> QED
      BY <3>1, <3>2
  <2>5. PICK x \in Int, y \in Int : x = RoundHalfUp(a, n) /\ y = RoundHalfUp(b, k) /\ y <= x
    <3>1. RoundHalfUp(b, k) <= RoundHalfUp(a, n)
      BY <2>4, RoundingIsMonotone
    <3>2. RoundHalfUp(a, n) \in Int /\ RoundHalfUp(b, k) \in Int
      BY RoundingIsTyped
    <3> QED
      BY <3>1, <3>2
  <2>6. s = Some(x) /\ t = Some(y)
    BY <1>3, <1>4, <2>1, <2>2, <2>3, <2>5, RunwayOfFigures
  <2> QED
    BY <1>3, <2>5, <2>6, SinkingValues
<1>5. CASE ~(Given(f["need"]) /\ Given(f["reserves"]))
  <2>1. ~(Given(g["need"]) /\ Given(g["reserves"]))
    BY <1>2, <1>5 DEF Sinks
  <2>2. s = Missing /\ t = Missing
    BY <1>3, <1>5, <2>1, RunwayOfFigures
  <2> QED
    BY <1>3, <2>2, SinkingValues
<1> QED
  BY <1>4, <1>5

LEMMA NetWorthOfFigures ==
    ASSUME NEW f \in PlanFigures, NEW w, w = NetWorth(Inputs(f).netWorth)
    PROVE  IF Given(f["assets"]) /\ Given(f["liabilities"])
             THEN w = Some(Or(f["assets"], 0) - Or(f["liabilities"], 0))
             ELSE w = Missing
<1> DEFINE item(o) == IF Given(o) THEN Some(<<[value |-> Value(o)]>>) ELSE Missing
<1>1. /\ Inputs(f).netWorth.assets = item(f["assets"])
      /\ Inputs(f).netWorth.liabilities = item(f["liabilities"])
  BY DEF Inputs
<1>2. {"assets", "liabilities"} \subseteq Figures
  BY DEF Figures, Worsens
<1>3. ASSUME NEW v \in Int PROVE Total(<<[value |-> v]>>) = v
  <2> DEFINE R == {[value |-> v]}
  <2>1. /\ <<>> \in Seq(R) /\ [value |-> v] \in R
        /\ Append(<<>>, [value |-> v]) = <<[value |-> v]>>
        /\ \A r \in R : r["value"] \in Int
    OBVIOUS
  <2> HIDE DEF R
  <2>2. SumOf(Append(<<>>, [value |-> v]), "value") = SumOf(<<>>, "value") + [value |-> v]["value"]
    BY <2>1, SumOfAppend, ZenonT(20)
  <2>3. SumOf(<<>>, "value") = 0
    BY SumOfNothing
  <2> QED
    BY <2>1, <2>2, <2>3 DEF Total
<1>4. ASSUME NEW q \in {"assets", "liabilities"}, Given(f[q])
      PROVE  Given(item(f[q])) /\ Total(Value(item(f[q]))) = Or(f[q], 0)
  <2>1. PICK v \in Int : v = Value(f[q]) /\ v = Or(f[q], 0)
    BY <1>2, <1>4, FiguresAreNumbers
  <2>2. item(f[q]) = Some(<<[value |-> v]>>)
    BY <1>4, <2>1
  <2> HIDE DEF item
  <2> QED
    BY <1>3, <2>1, <2>2, ValueOfSome
<1>5. \A q \in {"assets", "liabilities"} : ~Given(f[q]) => ~Given(item(f[q]))
  BY DEF Given
<1> HIDE DEF item
<1> QED
  BY <1>1, <1>4, <1>5 DEF NetWorth

LEMMA NetWorthSinks ==
    ASSUME NEW f \in PlanFigures, NEW g \in PlanFigures, NoBetter(f, g)
    PROVE  Sinks(NetWorth(Inputs(f).netWorth), NetWorth(Inputs(g).netWorth))
<1>1. /\ {"assets", "liabilities"} \subseteq Figures
      /\ Worsens["assets"] = "decrease" /\ Worsens["liabilities"] # "decrease"
  BY DEF Figures, Worsens
<1>2. Sinks(f["assets"], g["assets"]) /\ Sinks(g["liabilities"], f["liabilities"])
  BY <1>1 DEF NoBetter
<1>3. PICK s, t : s = NetWorth(Inputs(f).netWorth) /\ t = NetWorth(Inputs(g).netWorth)
  OBVIOUS
<1>4. CASE Given(f["assets"]) /\ Given(f["liabilities"])
  <2>1. Given(g["assets"]) /\ Given(g["liabilities"])
    BY <1>2, <1>4 DEF Sinks
  <2>2. PICK a \in Int, b \in Int :
          /\ a = Or(f["assets"], 0) - Or(f["liabilities"], 0)
          /\ b = Or(g["assets"], 0) - Or(g["liabilities"], 0)
          /\ b <= a
    BY <1>2, SinkingIsTyped
  <2>3. s = Some(a) /\ t = Some(b)
    BY <1>3, <1>4, <2>1, <2>2, NetWorthOfFigures
  <2> QED
    BY <1>3, <2>2, <2>3, SinkingValues
<1>5. CASE ~(Given(f["assets"]) /\ Given(f["liabilities"]))
  <2>1. ~(Given(g["assets"]) /\ Given(g["liabilities"]))
    BY <1>2, <1>5 DEF Sinks
  <2>2. s = Missing /\ t = Missing
    BY <1>3, <1>5, <2>1, NetWorthOfFigures
  <2> QED
    BY <1>3, <2>2, SinkingValues
<1> QED
  BY <1>4, <1>5

(* Different figures make different inputs. *)
LEMMA InputsDiffer ==
    ASSUME NEW f \in PlanFigures, NEW g \in PlanFigures, Inputs(f) = Inputs(g)
    PROVE  f = g
<1> DEFINE item(o) == IF Given(o) THEN Some(<<[value |-> Value(o)]>>) ELSE Missing
<1>1. /\ f["income"] = g["income"] /\ f["essential"] = g["essential"] /\ f["emis"] = g["emis"]
      /\ f["need"] = g["need"] /\ f["reserves"] = g["reserves"] /\ f["sip"] = g["sip"]
      /\ f["principal"] = g["principal"] /\ f["rate"] = g["rate"] /\ f["tenure"] = g["tenure"]
      /\ f["target"] = g["target"] /\ f["horizon"] = g["horizon"] /\ f["savings"] = g["savings"]
      /\ f["capacity"] = g["capacity"] /\ f["inflation"] = g["inflation"]
      /\ f["return"] = g["return"]
  <2>1. /\ Inputs(f).cashFlow = Inputs(g).cashFlow
        /\ Inputs(f).emergencyFund = Inputs(g).emergencyFund
        /\ Inputs(f).sip = Inputs(g).sip
        /\ Inputs(f).loan = Inputs(g).loan
        /\ Inputs(f).goal = Inputs(g).goal
    OBVIOUS
  <2>2. f["income"] = g["income"] /\ f["essential"] = g["essential"] /\ f["emis"] = g["emis"]
    <3>1. \A h \in {f, g} : /\ Inputs(h).cashFlow.income = h["income"]
                            /\ Inputs(h).cashFlow.essential = h["essential"]
                            /\ Inputs(h).cashFlow.emis = h["emis"]
      BY DEF Inputs
    <3> QED
      BY <2>1, <3>1
  <2>3. f["need"] = g["need"] /\ f["reserves"] = g["reserves"] /\ f["sip"] = g["sip"]
    <3>1. \A h \in {f, g} : /\ Inputs(h).emergencyFund.essential = h["need"]
                            /\ Inputs(h).emergencyFund.reserves = h["reserves"]
                            /\ Inputs(h).sip = h["sip"]
      BY DEF Inputs
    <3> QED
      BY <2>1, <3>1
  <2>4. f["principal"] = g["principal"] /\ f["rate"] = g["rate"] /\ f["tenure"] = g["tenure"]
    <3>1. \A h \in {f, g} : /\ Inputs(h).loan.principal = h["principal"]
                            /\ Inputs(h).loan.rate = h["rate"]
                            /\ Inputs(h).loan.tenure = h["tenure"]
      BY DEF Inputs
    <3> QED
      BY <2>1, <3>1
  <2>5. /\ f["target"] = g["target"] /\ f["horizon"] = g["horizon"]
        /\ f["savings"] = g["savings"] /\ f["capacity"] = g["capacity"]
        /\ f["inflation"] = g["inflation"] /\ f["return"] = g["return"]
    <3>1. \A h \in {f, g} : /\ Inputs(h).goal.target = h["target"]
                            /\ Inputs(h).goal.horizon = h["horizon"]
                            /\ Inputs(h).goal.savings = h["savings"]
                            /\ Inputs(h).goal.capacity = h["capacity"]
                            /\ Inputs(h).goal.inflation = h["inflation"]
                            /\ Inputs(h).goal.return = h["return"]
      BY DEF Inputs
    <3> QED
      BY <2>1, <3>1
  <2> QED
    BY <2>2, <2>3, <2>4, <2>5
<1>2. ASSUME NEW q \in {"assets", "liabilities"} PROVE f[q] = g[q]
  <2>1. item(f[q]) = item(g[q])
    <3>1. \A h \in {f, g} : /\ Inputs(h).netWorth.assets = item(h["assets"])
                            /\ Inputs(h).netWorth.liabilities = item(h["liabilities"])
      BY DEF Inputs
    <3> HIDE DEF item
    <3> QED
      BY <3>1
  <2>2. q \in Figures
    BY DEF Figures, Worsens
  <2>3. Given(f[q]) <=> Given(g[q])
    <3>1. \A o : Given(item(o)) <=> Given(o)
      BY ValueOfSome DEF Given
    <3> HIDE DEF item
    <3> QED
      BY <2>1, <3>1
  <2>4. CASE Given(f[q])
    <3>1. Some(<<[value |-> Value(f[q])]>>) = Some(<<[value |-> Value(g[q])]>>)
      BY <2>1, <2>3, <2>4
    <3>2. <<[value |-> Value(f[q])]>> = <<[value |-> Value(g[q])]>>
      BY <3>1 DEF Some
    <3>3. Value(f[q]) = Value(g[q])
      BY <3>2
    <3> QED
      BY <2>2, <2>3, <2>4, <3>3, FiguresAreNumbers
  <2>5. CASE ~Given(f[q])
    BY <2>2, <2>3, <2>5, FiguresAreNumbers
  <2> QED
    BY <2>4, <2>5
<1>3. \A q \in Figures \union {"return"} : f[q] = g[q]
  BY <1>1, <1>2 DEF Figures, Worsens
<1> QED
  BY <1>3, PlansAreTyped

LEMMA NoBetterBothWays ==
    ASSUME NEW f \in PlanFigures, NEW g \in PlanFigures, NoBetter(f, g), NoBetter(g, f)
    PROVE  f = g
<1>1. ASSUME NEW q \in Figures PROVE f[q] = g[q]
  <2>1. Sinks(f[q], g[q]) /\ Sinks(g[q], f[q])
    BY DEF NoBetter
  <2>2. Or(f[q], 0) = Or(g[q], 0) /\ (Given(f[q]) <=> Given(g[q]))
    <3>1. /\ Or(f[q], 0) \in Int /\ Or(g[q], 0) \in Int
          /\ Or(f[q], 0) <= Or(g[q], 0) /\ Or(g[q], 0) <= Or(f[q], 0)
      BY <2>1, SinkingIsTyped
    <3> QED
      BY <2>1, <3>1 DEF Sinks
  <2> QED
    BY <2>2, FiguresAreNumbers
<1>2. f["return"] = g["return"]
  BY DEF NoBetter
<1> QED
  BY <1>1, <1>2, PlansAreTyped

LEMMA UnionGrows ==
    ASSUME NEW C, NEW D, NEW code, \A F \in C : \E G \in D : Harsher(F, G, code)
    PROVE  Harsher(UNION C, UNION D, code)
BY DEF Harsher

(* No goal is wanted sooner at a price that inflation would have raised, or *)
(* it is judged as before.                                                  *)
GoalsAsWanted(base, f, g) ==
    \/ GoalFunding(Inputs(f).goal) = GoalFunding(Inputs(g).goal)
    \/ Inflation(g) = 0
    \/ g["horizon"] = base["horizon"]

LEMMA GoalOfFigures ==
    ASSUME NEW h \in PlanFigures
    PROVE  /\ Inputs(h).goal.target = h["target"] /\ Inputs(h).goal.horizon = h["horizon"]
           /\ Inputs(h).goal.savings = h["savings"] /\ Inputs(h).goal.capacity = h["capacity"]
           /\ GoalInflation(Inputs(h).goal) = Inflation(h)
           /\ GoalReturn(Inputs(h).goal) = Or(h["return"], PolicyReturn)
           /\ GoalInput(Inputs(h).goal)
<1> PICK in : in = Inputs(h).goal
  OBVIOUS
<1>1. /\ in.target = h["target"] /\ in.horizon = h["horizon"]
      /\ in.savings = h["savings"] /\ in.capacity = h["capacity"]
      /\ in.inflation = h["inflation"] /\ in.return = h["return"] /\ in.category = "general"
  BY DEF Inputs
<1>2. {"target", "horizon", "savings", "capacity", "inflation"} \subseteq Figures
  BY DEF Figures, Worsens
<1>3. Allowed("target") = Nat \ {0} /\ Allowed("horizon") = Nat \ {0}
  BY DEF Allowed
<1>4. GoalInput(in)
  <2>1. \A q \in Figures \union {"return"} : Optional(h[q], Allowed(q)) /\ Optional(h[q], Nat)
    BY PlansAreTyped
  <2>2. Optional(h["target"], Nat \ {0}) /\ Optional(h["horizon"], Nat \ {0})
    BY <1>2, <1>3, <2>1, Zenon
  <2>3. /\ Optional(h["savings"], Nat) /\ Optional(h["capacity"], Nat)
        /\ Optional(h["inflation"], Nat) /\ Optional(h["return"], Nat)
    BY <1>2, <2>1, Zenon
  <2>4. in.category \in DOMAIN PolicyInflation
    BY <1>1, FiguresAssumption, Zenon
  <2> QED
    BY <1>1, <2>2, <2>3, <2>4, Zenon DEF GoalInput
<1>5. GoalInflation(in) = Inflation(h) /\ GoalReturn(in) = Or(h["return"], PolicyReturn)
  BY <1>1 DEF GoalInflation, GoalReturn, Inflation
<1> QED
  BY <1>1, <1>4, <1>5

LEMMA GoalsGetPoorer ==
    ASSUME NEW f \in PlanFigures, NEW g \in PlanFigures, NoBetter(f, g)
    PROVE  /\ Poorer(Inputs(f).goal, Inputs(g).goal)
           /\ Inflation(f) \in Nat /\ Inflation(g) \in Nat /\ Inflation(f) <= Inflation(g)
<1>1. /\ {"target", "horizon", "savings", "capacity", "inflation"} \subseteq Figures
      /\ \A q \in {"horizon", "savings", "capacity"} : Worsens[q] = "decrease"
      /\ \A q \in {"target", "inflation"} : Worsens[q] # "decrease"
  BY DEF Figures, Worsens
<1>2. /\ \A q \in {"horizon", "savings", "capacity"} : Sinks(f[q], g[q])
      /\ \A q \in {"target", "inflation"} : Sinks(g[q], f[q])
      /\ f["return"] = g["return"]
  BY <1>1 DEF NoBetter
<1>3. PICK p \in Nat : p = PolicyInflation["general"]
  BY FiguresAssumption, EngineAssumption
<1>4. Inflation(f) \in Nat /\ Inflation(g) \in Nat /\ Inflation(f) <= Inflation(g)
  <2>1. Or(f["inflation"], 0) \in Nat /\ Or(g["inflation"], 0) \in Nat
    BY <1>1, FiguresAreNumbers
  <2>2. Or(f["inflation"], 0) <= Or(g["inflation"], 0)
    BY <1>2, SinkingIsTyped
  <2>3. Given(f["inflation"]) <=> Given(g["inflation"])
    BY <1>2 DEF Sinks
  <2>4. CASE Given(f["inflation"])
    BY <2>1, <2>2, <2>3, <2>4 DEF Inflation, Or
  <2>5. CASE ~Given(f["inflation"])
    BY <1>3, <2>3, <2>5 DEF Inflation, Or
  <2> QED
    BY <2>4, <2>5
<1>5. Poorer(Inputs(f).goal, Inputs(g).goal)
  BY <1>2, <1>4, GoalOfFigures DEF Poorer
<1> QED
  BY <1>4, <1>5

LEMMA GoalsWantedKeepOrder ==
    ASSUME NEW base \in PlanFigures, NEW f \in PlanFigures, NEW g \in PlanFigures,
           NoBetter(base, f), NoBetter(f, g), GoalsAsWanted(base, f, g)
    PROVE  GoalsKeepOrder(Inputs(base).goal, Inputs(f).goal, Inputs(g).goal)
<1>1. CASE GoalFunding(Inputs(f).goal) = GoalFunding(Inputs(g).goal)
  BY <1>1 DEF GoalsKeepOrder
<1>2. CASE GoalFunding(Inputs(f).goal) # GoalFunding(Inputs(g).goal)
  <2>1. /\ Poorer(Inputs(base).goal, Inputs(f).goal) /\ Poorer(Inputs(f).goal, Inputs(g).goal)
        /\ Inflation(f) \in Nat /\ Inflation(g) \in Nat /\ Inflation(f) <= Inflation(g)
    BY GoalsGetPoorer
  <2>2. /\ Or(base["horizon"], 0) = Or(f["horizon"], 0) \/ Inflation(f) = 0
        /\ Or(f["horizon"], 0) = Or(g["horizon"], 0) \/ Inflation(g) = 0
    <3>1. CASE Inflation(g) = 0
      BY <2>1, <3>1
    <3>2. CASE g["horizon"] = base["horizon"]
      <4>1. Worsens["horizon"] = "decrease" /\ "horizon" \in Figures
        BY DEF Figures, Worsens
      <4>2. Sinks(base["horizon"], f["horizon"]) /\ Sinks(f["horizon"], g["horizon"])
        BY <4>1 DEF NoBetter
      <4>3. PICK a \in Nat, b \in Nat : a = Or(base["horizon"], 0) /\ b = Or(f["horizon"], 0)
        BY <4>1, FiguresAreNumbers
      <4>4. b <= a /\ a <= b
        BY <3>2, <4>2, <4>3, SinkingIsTyped
      <4> QED
        BY <3>2, <4>3, <4>4
    <3> QED
      BY <1>2, <3>1, <3>2 DEF GoalsAsWanted
  <2>3. \A h \in {base, f, g} : /\ GoalInput(Inputs(h).goal) /\ Inputs(h).goal.horizon = h["horizon"]
                                /\ GoalInflation(Inputs(h).goal) = Inflation(h)
    BY GoalOfFigures
  <2>4. NoMilder(GoalFunding(Inputs(base).goal), GoalFunding(Inputs(f).goal))
    BY <2>1, <2>2, <2>3, PoorerGoals
  <2>5. NoMilder(GoalFunding(Inputs(f).goal), GoalFunding(Inputs(g).goal))
    BY <2>1, <2>2, <2>3, PoorerGoals
  <2> QED
    BY <2>4, <2>5 DEF GoalsKeepOrder
<1> QED
  BY <1>1, <1>2

(* All nine comparisons judge worse figures no milder. *)
LEMMA ComparisonGrows ==
    ASSUME NEW base \in PlanFigures, NEW f \in PlanFigures, NEW g \in PlanFigures,
           NoBetter(base, f), NoBetter(f, g), NEW code,
           code = "reserve_runway_changed" => base["need"] # Some(0),
           code = "goal_changed" => GoalsAsWanted(base, f, g)
    PROVE  Harsher(Compare(Inputs(base), Inputs(f)), Compare(Inputs(base), Inputs(g)), code)
<1> PICK B, O, T : B = Inputs(base) /\ O = Inputs(f) /\ T = Inputs(g)
  OBVIOUS
<1> DEFINE Spending(in) == Combined(in.cashFlow.essential, in.cashFlow.discretionary)
           Obligations(in) == Combined(in.cashFlow.emis, in.cashFlow.mandatory)
           Part1(in) == Checked("income_changed",
                                Sinking(B.cashFlow.income, in.cashFlow.income, 5, 1000))
           Part2(in) == Checked("spending_changed", Rising(Spending(B), Spending(in), 10, 2000))
           Part3(in) == Checked("obligations_changed", Rising(Obligations(B), Obligations(in), 5, 1000))
           Part4(in) == CheckedSign("surplus_changed",
                          Turning(CashFlow(B.cashFlow).surplus, CashFlow(in.cashFlow).surplus, 10, 1000))
           Part5(in) == RunwayFinding(EmergencyFund(B.emergencyFund).runway,
                                      EmergencyFund(in.emergencyFund).runway)
           Part6(in) == Checked("investment_contribution_changed", Sinking(B.sip, in.sip, 10, 1000))
           Part7(in) == DebtFinding(B.loan, in.loan)
           Part8(in) == GoalFinding(B.goal, in.goal)
           Part9(in) == CheckedSign("net_worth_changed",
                          Turning(NetWorth(B.netWorth), NetWorth(in.netWorth), 10, 10000))
<1>1. ASSUME NEW in
      PROVE  Compare(B, in) = UNION {Part1(in), Part2(in), Part3(in), Part4(in), Part5(in),
                                     Part6(in), Part7(in), Part8(in), Part9(in)}
  BY DEF Compare, Sinking, Rising, Turning
<1>2. /\ Figures = {"income", "essential", "emis", "need", "reserves", "sip", "principal", "rate",
                    "tenure", "target", "horizon", "savings", "capacity", "inflation", "assets",
                    "liabilities"}
      /\ \A q \in {"income", "reserves", "sip", "horizon", "savings", "capacity", "assets"} :
           Worsens[q] = "decrease"
      /\ \A q \in {"essential", "emis", "need", "principal", "rate", "tenure", "target", "liabilities"} :
           Worsens[q] # "decrease"
  BY DEF Figures, Worsens
<1>3. /\ \A q \in {"income", "reserves", "sip", "horizon", "savings", "capacity", "assets"} :
           Sinks(base[q], f[q]) /\ Sinks(f[q], g[q])
      /\ \A q \in {"essential", "emis", "need", "principal", "rate", "tenure", "target", "liabilities"} :
           Sinks(f[q], base[q]) /\ Sinks(g[q], f[q])
  BY <1>2 DEF NoBetter
<1>4. \A h \in {base, f, g} :
        /\ Inputs(h).cashFlow.income = h["income"]
        /\ Inputs(h).cashFlow.essential = h["essential"]
        /\ Inputs(h).cashFlow.emis = h["emis"]
        /\ Inputs(h).cashFlow.discretionary = (IF Given(h["income"]) THEN Some(0) ELSE Missing)
        /\ Inputs(h).cashFlow.mandatory = (IF Given(h["income"]) THEN Some(0) ELSE Missing)
        /\ Inputs(h).sip = h["sip"]
  BY DEF Inputs
<1>5. \A h \in {base, f, g} :
        /\ Inputs(h).loan.principal = h["principal"] /\ Inputs(h).loan.rate = h["rate"]
        /\ Inputs(h).loan.tenure = h["tenure"] /\ Inputs(h).loan.extras = {}
        /\ Inputs(h).goal.target = h["target"] /\ Inputs(h).goal.horizon = h["horizon"]
        /\ Inputs(h).goal.savings = h["savings"] /\ Inputs(h).goal.capacity = h["capacity"]
  BY DEF Inputs
<1>6. Harsher(Part1(O), Part1(T), code)
  <2>1. Sinks(B.cashFlow.income, O.cashFlow.income) /\ Sinks(O.cashFlow.income, T.cashFlow.income)
    BY <1>3, <1>4
  <2>2. Stricter(Sinking(B.cashFlow.income, O.cashFlow.income, 5, 1000),
                 Sinking(B.cashFlow.income, T.cashFlow.income, 5, 1000))
    BY <2>1, SinkingGrows
  <2> QED
    BY <2>2, CheckedGrows
<1>7. PICK u \in {Missing, Some(0)} :
        \A in \in {B, O, T} : in.cashFlow.discretionary = u /\ in.cashFlow.mandatory = u
  <2>1. (Given(base["income"]) <=> Given(f["income"])) /\ (Given(base["income"]) <=> Given(g["income"]))
    BY <1>3 DEF Sinks
  <2> QED
    BY <1>4, <2>1
<1>8. Harsher(Part2(O), Part2(T), code)
  <2>1. Sinks(Spending(O), Spending(B)) /\ Sinks(Spending(T), Spending(O))
    BY <1>3, <1>4, <1>7, CombinedRises
  <2> HIDE DEF Spending
  <2>2. Stricter(Rising(Spending(B), Spending(O), 10, 2000), Rising(Spending(B), Spending(T), 10, 2000))
    BY <2>1, RisingGrows
  <2> QED
    BY <2>2, CheckedGrows
<1>9. Harsher(Part3(O), Part3(T), code)
  <2>1. Sinks(Obligations(O), Obligations(B)) /\ Sinks(Obligations(T), Obligations(O))
    BY <1>3, <1>4, <1>7, CombinedRises
  <2> HIDE DEF Obligations
  <2>2. Stricter(Rising(Obligations(B), Obligations(O), 5, 1000),
                 Rising(Obligations(B), Obligations(T), 5, 1000))
    BY <2>1, RisingGrows
  <2> QED
    BY <2>2, CheckedGrows
<1>10. Harsher(Part4(O), Part4(T), code)
  <2> PICK s, t, v : /\ s = CashFlow(B.cashFlow).surplus /\ t = CashFlow(O.cashFlow).surplus
                     /\ v = CashFlow(T.cashFlow).surplus
    OBVIOUS
  <2>1. Sinks(s, t) /\ Sinks(t, v)
    BY SurplusSinks
  <2> PICK c, d : c = Turning(s, t, 10, 1000) /\ d = Turning(s, v, 10, 1000)
    OBVIOUS
  <2>2. Stricter(c, d) /\ StaysNegative(c, d)
    BY <2>1, TurningGrows
  <2> QED
    BY <2>2, CheckedSignGrows
<1>11. Harsher(Part5(O), Part5(T), code)
  <2>1. CASE code = "reserve_runway_changed"
    <3>1. base["need"] # Some(0)
      BY <2>1
    <3>2. f["need"] # Some(0)
      <4>1. SUFFICES ASSUME f["need"] = Some(0) PROVE FALSE
        OBVIOUS
      <4>2. Given(f["need"]) /\ Or(f["need"], 0) = 0
        BY <4>1, ValueOfSome DEF Or
      <4>3. Given(base["need"]) /\ Or(base["need"], 0) <= 0
        BY <1>3, <4>2, SinkingIsTyped DEF Sinks
      <4>4. Or(base["need"], 0) \in Nat /\ base["need"] = Some(Or(base["need"], 0))
        BY <1>2, <4>3, FiguresAreNumbers
      <4>5. Or(base["need"], 0) = 0
        BY <4>3, <4>4
      <4> QED
        BY <3>1, <4>4, <4>5
    <3>3. /\ Sinks(EmergencyFund(B.emergencyFund).runway, EmergencyFund(O.emergencyFund).runway)
          /\ Sinks(EmergencyFund(O.emergencyFund).runway, EmergencyFund(T.emergencyFund).runway)
      BY <3>1, <3>2, RunwaySinks
    <3> QED
      BY <3>3, RunwayFindingGrows
  <2>2. CASE code # "reserve_runway_changed"
    <3>1. \A i \in 1..3 : [code |-> code, severity |-> Severities[i]] \notin Part5(O)
      BY <2>2 DEF RunwayFinding, Finding
    <3> QED
      BY <3>1 DEF Harsher
  <2> QED
    BY <2>1, <2>2
<1>12. Harsher(Part6(O), Part6(T), code)
  <2>1. Sinks(B.sip, O.sip) /\ Sinks(O.sip, T.sip)
    BY <1>3, <1>4
  <2>2. Stricter(Sinking(B.sip, O.sip, 10, 1000), Sinking(B.sip, T.sip, 10, 1000))
    BY <2>1, SinkingGrows
  <2> QED
    BY <2>2, CheckedGrows
<1>13. Harsher(Part7(O), Part7(T), code)
  <2>1. /\ \A field \in {"principal", "rate", "tenure"} :
             Sinks(O.loan[field], B.loan[field]) /\ Sinks(T.loan[field], O.loan[field])
        /\ O.loan.extras = B.loan.extras /\ T.loan.extras = B.loan.extras
    BY <1>3, <1>5
  <2> QED
    BY <2>1, DebtFindingGrows
<1>14. Harsher(Part8(O), Part8(T), code)
  <2>1. CASE code = "goal_changed"
    <3>1. GoalsKeepOrder(B.goal, O.goal, T.goal)
      BY <2>1, GoalsWantedKeepOrder
    <3>2. /\ Sinks(O.goal.target, B.goal.target) /\ Sinks(T.goal.target, O.goal.target)
          /\ Sinks(B.goal.horizon, O.goal.horizon) /\ Sinks(O.goal.horizon, T.goal.horizon)
          /\ Sinks(B.goal.savings, O.goal.savings) /\ Sinks(O.goal.savings, T.goal.savings)
          /\ Sinks(B.goal.capacity, O.goal.capacity) /\ Sinks(O.goal.capacity, T.goal.capacity)
      BY <1>3, <1>5
    <3> QED
      BY <3>1, <3>2, GoalFindingGrows
  <2>2. CASE code # "goal_changed"
    <3>1. \A i \in 1..3 : [code |-> code, severity |-> Severities[i]] \notin Part8(O)
      BY <2>2, ZenonT(20) DEF GoalFinding, Finding
    <3> QED
      BY <3>1 DEF Harsher
  <2> QED
    BY <2>1, <2>2
<1>15. Harsher(Part9(O), Part9(T), code)
  <2> PICK s, t, v : s = NetWorth(B.netWorth) /\ t = NetWorth(O.netWorth) /\ v = NetWorth(T.netWorth)
    OBVIOUS
  <2>1. Sinks(s, t) /\ Sinks(t, v)
    BY NetWorthSinks
  <2> PICK c, d : c = Turning(s, t, 10, 10000) /\ d = Turning(s, v, 10, 10000)
    OBVIOUS
  <2>2. Stricter(c, d) /\ StaysNegative(c, d)
    BY <2>1, TurningGrows
  <2> QED
    BY <2>2, CheckedSignGrows
<1> HIDE DEF Part1, Part2, Part3, Part4, Part5, Part6, Part7, Part8, Part9
<1> DEFINE Parts(in) == {Part1(in), Part2(in), Part3(in), Part4(in), Part5(in),
                         Part6(in), Part7(in), Part8(in), Part9(in)}
<1>16. \A F \in Parts(O) : \E G \in Parts(T) : Harsher(F, G, code)
  BY <1>6, <1>8, <1>9, <1>10, <1>11, <1>12, <1>13, <1>14, <1>15
<1>17. Compare(B, O) = UNION Parts(O) /\ Compare(B, T) = UNION Parts(T)
  BY <1>1
<1> PICK C, D : C = Parts(O) /\ D = Parts(T)
  OBVIOUS
<1> HIDE DEF Parts
<1>18. Harsher(UNION C, UNION D, code)
  BY <1>16, UnionGrows
<1> QED
  BY <1>17, <1>18

LEMMA DriftGrows ==
    ASSUME NEW base \in PlanFigures, NEW f \in PlanFigures, NEW g \in PlanFigures,
           NoBetter(base, f), NoBetter(f, g), NEW code,
           code = "reserve_runway_changed" => base["need"] # Some(0),
           code = "goal_changed" => GoalsAsWanted(base, f, g)
    PROVE  Harsher(CompareDrift(Inputs(base), Inputs(f)), CompareDrift(Inputs(base), Inputs(g)), code)
<1>1. CASE Inputs(f) = Inputs(base)
  BY <1>1 DEF CompareDrift, Harsher
<1>2. CASE Inputs(f) # Inputs(base)
  <2>1. Inputs(g) # Inputs(base)
    <3>1. SUFFICES ASSUME Inputs(g) = Inputs(base) PROVE FALSE
      OBVIOUS
    <3>2. g = base
      BY <3>1, InputsDiffer
    <3>3. f = base
      BY <3>2, NoBetterBothWays
    <3> QED
      BY <1>2, <3>3
  <2>2. /\ CompareDrift(Inputs(base), Inputs(f)) = Compare(Inputs(base), Inputs(f))
        /\ CompareDrift(Inputs(base), Inputs(g)) = Compare(Inputs(base), Inputs(g))
    BY <1>2, <2>1 DEF CompareDrift
  <2> QED
    BY <2>2, ComparisonGrows
<1> QED
  BY <1>1, <1>2

(* The observed figures are no better than the plan's, and the answer is *)
(* what the comparator finds in them.                                    *)
Drifted ==
    request.about = "drift" =>
      /\ request.in \in PlanFigures /\ figures \in PlanFigures
      /\ NoBetter(request.in, figures)
      /\ result = Some(Findings(figures))

LEMMA SinksIsReflexive ==
    ASSUME NEW x, Optional(x, Nat)
    PROVE  Sinks(x, x)
<1>1. Or(x, 0) \in Int
  BY OrIsTyped
<1>2. Optional(x, Int)
  BY DEF Optional
<1> QED
  BY <1>1, <1>2 DEF Sinks

LEMMA NoBetterIsTransitive ==
    ASSUME NEW f, NEW g, NEW h, NoBetter(f, g), NoBetter(g, h)
    PROVE  NoBetter(f, h)
<1>1. ASSUME NEW x, NEW y, NEW z, Sinks(x, y), Sinks(y, z) PROVE Sinks(x, z)
  <2>1. Or(x, 0) \in Int /\ Or(y, 0) \in Int /\ Or(z, 0) \in Int /\ Or(y, 0) <= Or(x, 0) /\ Or(z, 0) <= Or(y, 0)
    BY <1>1, SinkingIsTyped
  <2> QED
    BY <1>1, <2>1 DEF Sinks
<1> QED
  BY <1>1 DEF NoBetter

(* A figure that got worse, the others as they were. *)
LEMMA WorseningIsWorse ==
    ASSUME NEW f \in PlanFigures, NEW q \in Figures, NEW v \in Allowed(q), Given(f[q]),
           Adverse(v - Value(f[q]), Worsens[q]), NEW g, g = [f EXCEPT ![q] = Some(v)]
    PROVE  g \in PlanFigures /\ NoBetter(f, g)
<1>0. v \in Nat
  BY DEF Allowed
<1>1. PICK o \in Nat : o = Value(f[q]) /\ f[q] = Some(o)
  BY FiguresAreNumbers
<1>2. g \in PlanFigures
  <2>1. Optional(Some(v), Allowed(q)) /\ Some(v) \in SUBSET Nat
    BY <1>0 DEF Optional, Some
  <2>2. /\ f \in [Figures \union {"return"} -> SUBSET Nat]
        /\ \A r \in Figures \union {"return"} : Optional(f[r], Allowed(r))
    BY PlansAreTyped
  <2>3. /\ g \in [Figures \union {"return"} -> SUBSET Nat]
        /\ \A r \in Figures \union {"return"} : g[r] = IF r = q THEN Some(v) ELSE f[r]
    BY <2>1, <2>2
  <2>4. \A r \in DOMAIN g : Optional(g[r], Allowed(r))
    BY <2>1, <2>2, <2>3
  <2> QED
    BY <2>3, <2>4 DEF PlanFigures
<1>3. g[q] = Some(v) /\ \A r \in Figures \union {"return"} : r # q => g[r] = f[r]
  BY PlansAreTyped
<1>4. ASSUME NEW r \in Figures, r # q PROVE Sinks(f[r], g[r]) /\ Sinks(g[r], f[r])
  BY <1>3, <1>4, SinksIsReflexive, PlansAreTyped
<1>5. IF Worsens[q] = "decrease" THEN Sinks(f[q], g[q]) ELSE Sinks(g[q], f[q])
  <2>1. IF Worsens[q] = "decrease" THEN v <= o ELSE o <= v
    BY <1>0, <1>1 DEF Adverse
  <2>2. v \in Int /\ o \in Int
    BY <1>0
  <2> QED
    BY <1>1, <1>3, <2>1, <2>2, SinkingValues
<1>6. f["return"] = g["return"]
  <2>1. "return" # q
    BY DEF Figures, Worsens
  <2> QED
    BY <1>3, <2>1
<1> QED
  BY <1>2, <1>4, <1>5, <1>6 DEF NoBetter

LEMMA WorsenDrifts ==
    ASSUME Drifted, NEW q \in Figures, NEW v \in Levels[q], Worsen(q, v)
    PROVE  /\ request' = request
           /\ figures' \in PlanFigures /\ NoBetter(figures, figures')
           /\ NoBetter(request.in, figures')
           /\ result' = Some(Findings(figures'))
<1>1. figures \in PlanFigures /\ request.in \in PlanFigures /\ NoBetter(request.in, figures)
  BY DEF Drifted, Worsen
<1>2. Given(figures[q])
  BY <1>1 DEF Worsen, NoBetter, Sinks
<1>3. v \in Allowed(q)
  BY FiguresAssumption
<1>4. figures' = [figures EXCEPT ![q] = Some(v)] /\ Adverse(v - Value(figures[q]), Worsens[q])
  BY DEF Worsen
<1>5. figures' \in PlanFigures /\ NoBetter(figures, figures')
  BY <1>1, <1>2, <1>3, <1>4, WorseningIsWorse
<1> QED
  BY <1>1, <1>5, NoBetterIsTransitive DEF Worsen

LEMMA DriftedHolds == Spec => []Drifted
<1>1. Init => Drifted
  <2> SUFFICES ASSUME Init, request.about = "drift"
               PROVE  /\ request.in \in PlanFigures /\ figures \in PlanFigures
                      /\ NoBetter(request.in, figures)
                      /\ result = Some(Findings(figures))
    BY DEF Drifted
  <2>1. request.in \in Baselines /\ figures = request.in /\ result = Some({})
    BY DEF Init
  <2>2. request.in \in PlanFigures
    BY <2>1, FiguresAssumption
  <2>3. NoBetter(request.in, request.in)
    BY <2>2, SinksIsReflexive, PlansAreTyped DEF NoBetter
  <2>4. Findings(figures) = {}
    BY <2>1 DEF Findings, CompareDrift
  <2> QED
    BY <2>1, <2>2, <2>3, <2>4
<1>2. Drifted /\ [Next]_vars => Drifted'
  <2> SUFFICES ASSUME Drifted, [Next]_vars PROVE Drifted'
    OBVIOUS
  <2>1. CASE AskLoan
    BY <2>1 DEF Drifted, AskLoan
  <2>2. CASE AskGoal
    BY <2>2 DEF Drifted, AskGoal
  <2>3. ASSUME NEW q \in Figures, NEW v \in Levels[q], Worsen(q, v) PROVE Drifted'
    <3>1. request.in \in PlanFigures /\ request.about = "drift"
      BY <2>3 DEF Drifted, Worsen
    <3>2. /\ request' = request /\ figures' \in PlanFigures
          /\ NoBetter(request.in, figures')
          /\ result' = Some(Findings(figures'))
      BY <2>3, WorsenDrifts
    <3>3. Findings(figures)' = Findings(figures')
      BY <3>2 DEF Findings
    <3> QED
      BY <3>1, <3>2, <3>3 DEF Drifted
  <2>4. CASE UNCHANGED vars
    BY <2>4 DEF Drifted, vars, Findings
  <2> QED
    BY <2>1, <2>2, <2>3, <2>4 DEF Next
<1> QED
  BY <1>1, <1>2, PTL DEF Spec

(* Whatever thresholds, signs and feasibilities the figures cross, for all    *)
(* plans and values, given in part or in full, at any rates and however       *)
(* results are rounded: no finding disappears or becomes milder as they get   *)
(* worse (compareDrift).  The exceptions are the runway of a plan without any *)
(* monthly need, and a goal whose feasibility comes or goes under inflation   *)
(* once its horizon was shortened.                                            *)
THEOREM NoFindingBecomesMilder == Spec => WorseFiguresAreNotJudgedMilder
<1> DEFINE Kept == request.about = "drift" =>
             \A finding \in Value(result) :
               \/ Rank(Value(result), finding.code) <= Rank(Value(result'), finding.code)
               \/ finding.code = "reserve_runway_changed" /\ request.in.need = Some(0)
               \/ /\ finding.code = "goal_changed"
                  /\ Inflation(figures') > 0 /\ figures'.horizon # request.in.horizon
                  /\ GoalFunding(Inputs(figures).goal) # GoalFunding(Inputs(figures').goal)
<1>1. Drifted /\ [Next]_vars => [Kept]_vars
  <2> SUFFICES ASSUME Drifted, Next, request.about = "drift", NEW finding \in Value(result),
                      ~(finding.code = "reserve_runway_changed" /\ request.in.need = Some(0)),
                      ~(/\ finding.code = "goal_changed"
                        /\ Inflation(figures') > 0 /\ figures'.horizon # request.in.horizon
                        /\ GoalFunding(Inputs(figures).goal) # GoalFunding(Inputs(figures').goal))
               PROVE  Rank(Value(result), finding.code) <= Rank(Value(result'), finding.code)
    OBVIOUS
  <2>0. PICK q \in Figures : \E v \in Levels[q] : Worsen(q, v)
    BY DEF Next, AskLoan, AskGoal
  <2>1. PICK v \in Levels[q] : Worsen(q, v)
    BY <2>0
  <2>2. /\ figures' \in PlanFigures /\ NoBetter(figures, figures')
        /\ result' = Some(Findings(figures'))
    BY <2>1, WorsenDrifts
  <2>3. /\ request.in \in PlanFigures /\ figures \in PlanFigures
        /\ NoBetter(request.in, figures)
        /\ result = Some(Findings(figures))
    BY DEF Drifted
  <2>4. Value(result) = Findings(figures) /\ Value(result') = Findings(figures')
    BY <2>2, <2>3, ValueOfSome
  <2>5. finding.code = "reserve_runway_changed" => request.in["need"] # Some(0)
    OBVIOUS
  <2>6. finding.code = "goal_changed" => GoalsAsWanted(request.in, figures, figures')
    <3>1. Inflation(figures') \in Nat
      BY <2>2, <2>3, GoalsGetPoorer
    <3> QED
      BY <3>1 DEF GoalsAsWanted
  <2>7. Harsher(Findings(figures), Findings(figures'), finding.code)
    BY <2>2, <2>3, <2>5, <2>6, DriftGrows DEF Findings
  <2> QED
    BY <2>4, <2>7, RankGrows
<1>2. Spec => [][Kept]_vars
  BY <1>1, DriftedHolds, PTL DEF Spec
<1> QED
  BY <1>2 DEF WorseFiguresAreNotJudgedMilder
===============================================================================
