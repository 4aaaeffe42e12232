--------------------------- MODULE Quotes_proofs ----------------------------
(***************************************************************************)
(* Theorems about module Quotes, and the operators of Fares it is built    *)
(* from, for any price tables, distances, tolls and number of requests.    *)
(***************************************************************************)
EXTENDS Quotes, FiniteSetTheorems, TLAPS

(* Induction is by a least counterexample: the library's induction         *)
(* theorems take an operator, this one takes a set.                        *)
LEMMA LeastNat ==
  ASSUME NEW T \in SUBSET Nat, T # {}  PROVE \E x \in T : \A y \in T : x <= y
<1> DEFINE R == {ss \in Nat \X Nat : ss[1] < ss[2]}
<1>1. IsWellFoundedOn(R, Nat)
  BY NatLessThanWellFounded DEF OpToRel
<1> HIDE DEF R
<1>2. \E x \in T : \A y \in T : ~(<<y, x>> \in R)
  BY <1>1, WFMin
<1>3. \A x, y \in Nat : ~(<<y, x>> \in R) => x <= y
  BY DEF R
<1> QED  BY <1>2, <1>3

LEMMA Quotient ==
  ASSUME NEW x \in Int, NEW k \in Nat \ {0}
  PROVE  x \div k \in Int /\ k * (x \div k) <= x /\ x < k * (x \div k) + k
OBVIOUS

(* Two numbers of one stretch of k have one quotient. *)
LEMMA SameQuotient ==
  ASSUME NEW x \in Int, NEW y \in Int, NEW k \in Nat \ {0},
         x <= y, y < k * (x \div k) + k
  PROVE  y \div k = x \div k
<1> DEFINE a == x \div k
           b == y \div k
<1>1. /\ a \in Int /\ k * a <= x /\ x < k * a + k
      /\ b \in Int /\ k * b <= y /\ y < k * b + k
  BY Quotient
<1> HIDE DEF a, b
<1>2. k * a < k * (b + 1) /\ k * b < k * (a + 1)
  BY <1>1 DEF a
<1>3. a < b + 1
  BY <1>1, <1>2
<1>4. b < a + 1
  BY <1>1, <1>2
<1> QED BY <1>1, <1>3, <1>4 DEF a, b

LEMMA QuotientGrows ==
  ASSUME NEW x \in Int, NEW y \in Int, NEW k \in Nat \ {0}, x <= y
  PROVE  x \div k <= y \div k
<1> DEFINE a == x \div k
           b == y \div k
<1>1. /\ a \in Int /\ k * a <= x
      /\ b \in Int /\ y < k * b + k
  BY Quotient
<1> HIDE DEF a, b
<1>2. k * a < k * (b + 1)
  BY <1>1
<1>3. a < b + 1
  BY <1>1, <1>2
<1> QED BY <1>1, <1>3 DEF a, b

(* The rate along the way: where the steps begin, and how far one goes.    *)
LEMMA StepsBegin ==
  ASSUME NEW r \in Rates, NEW p \in Int
  PROVE  /\ StepFrom(r) \in Int /\ StepFrom(r) >= r.baseKm
         /\ StepEnabled(r) \in BOOLEAN
         /\ StepEnabled(r) => /\ r.stepKm \in Nat \ {0}
                              /\ StepsAt(p, r) \in Int
                              /\ p >= StepFrom(r) => StepsAt(p, r) >= 1
<1>1. StepFrom(r) \in Int /\ StepFrom(r) >= r.baseKm
  BY FareConstants DEF StepFrom, Higher, Rates
<1>2. ASSUME StepEnabled(r)
      PROVE  /\ r.stepKm \in Nat \ {0} /\ StepsAt(p, r) \in Int
             /\ p >= StepFrom(r) => StepsAt(p, r) >= 1
  <2>1. r.stepKm \in Nat \ {0}
    BY <1>2 DEF StepEnabled, Rates
  <2> DEFINE x == p - StepFrom(r)
  <2>2. x \in Int
    BY <1>1
  <2> HIDE DEF x
  <2>3. x \div r.stepKm \in Int /\ (x >= 0 => x \div r.stepKm >= 0)
    BY <2>1, <2>2, Quotient
  <2> QED BY <1>1, <2>1, <2>3 DEF StepsAt, x
<1> QED BY <1>1, <1>2 DEF StepEnabled

LEMMA RateTyped ==
  ASSUME NEW r \in Rates, NEW p \in Int
  PROVE  RateAt(p, r) \in Int /\ (r.perKm >= 0 => RateAt(p, r) >= 0)
<1>1. CASE ~ StepEnabled(r) \/ p < StepFrom(r)
  BY <1>1 DEF RateAt, Rates, Hundred
<1>2. CASE StepEnabled(r) /\ p >= StepFrom(r)
  <2>1. Reduced(p, r) \in Int
    <3>1. StepsAt(p, r) \in Int
      BY <1>2, StepsBegin
    <3> QED BY <3>1 DEF Reduced, AtLeast0, Hundred, Rates
  <2> QED BY <1>2, <2>1, StepsBegin DEF RateAt, AtLeast0, Higher, Hundred, Rates
<1> QED BY <1>1, <1>2, StepsBegin

LEMMA BoundaryAhead ==
  ASSUME NEW r \in Rates, NEW d \in Int, NEW p \in Int, p < d
  PROVE  NextBoundary(p, d, r) \in p + 1 .. d
<1>1. CASE ~ StepEnabled(r) \/ p < StepFrom(r)
  BY <1>1, StepsBegin DEF NextBoundary, Lower
<1>2. CASE StepEnabled(r) /\ p >= StepFrom(r)
  <2> DEFINE k == r.stepKm
             x == p - StepFrom(r)
  <2>1. k \in Nat \ {0} /\ x \in Int /\ StepFrom(r) \in Int
    BY <1>2, StepsBegin
  <2>2. x \div k \in Int /\ x < k * (x \div k) + k
    BY <2>1, Quotient
  <2>3. StepsAt(p, r) = x \div k + 1
    BY DEF StepsAt
  <2>4. NextBoundary(p, d, r) = Lower(StepFrom(r) + StepsAt(p, r) * k, d)
    BY <1>2, <2>1 DEF NextBoundary
  <2> HIDE DEF x, k
  <2>5. StepsAt(p, r) * k = k * (x \div k) + k
    BY <2>1, <2>2, <2>3
  <2>6. StepFrom(r) + StepsAt(p, r) * k > p
    BY <2>1, <2>2, <2>5 DEF x
  <2>7. StepFrom(r) + StepsAt(p, r) * k \in Int
    BY <2>1, <2>2, <2>5
  <2> QED BY <2>4, <2>6, <2>7 DEF Lower
<1> QED BY <1>1, <1>2, StepsBegin

(* Up to the boundary the rate is the one at its beginning. *)
LEMMA RateHolds ==
  ASSUME NEW r \in Rates, NEW d \in Int, NEW p \in Int, NEW q \in Int,
         p <= q, q < NextBoundary(p, d, r), p < d
  PROVE  RateAt(q, r) = RateAt(p, r)
<1>1. CASE ~ StepEnabled(r)
  BY <1>1 DEF RateAt
<1>2. CASE StepEnabled(r) /\ p < StepFrom(r)
  BY <1>2, StepsBegin DEF RateAt, NextBoundary, Lower
<1>3. CASE StepEnabled(r) /\ p >= StepFrom(r)
  <2> DEFINE k == r.stepKm
             x == p - StepFrom(r)
             y == q - StepFrom(r)
  <2>1. k \in Nat \ {0} /\ x \in Int /\ y \in Int /\ x <= y /\ StepFrom(r) \in Int
    BY <1>3, StepsBegin
  <2>2. x \div k \in Int
    BY <2>1, Quotient
  <2>3. StepsAt(p, r) = x \div k + 1
    BY DEF StepsAt
  <2>4. NextBoundary(p, d, r) = Lower(StepFrom(r) + StepsAt(p, r) * k, d)
    BY <1>3, <2>1 DEF NextBoundary
  <2> HIDE DEF x, y, k
  <2>5. StepsAt(p, r) * k = k * (x \div k) + k /\ StepsAt(p, r) * k \in Int
    BY <2>1, <2>2, <2>3
  <2>6. q < StepFrom(r) + StepsAt(p, r) * k
    BY <2>1, <2>4, <2>5 DEF Lower
  <2>7. y < k * (x \div k) + k
    BY <2>1, <2>2, <2>5, <2>6 DEF y
  <2>8. y \div k = x \div k
    BY <2>1, <2>7, SameQuotient
  <2>9. StepsAt(q, r) = StepsAt(p, r)
    BY <2>3, <2>8 DEF StepsAt, y, k
  <2>10. Reduced(q, r) = Reduced(p, r)
    BY <2>9 DEF Reduced
  <2> QED BY <1>3, <2>1, <2>10 DEF RateAt
<1> QED BY <1>1, <1>2, <1>3, StepsBegin

-----------------------------------------------------------------------------
(***************************************************************************)
(* What distance_charge bills.  A tally adds the kilometres one by one;    *)
(* the loop of the code, from boundary to boundary, gives the same.        *)
(***************************************************************************)
Tally(s, r, d) ==
  /\ s \in [r.baseKm .. d -> Int]
  /\ s[d] = 0
  /\ \A p \in r.baseKm .. d - 1 : s[p] = RateAt(p, r) + s[p + 1]

Further(s, r, d) == [p \in r.baseKm .. d + 1 |-> IF p = d + 1 THEN 0 ELSE s[p] + RateAt(d, r)]

LEMMA TallyFurther ==
  ASSUME NEW r \in Rates, NEW d \in Int, d >= r.baseKm, NEW s, Tally(s, r, d)
  PROVE  /\ Tally(Further(s, r, d), r, d + 1)
         /\ Further(s, r, d)[r.baseKm] = s[r.baseKm] + RateAt(d, r)
<1> DEFINE t == Further(s, r, d)
           b == r.baseKm
<1>1. RateAt(d, r) \in Int /\ b \in Int /\ b <= d
  BY RateTyped DEF Rates
<1>2. /\ t \in [b .. d + 1 -> Int] /\ t[d + 1] = 0
      /\ \A p \in b .. d : t[p] = s[p] + RateAt(d, r)
  BY <1>1 DEF Further, Tally
<1>3. ASSUME NEW p \in b .. d
      PROVE  t[p] = RateAt(p, r) + t[p + 1]
  <2>1. CASE p = d
    BY <1>1, <1>2, <2>1 DEF Tally
  <2>2. CASE p # d
    <3>1. p \in Int /\ p \in b .. d - 1 /\ p + 1 \in b .. d
      BY <1>1, <1>3, <2>2
    <3>2. RateAt(p, r) \in Int /\ s[p + 1] \in Int
      BY <3>1, RateTyped DEF Tally
    <3>3. s[p] = RateAt(p, r) + s[p + 1]
      BY <3>1 DEF Tally
    <3> QED BY <1>1, <1>2, <3>1, <3>2, <3>3
  <2> QED BY <2>1, <2>2
<1>4. d + 1 - 1 = d
  OBVIOUS
<1> HIDE DEF t
<1> QED BY <1>1, <1>2, <1>3, <1>4 DEF Tally, t

LEMMA TallyExists ==
  ASSUME NEW r \in Rates, NEW d \in Int, d >= r.baseKm
  PROVE  \E s : Tally(s, r, d)
<1> DEFINE b == r.baseKm
           Bad == {n \in Nat : ~ \E s : Tally(s, r, b + n)}
<1>0. b \in Int
  BY DEF Rates
<1>1. CASE Bad = {}
  <2>1. d - b \in Nat /\ b + (d - b) = d
    BY <1>0
  <2> QED BY <1>1, <2>1
<1>2. CASE Bad # {}
  <2>1. PICK n \in Bad : \A m \in Bad : n <= m
    BY <1>2, LeastNat
  <2>2. n # 0
    <3> DEFINE s == [p \in b .. b |-> 0]
    <3>1. Tally(s, r, b)
      BY <1>0 DEF Tally
    <3>2. b + 0 = b
      BY <1>0
    <3> HIDE DEF s
    <3> QED BY <2>1, <3>1, <3>2
  <2>3. n - 1 \in Nat /\ ~ n <= n - 1
    BY <2>1, <2>2
  <2>4. PICK s : Tally(s, r, b + (n - 1))
    BY <2>1, <2>3
  <2>5. b + (n - 1) \in Int /\ b + (n - 1) >= r.baseKm /\ b + (n - 1) + 1 = b + n
    BY <1>0, <2>3
  <2>6. Tally(Further(s, r, b + (n - 1)), r, b + n)
    BY <2>4, <2>5, TallyFurther
  <2> QED BY <2>1, <2>6
<1> QED BY <1>1, <1>2

(* Over a stretch of one rate a tally falls by that rate each kilometre.   *)
LEMMA TallyStretch ==
  ASSUME NEW r \in Rates, NEW d \in Int, d >= r.baseKm, NEW s, Tally(s, r, d),
         NEW p \in r.baseKm .. d - 1, NEW q \in p .. NextBoundary(p, d, r)
  PROVE  s[p] = (q - p) * RateAt(p, r) + s[q]
<1> DEFINE b == r.baseKm
           next == NextBoundary(p, d, r)
           rate == RateAt(p, r)
           Bad == {n \in Nat : p + n <= next /\ s[p] # n * rate + s[p + n]}
<1>0. b \in Int /\ p \in Int /\ p < d /\ p \in b .. d
  BY DEF Rates
<1>1. next \in p + 1 .. d /\ rate \in Int /\ s[p] \in Int
  BY <1>0, BoundaryAhead, RateTyped DEF Tally
<1> HIDE DEF next, rate
<1>2. CASE Bad = {}
  <2>1. q - p \in Nat /\ p + (q - p) = q /\ q <= next
    BY <1>0, <1>1 DEF next
  <2> QED BY <1>2, <2>1 DEF rate
<1>3. CASE Bad # {}
  <2>1. PICK n \in Bad : \A m \in Bad : n <= m
    BY <1>3, LeastNat
  <2>2. n # 0
    BY <1>0, <1>1, <2>1
  <2> DEFINE m == n - 1
  <2>3. m \in Nat /\ n = m + 1 /\ m \notin Bad /\ p + n <= next
    BY <2>1, <2>2
  <2> HIDE DEF m
  <2>4. s[p] = m * rate + s[p + m]
    BY <1>0, <1>1, <2>3
  <2>5. p + m \in b .. d - 1 /\ p + m < next /\ p <= p + m /\ p + n = p + m + 1
        /\ p + m + 1 \in b .. d
    BY <1>0, <1>1, <2>3
  <2>6. RateAt(p + m, r) = rate
    BY <1>0, <1>1, <2>5, RateHolds DEF next, rate
  <2>7. s[p + m] = rate + s[p + n] /\ s[p + n] \in Int
    BY <2>5, <2>6 DEF Tally
  <2>8. n * rate = m * rate + rate /\ m * rate \in Int
    BY <1>0, <1>1, <2>3
  <2>9. s[p] = n * rate + s[p + n]
    BY <1>0, <1>1, <2>4, <2>7, <2>8
  <2> QED BY <2>1, <2>9
<1> QED BY <1>2, <1>3

(* The loop of distance_charge, as a recursive function.                   *)
Loop(g, r, d) ==
  [p \in r.baseKm .. d |->
     IF p = d THEN 0
     ELSE LET next == NextBoundary(p, d, r)
          IN  (next - p) * RateAt(p, r) + g[next]]

LEMMA TallyIsLoop ==
  ASSUME NEW r \in Rates, NEW d \in Int, d >= r.baseKm, NEW s, Tally(s, r, d)
  PROVE  s = Loop(s, r, d)
<1>1. ASSUME NEW p \in r.baseKm .. d PROVE s[p] = Loop(s, r, d)[p]
  <2>1. CASE p = d
    BY <2>1 DEF Loop, Tally
  <2>2. CASE p # d
    <3>1. p \in r.baseKm .. d - 1 /\ p \in Int /\ p < d
      BY <2>2 DEF Rates
    <3>2. NextBoundary(p, d, r) \in p + 1 .. d
      BY <3>1, BoundaryAhead
    <3>3. NextBoundary(p, d, r) \in p .. NextBoundary(p, d, r)
      BY <3>1, <3>2
    <3> QED BY <2>2, <3>1, <3>3, TallyStretch DEF Loop
  <2> QED BY <2>1, <2>2
<1>2. DOMAIN s = r.baseKm .. d /\ DOMAIN Loop(s, r, d) = r.baseKm .. d
      /\ s = [p \in DOMAIN s |-> s[p]]
  BY DEF Tally, Loop
<1> QED BY <1>1, <1>2 DEF Loop

LEMMA LoopIsTally ==
  ASSUME NEW r \in Rates, NEW d \in Int, d >= r.baseKm, NEW s, Tally(s, r, d),
         NEW g, g = Loop(g, r, d)
  PROVE  g = s
<1> DEFINE b == r.baseKm
           Bad == {n \in Nat : d - n >= b /\ g[d - n] # s[d - n]}
<1>0. b \in Int /\ s = Loop(s, r, d)
  BY TallyIsLoop DEF Rates
<1>1. CASE Bad = {}
  <2>1. ASSUME NEW p \in b .. d PROVE g[p] = s[p]
    <3>1. d - p \in Nat /\ d - (d - p) = p /\ p >= b
      BY <1>0
    <3> QED BY <1>1, <3>1
  <2> QED BY <1>0, <2>1 DEF Loop
<1>2. CASE Bad # {}
  <2>1. PICK n \in Bad : \A m \in Bad : n <= m
    BY <1>2, LeastNat
  <2> DEFINE p == d - n
             next == NextBoundary(p, d, r)
  <2>2. p \in b .. d /\ p \in Int /\ n \in Nat /\ g[p] # s[p]
    BY <1>0, <2>1
  <2>3. g[p] = Loop(g, r, d)[p] /\ s[p] = Loop(s, r, d)[p]
    BY <1>0
  <2>4. CASE p = d
    BY <2>2, <2>3, <2>4 DEF Loop
  <2>5. CASE p # d
    <3>1. next \in p + 1 .. d
      BY <1>0, <2>2, <2>5, BoundaryAhead
    <3>2. g[p] = (next - p) * RateAt(p, r) + g[next]
      BY <2>2, <2>3, <2>5 DEF Loop
    <3>3. s[p] = (next - p) * RateAt(p, r) + s[next]
      BY <2>2, <2>3, <2>5 DEF Loop
    <3> HIDE DEF next
    <3>4. d - next \in Nat /\ d - next < n /\ d - (d - next) = next /\ next >= b
      BY <1>0, <2>2, <3>1
    <3>5. g[next] = s[next]
      <4>1. d - next \notin Bad
        BY <2>1, <2>2, <3>4
      <4> QED BY <3>4, <4>1
    <3> QED BY <2>2, <3>2, <3>3, <3>5
  <2> QED BY <2>4, <2>5
<1> QED BY <1>1, <1>2

LEMMA BilledIsTally ==
  ASSUME NEW r \in Rates, NEW d \in Int, d >= r.baseKm, NEW s, Tally(s, r, d)
  PROVE  Billed(r, d) = s[r.baseKm]
<1>1. s = Loop(s, r, d)
  BY TallyIsLoop
<1>2. \A g : g = Loop(g, r, d) => g = s
  BY LoopIsTally
<1>3. (CHOOSE g : g = Loop(g, r, d)) = s
  BY <1>1, <1>2
<1> QED BY <1>3 DEF Billed, Loop

(* What EveryKmBilledOnce says, of every rate and every distance.          *)
LEMMA NextKmBilled ==
  ASSUME NEW r \in Rates, NEW d \in Int, d >= r.baseKm
  PROVE  Billed(r, d) \in Int /\ Billed(r, d + 1) = Billed(r, d) + RateAt(d, r)
<1>1. PICK s : Tally(s, r, d)
  BY TallyExists
<1>2. /\ Tally(Further(s, r, d), r, d + 1)
      /\ Further(s, r, d)[r.baseKm] = s[r.baseKm] + RateAt(d, r)
  BY <1>1, TallyFurther
<1>3. Billed(r, d) = s[r.baseKm]
  BY <1>1, BilledIsTally
<1>4. d + 1 \in Int /\ d + 1 >= r.baseKm
  BY DEF Rates
<1>5. Billed(r, d + 1) = Further(s, r, d)[r.baseKm]
  BY <1>2, <1>4, BilledIsTally
<1>6. s[r.baseKm] \in Int
  BY <1>1 DEF Tally, Rates
<1> QED BY <1>2, <1>3, <1>5, <1>6

LEMMA NothingBilled ==
  ASSUME NEW r \in Rates
  PROVE  Billed(r, r.baseKm) = 0
<1>1. r.baseKm \in Int /\ r.baseKm >= r.baseKm
  BY DEF Rates
<1>2. PICK s : Tally(s, r, r.baseKm)
  BY <1>1, TallyExists
<1> QED BY <1>1, <1>2, BilledIsTally DEF Tally

-----------------------------------------------------------------------------
(* A longer trip, and the rate along the way.                              *)

LEMMA ChargeGrows ==
  ASSUME NEW r \in Rates, r.perKm >= 0, NEW d \in Nat
  PROVE  DistanceCharge(r, d) <= DistanceCharge(r, d + 1)
<1> DEFINE m == Deadhead(r)
           rate == RateAt(d, r)
<1>1. m \in Nat /\ rate \in Nat /\ r.baseKm \in Int /\ Scale * r.base \in Int
  BY RateTyped DEF Deadhead, Hundred, Scale, Rates
<1> HIDE DEF m, rate
<1>2. CASE d + 1 <= r.baseKm
  BY <1>1, <1>2 DEF DistanceCharge
<1>3. CASE d = r.baseKm
  <2>1. Billed(r, d + 1) = rate
    BY <1>1, <1>3, NextKmBilled, NothingBilled DEF rate
  <2>2. rate * m \in Nat
    BY <1>1
  <2>3. DistanceCharge(r, d) = Scale * r.base
    BY <1>1, <1>3 DEF DistanceCharge
  <2>4. DistanceCharge(r, d + 1) = Scale * r.base + rate * m
    BY <1>1, <1>3, <2>1 DEF DistanceCharge, m
  <2> QED BY <1>1, <2>2, <2>3, <2>4
<1>4. CASE d > r.baseKm
  <2>1. /\ Billed(r, d) \in Int
        /\ Billed(r, d + 1) = Billed(r, d) + rate
    BY <1>1, <1>4, NextKmBilled DEF rate
  <2>2. /\ DistanceCharge(r, d) = Scale * r.base + Billed(r, d) * m
        /\ DistanceCharge(r, d + 1) = Scale * r.base + Billed(r, d + 1) * m
    BY <1>1, <1>4 DEF DistanceCharge, m
  <2> DEFINE x == Billed(r, d)
  <2>3. x \in Int /\ Billed(r, d + 1) = x + rate
    BY <2>1
  <2> HIDE DEF x
  <2>4. x * m \in Int /\ rate * m \in Nat /\ (x + rate) * m = x * m + rate * m
    BY <1>1, <2>3
  <2> QED BY <1>1, <2>2, <2>3, <2>4 DEF x
<1> QED BY <1>1, <1>2, <1>3, <1>4

LEMMA ReducedFalls ==
  ASSUME NEW r \in Rates, r.perKm >= 0, StepEnabled(r), NEW p \in Int, NEW q \in Int,
         StepFrom(r) <= p, p <= q
  PROVE  /\ Reduced(p, r) \in Int /\ Reduced(q, r) \in Int
         /\ Reduced(q, r) <= Reduced(p, r) /\ Reduced(p, r) <= Hundred * r.perKm
<1> DEFINE i == StepsAt(p, r)
           j == StepsAt(q, r)
<1>1. /\ i \in Nat /\ j \in Nat /\ 1 <= i /\ i <= j
      /\ r.perKm \in Nat /\ r.stepPct \in Int /\ r.stepOff \in Int
  <2>1. StepFrom(r) \in Int /\ r.stepKm \in Nat \ {0} /\ i \in Int /\ j \in Int /\ 1 <= i
    BY StepsBegin
  <2> DEFINE x == p - StepFrom(r)
             y == q - StepFrom(r)
             k == r.stepKm
  <2>2. x \in Int /\ y \in Int /\ x <= y /\ k \in Nat \ {0}
    BY <2>1
  <2> HIDE DEF x, y, k
  <2>3. x \div k <= y \div k /\ x \div k \in Int /\ y \div k \in Int
    BY <2>2, Quotient, QuotientGrows
  <2>4. i <= j
    BY <2>3 DEF StepsAt, x, y, k
  <2> QED BY <2>1, <2>4 DEF Rates
<1>2. CASE r.stepPct > 0
  <2> DEFINE u == AtLeast0(Hundred - r.stepPct * i)
             v == AtLeast0(Hundred - r.stepPct * j)
  <2>1. r.stepPct * i \in Nat /\ r.stepPct * j \in Nat /\ r.stepPct * i <= r.stepPct * j
    BY <1>1, <1>2
  <2>2. u \in Nat /\ v \in Nat /\ v <= u /\ u <= Hundred
    BY <2>1 DEF AtLeast0, Hundred
  <2>3. Reduced(p, r) = r.perKm * u /\ Reduced(q, r) = r.perKm * v
    BY <1>2 DEF Reduced
  <2> HIDE DEF u, v
  <2>4. r.perKm * v <= r.perKm * u /\ r.perKm * u <= r.perKm * Hundred
    BY <1>1, <2>2 DEF Hundred
  <2> QED BY <1>1, <2>2, <2>3, <2>4 DEF Hundred
<1>3. CASE ~ r.stepPct > 0
  <2>1. r.stepOff > 0
    BY <1>1, <1>3 DEF StepEnabled
  <2>2. /\ Reduced(p, r) = Hundred * (r.perKm - r.stepOff * i)
        /\ Reduced(q, r) = Hundred * (r.perKm - r.stepOff * j)
    BY <1>3 DEF Reduced
  <2> HIDE DEF i, j
  <2>3. r.stepOff * i \in Nat /\ r.stepOff * j \in Nat /\ r.stepOff * i <= r.stepOff * j
    BY <1>1, <2>1
  <2> QED BY <1>1, <2>2, <2>3 DEF Hundred
<1> QED BY <1>1, <1>2, <1>3

LEMMA RateFalls ==
  ASSUME NEW r \in Rates, r.perKm >= 0, r.floor <= r.perKm, NEW d \in Nat
  PROVE  Hundred * r.floor <= RateAt(d + 1, r) /\ RateAt(d + 1, r) <= RateAt(d, r)
<1>1. /\ r.perKm \in Nat /\ r.floor \in Int /\ d \in Int /\ d + 1 \in Int
      /\ StepFrom(r) \in Int /\ StepEnabled(r) \in BOOLEAN
  BY StepsBegin DEF Rates
<1>2. CASE ~ StepEnabled(r) \/ d + 1 < StepFrom(r)
  BY <1>1, <1>2 DEF RateAt, Hundred
<1>3. CASE StepEnabled(r) /\ d + 1 >= StepFrom(r)
  <2> DEFINE x == Reduced(d, r)
             y == Reduced(d + 1, r)
  <2>1. y \in Int /\ y <= Hundred * r.perKm
    BY <1>1, <1>3, ReducedFalls
  <2>2. d >= StepFrom(r) => x \in Int /\ y <= x
    BY <1>1, <1>3, ReducedFalls
  <2>3. RateAt(d + 1, r) =
          AtLeast0(IF r.floor > 0 THEN Higher(Hundred * r.floor, y) ELSE y)
    BY <1>1, <1>3 DEF RateAt
  <2>4. RateAt(d, r) =
          IF d < StepFrom(r) THEN Hundred * r.perKm
          ELSE AtLeast0(IF r.floor > 0 THEN Higher(Hundred * r.floor, x) ELSE x)
    BY <1>1, <1>3 DEF RateAt
  <2> HIDE DEF x, y
  <2> QED BY <1>1, <2>1, <2>2, <2>3, <2>4 DEF AtLeast0, Higher, Hundred
<1> QED BY <1>1, <1>2, <1>3

-----------------------------------------------------------------------------
(* Which rates a trip has, and what it costs.                              *)

LEMMA SmallestSet ==
  ASSUME NEW S, NEW T \in SUBSET FiniteSubsetsOf(S), T # {}
  PROVE  \E x \in T : \A y \in T : ~(y \subseteq x /\ y # x)
<1>1. IsWellFoundedOn(StrictSubsetOrdering(S), FiniteSubsetsOf(S))
  BY FS_StrictSubsetOrderingWellFounded
<1>2. PICK x \in T : \A y \in T : ~(<<y, x>> \in StrictSubsetOrdering(S))
  BY <1>1, WFMin
<1>3. \A y \in T : y \in SUBSET S
  BY DEF FiniteSubsetsOf
<1> QED  BY <1>2, <1>3 DEF StrictSubsetOrdering

(* Narrower prefers one of any two slabs, and consistently.                *)
LEMMA NarrowerOrders ==
  ASSUME NEW s \in SlabRow, NEW t \in SlabRow, NEW u \in SlabRow
  PROVE  /\ Narrower(s, t) \/ Narrower(t, s)
         /\ Narrower(s, t) /\ Narrower(t, u) => Narrower(s, u)
<1> DEFINE low(x) == IF x.lo = NoBound THEN 0 ELSE x.lo
<1>1. \A x \in {s, t, u} :
        /\ x.lo # NoBound => x.lo \in Int
        /\ x.hi # NoBound => x.hi \in Int
        /\ x.edited \in Nat /\ low(x) \in Int
  BY DEF SlabRow
<1>2. Narrower(s, t) \/ Narrower(t, s)
  BY <1>1 DEF Narrower
<1>3. Narrower(s, t) /\ Narrower(t, u) => Narrower(s, u)
  BY <1>1 DEF Narrower
<1> QED BY <1>2, <1>3

LEMMA SlabExists ==
  ASSUME NEW S \in SUBSET SlabRow, IsFiniteSet(S), S # {}
  PROVE  \E s \in S : \A t \in S : Narrower(s, t)
<1> DEFINE Bad == {T \in FiniteSubsetsOf(S) : T # {} /\ ~ \E s \in T : \A t \in T : Narrower(s, t)}
<1>1. CASE Bad = {}
  BY <1>1 DEF FiniteSubsetsOf
<1>2. CASE Bad # {}
  <2>1. PICK T \in Bad : \A U \in Bad : ~ (U \subseteq T /\ U # T)
    <3>1. Bad \in SUBSET FiniteSubsetsOf(S)
      OBVIOUS
    <3> HIDE DEF Bad
    <3> QED BY <1>2, <3>1, SmallestSet
  <2>2. T \subseteq S /\ IsFiniteSet(T) /\ T # {} /\ ~ \E s \in T : \A t \in T : Narrower(s, t)
    BY <2>1 DEF FiniteSubsetsOf
  <2>3. PICK x \in T : TRUE
    BY <2>2
  <2> DEFINE U == T \ {x}
  <2>4. /\ U \subseteq S /\ IsFiniteSet(U) /\ U \subseteq T /\ U # T
        /\ U \notin Bad
    <3>1. IsFiniteSet(U)
      BY <2>2, FS_RemoveElement
    <3>2. U \subseteq S /\ U \subseteq T /\ U # T
      BY <2>2, <2>3
    <3> HIDE DEF U, Bad
    <3> QED BY <2>1, <3>1, <3>2
  <2>5. x \in SlabRow /\ Narrower(x, x)
    BY <2>2, <2>3, NarrowerOrders
  <2>6. U # {}
    BY <2>2, <2>3, <2>5
  <2>7. PICK y \in U : \A t \in U : Narrower(y, t)
    BY <2>4, <2>6 DEF FiniteSubsetsOf
  <2>8. y \in T /\ y \in SlabRow /\ T \subseteq SlabRow
    BY <2>2, <2>7
  <2>9. CASE Narrower(y, x)
    BY <2>2, <2>7, <2>8, <2>9
  <2>10. CASE Narrower(x, y)
    <3>1. \A t \in T : Narrower(x, t)
      BY <2>5, <2>7, <2>8, <2>10, NarrowerOrders
    <3> QED BY <2>2, <2>3, <3>1
  <2> QED BY <2>5, <2>8, <2>9, <2>10, NarrowerOrders
<1> QED BY <1>1, <1>2

PriceRow(p) ==
  /\ p.category \in CategoryRow /\ p.zone \in Int \cup {NoZone}
  /\ p.slabs \subseteq SlabRow /\ IsFiniteSet(p.slabs)

LEMMA CategoryRates ==
  ASSUME NEW c \in CategoryRow
  PROVE  CityRates(c) \in Rates /\ OutstationRates(c) \in Rates
<1>1. c.out \in Rates
  BY DEF CategoryRow
<1>2. CityRates(c) \in Rates
  BY FareConstants DEF CityRates, CategoryRow, Rates, Hundred
<1>3. Higher(StepStartKm, c.out.baseKm) \in Int
  BY <1>1, FareConstants DEF Higher, Rates
<1> DEFINE r == [c.out EXCEPT !.surge = Hundred]
           start == Higher(StepStartKm, c.out.baseKm)
<1>4. r \in Rates /\ start \in Int
  BY <1>1, <1>3 DEF Rates, Hundred
<1>5. OutstationRates(c) = [r EXCEPT !.stepStart = start]
  BY DEF OutstationRates
<1> HIDE DEF r, start
<1>6. [r EXCEPT !.stepStart = start] \in Rates
  BY <1>4 DEF Rates
<1> QED BY <1>2, <1>5, <1>6

LEMMA RatesOfSlab ==
  ASSUME NEW s \in SlabRow
  PROVE  SlabRates(s) \in Rates
BY FareConstants DEF SlabRates, SlabRow, Rates, Hundred

LEMMA RatesTyped ==
  ASSUME NEW p, PriceRow(p), NEW d \in Nat, NEW requested,
         ~ Refused(p.category, p.zone, p.slabs, d, requested)
  PROVE  RatesOf(p.category, p.zone, p.slabs, d) \in Rates
<1> DEFINE c == p.category
<1>1. c \in CategoryRow
  BY DEF PriceRow
<1>2. ASSUME TypeOf(c, p.zone, d) = "outstation", ~ HasOutstationRates(c)
      PROVE  Slab(p.slabs, d) \in SlabRow
  <2> DEFINE held == {s \in p.slabs : Holds(s, d)}
  <2>1. Slab(p.slabs, d) # NoSlab
    BY <1>2 DEF Refused
  <2>2. held # {}
    BY <2>1 DEF Slab
  <2>3. held \subseteq SlabRow /\ IsFiniteSet(held)
    BY FS_Subset DEF PriceRow
  <2>4. Slab(p.slabs, d) = CHOOSE s \in held : \A t \in held : Narrower(s, t)
    BY <2>2 DEF Slab
  <2> HIDE DEF held
  <2>5. \E s \in held : \A t \in held : Narrower(s, t)
    BY <2>2, <2>3, SlabExists
  <2> QED BY <2>3, <2>4, <2>5
<1> QED BY <1>1, <1>2, CategoryRates, RatesOfSlab DEF RatesOf, TypeOf, Classify

LEMMA FareTyped ==
  ASSUME NEW r \in Rates, NEW d \in Nat, NEW helper \in BOOLEAN
  PROVE  EstimatedFare(r, d, helper) \in Int
<1>1. DistanceCharge(r, d) \in Int
  <2>1. d > r.baseKm => Billed(r, d) \in Int
    BY NextKmBilled DEF Rates
  <2>2. Deadhead(r) \in Int /\ r.base \in Int /\ r.baseKm \in Int
    BY DEF Deadhead, Hundred, Rates
  <2> QED BY <2>1, <2>2 DEF DistanceCharge, Scale, Hundred
<1> DEFINE sub == DistanceCharge(r, d) + Scale * (IF helper THEN HelperCharge ELSE 0)
           x == Higher(Scale * r.minimum, sub) * r.surge
<1>2. sub \in Int
  BY <1>1, FareConstants DEF Scale, Hundred
<1>3. x \in Int
  BY <1>2 DEF Higher, Scale, Hundred, Rates
<1>4. EstimatedFare(r, d, helper) = Quantize(x, Scale * Hundred)
  BY DEF EstimatedFare
<1> HIDE DEF x
<1> QED BY <1>3, <1>4 DEF Quantize, Scale, Hundred

-----------------------------------------------------------------------------
(***************************************************************************)
(* The row and its breakdown.  A handler carries a quote that explains its *)
(* own fare, and a row that did when it was read; AllTolls keeps zero      *)
(* apart from every final fare, where nothing is free.                     *)
(***************************************************************************)
Pricing == {"estimate", "create", "edit"}
BreakdownRow == [dist : Nat, type : TripType, rates : Rates, base : Int, toll : Nat]
HandlerRow ==
  [op : {"idle", "estimate", "create", "edit", "moving", "done"},
   at : {"fetch", "save"}, row : Row \cup {NoBooking},
   quote : Quote \cup {NoQuote}, found : TollRow \cup {NoRow},
   late : SUBSET Slug]

AllTolls == TollAmounts \cup Claims \cup {0}

Explained(x) ==
  LET b == x.breakdown
  IN  /\ x.dist = b.dist
      /\ x.half \/ x.dist \in Distances[x.route]
      /\ b.type = "outstation" => x.type = "outstation"
      /\ b.base = EstimatedFare(b.rates, b.dist, x.helper)
      /\ x.fare = b.base + b.toll

Costs(b) ==
  /\ b.toll \in AllTolls
  /\ NothingIsFree => \A t \in AllTolls : b.base + t # 0

RowOK(x)   == Costs(x.breakdown) /\ (NothingIsFree /\ x.final = 0 => Explained(x))
Sound(x)   == x \in Row /\ RowOK(x)
QuoteOK(q) == Costs(q.breakdown) /\ Explained(q) /\ q.type = q.breakdown.type

Carries(h) ==
  h.op \in Pricing => h.quote \in Quote /\ QuoteOK(h.quote)
Reads(h) ==
  h.op \in {"edit", "moving", "done"} => Sound(h.row)
Refits(h) ==
  h.op = "edit" =>
    /\ h.quote.helper = h.row.helper
    /\ h.quote.type = "outstation" => h.row.type = "outstation"

Working(h) ==
  /\ h \in HandlerRow
  /\ h.at = "fetch" => h.op \in Pricing
  /\ Carries(h) /\ Reads(h) /\ Refits(h)

Reading(h) == h.op \in {"edit", "moving", "done"} => Sound(booking)

QuoteInv ==
  /\ QuoteTypeOK
  /\ \A g \in Handlers : Working(handler[g]) /\ Reading(handler[g])
  /\ booking = NoBooking \/ Sound(booking)

LEMMA RowParts ==
  Row = [route : Route, half : BOOLEAN, dist : Nat, type : TripType, helper : BOOLEAN, fare : Nat,
         breakdown : BreakdownRow, stage : Stage, final : Nat]
BY DEF Row, BreakdownRow

LEMMA QuoteParts ==
  Quote = [route : Route, half : BOOLEAN, dist : Nat, type : TripType, helper : BOOLEAN, fare : Int,
           breakdown : BreakdownRow]
BY DEF Quote, BreakdownRow

LEMMA TollsTyped == AllTolls \subseteq Nat
BY TollConstants, QuoteConstants DEF AllTolls

(* A step that gives one handler its next job, and leaves a booking one.   *)
LEMMA HandlerStep ==
  ASSUME QuoteInv, NEW g \in Handlers, NEW h, Working(h),
         h.op \in {"edit", "moving", "done"} => Sound(booking),
         handler' = [handler EXCEPT ![g] = h],
         booking' = NoBooking \/ Sound(booking'), Sound(booking) => Sound(booking'),
         rows' \in [Slug -> TollRow \cup {NoRow}], prices' = prices, changes' = changes
  PROVE  QuoteInv'
<1>1. handler \in [Handlers -> HandlerRow] /\ h \in HandlerRow
  BY DEF QuoteInv, QuoteTypeOK, HandlerRow, Working
<1>2. handler' \in [Handlers -> HandlerRow]
  BY <1>1
<1>3. ASSUME NEW x \in Handlers PROVE Working(handler'[x]) /\ Reading(handler[x])'
  <2>1. CASE x = g
    BY <1>1, <2>1 DEF Reading
  <2>2. CASE x # g
    BY <1>1, <2>2 DEF QuoteInv, Reading
  <2> QED BY <2>1, <2>2
<1>4. QuoteTypeOK'
  BY <1>2 DEF QuoteInv, QuoteTypeOK, HandlerRow, Sound
<1> QED BY <1>3, <1>4 DEF QuoteInv, Working, Carries, Reads, Refits, QuoteOK, Sound, RowOK, Costs, Explained

LEMMA IdleWorks ==
  Working(Idle) /\ Idle \in HandlerRow
BY DEF Working, Carries, Reads, Refits, Idle, HandlerRow, Pricing

-----------------------------------------------------------------------------
(* Pricing.                                                                *)

Trip == [route : Route, ends : Route, half : BOOLEAN, helper : BOOLEAN]
Asked(trip) == trip \in Trip /\ (trip.half \/ trip.ends = trip.route)

LEMMA PricedOK ==
  ASSUME QuoteTypeOK, NEW trip, Asked(trip), NEW d \in Distances[trip.route],
         NEW requested,
         ~ Refused(prices.category, prices.zone, prices.slabs, d, requested)
  PROVE  LET q == Priced(trip, d)
         IN  /\ q \in Quote /\ QuoteOK(q)
             /\ q.breakdown.toll = 0 /\ q.fare = q.breakdown.base
             /\ q.helper = trip.helper
             /\ requested \in TripType => (q.type = "outstation" => requested = "outstation")
<1> DEFINE rates == RatesOf(prices.category, prices.zone, prices.slabs, d)
           type == TypeOf(prices.category, prices.zone, d)
           fare == EstimatedFare(rates, d, trip.helper)
           q == Priced(trip, d)
<1>1. prices \in Prices /\ PriceRow(prices) /\ d \in Nat /\ trip.helper \in BOOLEAN
  BY PriceTables, QuoteConstants DEF QuoteTypeOK, PriceRow, Asked, Trip
<1>2. rates \in Rates
  BY <1>1, RatesTyped
<1>3. fare \in Int
  BY <1>1, <1>2, FareTyped
<1>4. type \in TripType
  BY DEF TypeOf, Classify, TripType
<1>5. ASSUME NothingIsFree, NEW t \in AllTolls PROVE fare + t # 0
  <2>1. ~ Refused(prices.category, prices.zone, prices.slabs, d, NoBound)
    BY DEF Refused, TypeRefused
  <2>2. trip.route \in Route
    BY DEF Asked, Trip
  <2> QED BY <1>1, <1>5, <2>1, <2>2 DEF NothingIsFree, AllTolls
<1>6. requested \in TripType /\ type = "outstation" => requested = "outstation"
  BY FareConstants DEF Refused, TypeRefused, TypeOf, TripType
<1>7. q = [route |-> trip.ends, half |-> trip.half, dist |-> d, type |-> type,
           helper |-> trip.helper, fare |-> fare,
           breakdown |-> [dist |-> d, type |-> type, rates |-> rates, base |-> fare, toll |-> 0]]
  BY DEF Priced, Breakdown
<1> HIDE DEF rates, type, fare, q
<1>8. q \in Quote
  BY <1>1, <1>2, <1>3, <1>4, <1>7 DEF Quote, Asked, Trip
<1>9. Explained(q) /\ q.breakdown.toll = 0 /\ q.fare = q.breakdown.base
  BY <1>3, <1>7 DEF Explained, fare, Asked, Trip
<1>10. Costs(q.breakdown)
  BY <1>5, <1>7 DEF Costs, AllTolls
<1> QED BY <1>6, <1>7, <1>8, <1>9, <1>10 DEF QuoteOK, q

LEMMA TolledOK ==
  ASSUME NEW q \in Quote, QuoteOK(q), NEW toll, toll.amount \in TollAmounts \cup {0}
  PROVE  LET z == Tolled(q, toll)
         IN  z \in Quote /\ QuoteOK(z) /\ z.helper = q.helper /\ z.type = q.type
<1> DEFINE b == [q.breakdown EXCEPT !.toll = toll.amount]
           z == Tolled(q, toll)
<1>1. toll.amount \in AllTolls /\ toll.amount \in Nat
  BY TollsTyped DEF AllTolls
<1>2. q.breakdown \in BreakdownRow /\ q \in Quote
  BY QuoteParts
<1>3. /\ b \in BreakdownRow /\ b.toll = toll.amount /\ b.base = q.breakdown.base
      /\ b.dist = q.breakdown.dist /\ b.type = q.breakdown.type /\ b.rates = q.breakdown.rates
  BY <1>1, <1>2 DEF BreakdownRow
<1>4. z = [q EXCEPT !.fare = q.breakdown.base + toll.amount, !.breakdown = b]
  BY <1>2, QuoteParts DEF Tolled
<1> HIDE DEF b, z
<1>5. /\ z.fare = b.base + b.toll /\ z.breakdown = b /\ z.route = q.route /\ z.half = q.half
      /\ z.dist = q.dist
      /\ z.type = q.type /\ z.helper = q.helper
  BY <1>2, <1>3, <1>4, QuoteParts
<1>6. b.base + b.toll \in Int
  BY <1>3 DEF BreakdownRow
<1>7. z \in Quote
  BY <1>2, <1>3, <1>4, <1>6, QuoteParts
<1>8. Explained(z)
  BY <1>3, <1>5 DEF QuoteOK, Explained
<1>9. Costs(z.breakdown)
  BY <1>1, <1>3, <1>5 DEF QuoteOK, Costs
<1> QED BY <1>3, <1>5, <1>7, <1>8, <1>9 DEF QuoteOK, z

LEMMA FoundTyped ==
  ASSUME QuoteTypeOK
  PROVE  /\ Found \in TollRow \cup {NoRow}
         /\ Needless => KnownToll.amount \in TollAmounts \cup {0}
BY DEF QuoteTypeOK, Found, Slug, Needless, Valid, KnownToll, TollRow

LEMMA StartOK ==
  ASSUME QuoteInv, NEW g \in Handlers, NEW op \in Pricing, NEW row,
         NEW trip, Asked(trip), NEW d, NEW requested,
         StartQuote(g, op, row, trip, d, requested),
         op # "edit" => row = NoBooking,
         op = "edit" => /\ Sound(row) /\ Sound(booking)
                        /\ trip.helper = row.helper /\ requested = row.type
  PROVE  QuoteInv'
<1>0. QuoteTypeOK
  BY DEF QuoteInv
<1> DEFINE q == Priced(trip, d)
           away == q.type = "outstation"
           z == IF away /\ Needless THEN Tolled(q, KnownToll) ELSE q
           h == [op |-> op, row |-> row, late |-> {},
                 at |-> IF away /\ ~Needless THEN "fetch" ELSE "save",
                 quote |-> z,
                 found |-> IF away /\ ~Needless THEN Found ELSE NoRow]
<1>1. /\ d \in Distances[trip.route] /\ handler' = [handler EXCEPT ![g] = h]
      /\ UNCHANGED <<rows, prices, booking, changes>>
      /\ ~ Refused(prices.category, prices.zone, prices.slabs, d, requested)
  BY DEF StartQuote
<1>2. /\ q \in Quote /\ QuoteOK(q) /\ q.helper = trip.helper
      /\ requested \in TripType => (q.type = "outstation" => requested = "outstation")
  BY <1>0, <1>1, PricedOK
<1> HIDE DEF q
<1>3. z \in Quote /\ QuoteOK(z) /\ z.helper = trip.helper /\ z.type = q.type
  BY <1>0, <1>2, TolledOK, FoundTyped
<1> HIDE DEF z
<1>4. h \in HandlerRow
  BY <1>0, <1>3, FoundTyped DEF HandlerRow, Pricing, Sound
<1>5. h.op = op /\ h.quote = z /\ h.row = row
  OBVIOUS
<1> HIDE DEF h
<1>6. op = "edit" => requested \in TripType
  BY DEF Row, Sound
<1>7. Working(h)
  BY <1>2, <1>3, <1>4, <1>5, <1>6 DEF Working, Carries, Reads, Refits, Pricing
<1>8. booking' = booking /\ rows' = rows /\ prices' = prices /\ changes' = changes
  BY <1>1
<1>9. /\ booking' = NoBooking \/ Sound(booking')
      /\ Sound(booking) => Sound(booking')
      /\ rows' \in [Slug -> TollRow \cup {NoRow}]
  BY <1>8 DEF QuoteInv, QuoteTypeOK
<1>10. h.op \in {"edit", "moving", "done"} => Sound(booking)
  BY <1>5 DEF Pricing
<1>11. handler' = [handler EXCEPT ![g] = h]
  BY <1>1
<1> QED BY <1>7, <1>8, <1>9, <1>10, <1>11, HandlerStep

-----------------------------------------------------------------------------
(* One lemma for every action.                                             *)

LEMMA EstimateStep ==
  ASSUME QuoteInv, NEW g \in Handlers, NEW route \in Route, NEW d, NEW helper \in BOOLEAN,
         NEW requested,
         Estimate(g, route, d, helper, requested) \/ Create(g, route, d, helper, requested)
  PROVE  QuoteInv'
<1>1. Asked(Whole(route, helper))
  BY DEF Asked, Trip, Whole
<1> QED BY <1>1, StartOK DEF Estimate, Create, Pricing

LEMMA EditStep ==
  ASSUME QuoteInv, NEW g \in Handlers, NEW from \in Places \cup {NoPlace},
         NEW to \in Places \cup {NoPlace}, NEW halves, NEW d, Edit(g, from, to, halves, d)
  PROVE  QuoteInv'
<1>1. PICK row : row = booking
  OBVIOUS
<1> DEFINE old == row.route
           trip == [route |-> <<Given(from, old[1]), Given(to, old[2])>>,
                    ends  |-> <<IF 1 \in halves THEN old[1] ELSE Given(from, old[1]),
                                IF 2 \in halves THEN old[2] ELSE Given(to, old[2])>>,
                    half  |-> halves # {}, helper |-> row.helper]
<1>2. Sound(row) /\ Sound(booking)
  BY <1>1 DEF Edit, QuoteInv
<1>3. old \in Route /\ row.helper \in BOOLEAN
  BY <1>2 DEF Sound, Row
<1>4. old[1] \in Places /\ old[2] \in Places
  BY <1>3 DEF Route
<1>5. Given(from, old[1]) \in Places /\ Given(to, old[2]) \in Places
  BY <1>4 DEF Given
<1>6. trip.route \in Route /\ trip.ends \in Route
  BY <1>4, <1>5 DEF Route
<1>7. trip.half \/ trip.ends = trip.route
  OBVIOUS
<1>8. Asked(trip)
  BY <1>3, <1>6, <1>7 DEF Asked, Trip
<1>9. StartQuote(g, "edit", row, trip, d, row.type) /\ trip.helper = row.helper
  BY <1>1 DEF Edit
<1> HIDE DEF trip
<1> QED BY <1>2, <1>8, <1>9, StartOK DEF Pricing

LEMMA FetchedStep ==
  ASSUME QuoteInv, NEW g \in Handlers, NEW answer \in TollAmounts \cup {NoRow},
         Fetched(g, answer)
  PROVE  QuoteInv'
<1>1. PICK h0 : h0 = handler[g]
  OBVIOUS
<1>2. Working(h0) /\ h0 \in HandlerRow /\ h0.at = "fetch" /\ Reading(h0)
  BY <1>1 DEF Fetched, QuoteInv, Working
<1>3. h0.op \in Pricing /\ h0.quote \in Quote /\ QuoteOK(h0.quote)
  BY <1>2 DEF Working, Carries
<1> DEFINE toll == FetchedToll(answer, h0.found)
           z == Tolled(h0.quote, toll)
           h1 == [h0 EXCEPT !.quote = z]
           h == [[[h1 EXCEPT !.at = "save"] EXCEPT !.found = NoRow] EXCEPT !.late = {}]
<1>4. toll.amount \in TollAmounts \cup {0}
  BY <1>2 DEF FetchedToll, HandlerRow, TollRow
<1> HIDE DEF toll
<1>5. z \in Quote /\ QuoteOK(z) /\ z.helper = h0.quote.helper /\ z.type = h0.quote.type
  BY <1>3, <1>4, TolledOK
<1>6. handler' = [handler EXCEPT ![g] = h]
  <2>1. handler \in [Handlers -> HandlerRow]
    BY DEF QuoteInv, QuoteTypeOK, HandlerRow
  <2> QED BY <1>1, <2>1 DEF Fetched, toll
<1> HIDE DEF z
<1>7. h1 \in HandlerRow /\ h1.op = h0.op /\ h1.row = h0.row /\ h1.quote = z
  BY <1>2, <1>5 DEF HandlerRow
<1> HIDE DEF h1
<1>8. /\ h \in HandlerRow
      /\ h.op = h0.op /\ h.at = "save" /\ h.row = h0.row /\ h.quote = z
  BY <1>7 DEF HandlerRow
<1> HIDE DEF h
<1>9. Working(h)
  BY <1>2, <1>5, <1>8 DEF Working, Carries, Reads, Refits
<1>10. h.op \in {"edit", "moving", "done"} => Sound(booking)
  BY <1>2, <1>8 DEF Reading
<1>11. rows' \in [Slug -> TollRow \cup {NoRow}]
  <2>1. rows \in [Slug -> TollRow \cup {NoRow}]
    BY DEF QuoteInv, QuoteTypeOK
  <2>2. answer # NoRow => Stored(answer) \in [Slug -> TollRow \cup {NoRow}]
    BY <2>1 DEF Stored, TollRow, Source
  <2> QED BY <2>1, <2>2 DEF Fetched, StoreToll
<1>12. booking' = booking /\ prices' = prices /\ changes' = changes
  BY DEF Fetched
<1>13. /\ booking' = NoBooking \/ Sound(booking')
       /\ Sound(booking) => Sound(booking')
  BY <1>12 DEF QuoteInv
<1> QED BY <1>6, <1>9, <1>10, <1>11, <1>12, <1>13, HandlerStep

(* A handler that ends with what it did to the booking.                    *)
LEMMA DoneStep ==
  ASSUME QuoteInv, NEW g \in Handlers, handler' = [handler EXCEPT ![g] = Idle],
         booking' = NoBooking \/ Sound(booking'), Sound(booking) => Sound(booking'),
         UNCHANGED <<rows, prices, changes>>
  PROVE  QuoteInv'
<1>1. rows' \in [Slug -> TollRow \cup {NoRow}]
  BY DEF QuoteInv, QuoteTypeOK
<1>2. Idle.op \notin {"edit", "moving", "done"}
  BY DEF Idle
<1> QED BY <1>1, <1>2, IdleWorks, HandlerStep

LEMMA EditedSound ==
  ASSUME NEW row, Sound(row), NEW q \in Quote, QuoteOK(q), q.fare >= 0,
         q.helper = row.helper, q.type = "outstation" => row.type = "outstation"
  PROVE  Sound(Edited(row, q))
<1> DEFINE x == Edited(row, q)
<1>1. row \in Row /\ q.fare \in Nat
  BY DEF Sound, Quote
<1>2. /\ x \in Row /\ x.route = q.route /\ x.half = q.half /\ x.dist = q.dist /\ x.fare = q.fare
      /\ x.breakdown = q.breakdown /\ x.helper = row.helper /\ x.type = row.type
  BY <1>1, RowParts, QuoteParts DEF Edited
<1> HIDE DEF x
<1>3. Explained(x)
  BY <1>2 DEF QuoteOK, Explained
<1>4. RowOK(x)
  BY <1>2, <1>3 DEF RowOK, QuoteOK
<1> QED BY <1>2, <1>4 DEF Sound, x

LEMMA BookedSound ==
  ASSUME NEW q \in Quote, QuoteOK(q), q.fare >= 0
  PROVE  Sound(Booked(q))
<1> DEFINE x == Booked(q)
<1>1. q.fare \in Nat
  BY DEF Quote
<1>2. /\ x \in Row /\ x.route = q.route /\ x.half = q.half /\ x.dist = q.dist /\ x.fare = q.fare
      /\ x.breakdown = q.breakdown /\ x.helper = q.helper /\ x.type = q.type
  BY <1>1, RowParts, QuoteParts DEF Booked, Stage
<1> HIDE DEF x
<1>3. Explained(x)
  BY <1>2 DEF QuoteOK, Explained
<1>4. RowOK(x)
  BY <1>2, <1>3 DEF RowOK, QuoteOK
<1> QED BY <1>2, <1>4 DEF Sound, x

LEMMA SaveStep ==
  ASSUME QuoteInv, NEW g \in Handlers, Save(g)
  PROVE  QuoteInv'
<1>1. PICK h : h = handler[g]
  OBVIOUS
<1>2. Working(h) /\ Reading(h) /\ h.op \in Pricing
  BY <1>1 DEF QuoteInv, Save, Pricing
<1>3. h.quote \in Quote /\ QuoteOK(h.quote)
  BY <1>2 DEF Working, Carries
<1>4. h.op = "edit" /\ h.quote.fare >= 0 => Sound(Edited(h.row, h.quote))
  BY <1>2, <1>3, EditedSound DEF Working, Reads, Refits
<1>5. h.quote.fare >= 0 => Sound(Booked(h.quote))
  BY <1>3, BookedSound
<1>6. booking' = booking \/ Sound(booking')
  BY <1>1, <1>4, <1>5 DEF Save
<1>7. handler' = [handler EXCEPT ![g] = Idle] /\ UNCHANGED <<rows, prices, changes>>
  BY DEF Save
<1>8. /\ booking' = NoBooking \/ Sound(booking')
      /\ Sound(booking) => Sound(booking')
  BY <1>6 DEF QuoteInv
<1> QED BY <1>7, <1>8, DoneStep

LEMMA TransitionStep ==
  ASSUME QuoteInv, NEW g \in Handlers, NEW to \in {"moving", "done"}, Transition(g, to)
  PROVE  QuoteInv'
<1>1. PICK row : row = booking
  OBVIOUS
<1>2. Sound(row) /\ Sound(booking)
  BY <1>1 DEF Transition, QuoteInv
<1> DEFINE h == [Idle EXCEPT !.op = to, !.row = row]
<1>4. handler' = [handler EXCEPT ![g] = h]
  BY <1>1 DEF Transition
<1>5. h.op = to /\ h.at = "save" /\ h.row = row /\ h \in HandlerRow
  <2>1. Idle.at = "save" /\ Idle \in HandlerRow
    BY IdleWorks DEF Idle
  <2> QED BY <1>2, <2>1 DEF HandlerRow, Sound
<1> HIDE DEF h
<1>6. Working(h)
  BY <1>2, <1>5 DEF Working, Carries, Reads, Refits, Pricing
<1>7. rows' \in [Slug -> TollRow \cup {NoRow}] /\ prices' = prices /\ changes' = changes
  BY DEF Transition, QuoteInv, QuoteTypeOK
<1>8. booking' = booking
  BY DEF Transition
<1>9. /\ booking' = NoBooking \/ Sound(booking')
      /\ Sound(booking) => Sound(booking')
  BY <1>2, <1>8
<1> QED BY <1>2, <1>4, <1>6, <1>7, <1>9, HandlerStep

(* A row that moves on keeps the quote it has.                             *)
LEMMA StageSound ==
  ASSUME NEW x, Sound(x), NEW stage \in Stage
  PROVE  Sound([x EXCEPT !.stage = stage])
<1> DEFINE y == [x EXCEPT !.stage = stage]
<1>1. x \in Row
  BY DEF Sound
<1>2. /\ y \in Row /\ y.route = x.route /\ y.half = x.half /\ y.dist = x.dist /\ y.fare = x.fare
      /\ y.breakdown = x.breakdown /\ y.helper = x.helper /\ y.type = x.type
      /\ y.final = x.final
  BY <1>1, RowParts
<1> HIDE DEF y
<1>3. RowOK(y)
  BY <1>2 DEF Sound, RowOK, Explained
<1> QED BY <1>2, <1>3 DEF Sound, y

LEMMA DepartStep ==
  ASSUME QuoteInv, NEW g \in Handlers, Depart(g)
  PROVE  QuoteInv'
<1>1. PICK x : x = booking
  OBVIOUS
<1>2. Sound(x)
  BY <1>1 DEF QuoteInv, Reading, Depart
<1>3. Sound(booking')
  BY <1>1, <1>2, StageSound DEF Depart, Stage
<1> QED BY <1>3, DoneStep DEF Depart

(* The end of a trip: a claim, and none.                                   *)
LEMMA ClaimedSound ==
  ASSUME NEW x, Sound(x), x = booking, NEW row, Sound(row), NEW claim \in Claims
  PROVE  Sound(Claimed(row, claim))
<1> DEFINE b == [row.breakdown EXCEPT !.toll = claim]
           sum == row.breakdown.base + claim
           y1 == [x EXCEPT !.stage = "done"]
           y == [[y1 EXCEPT !.breakdown = b] EXCEPT !.final = sum]
<1>1. claim \in Nat /\ claim \in AllTolls /\ x \in Row /\ row \in Row
  BY QuoteConstants DEF AllTolls, Sound
<1>2. row.breakdown \in BreakdownRow
  BY <1>1, RowParts
<1>3. b \in BreakdownRow /\ b.toll = claim /\ b.base = row.breakdown.base /\ sum \in Int
  BY <1>1, <1>2 DEF BreakdownRow
<1>4. CASE sum < 0
  BY <1>4, StageSound DEF Claimed, Stage
<1>5. CASE sum >= 0
  <2>1. Claimed(row, claim) = y
    BY <1>3, <1>5 DEF Claimed
  <2>2. NothingIsFree => sum # 0
    BY <1>1 DEF Sound, RowOK, Costs
  <2>3. Costs(b)
    BY <1>1, <1>3 DEF Sound, RowOK, Costs
  <2> HIDE DEF b, sum
  <2>4. y1 \in Row /\ sum \in Nat /\ b \in BreakdownRow
    BY <1>1, <1>3, <1>5, RowParts DEF Stage
  <2> HIDE DEF y1
  <2>5. y \in Row /\ y.breakdown = b /\ y.final = sum
    BY <2>4, RowParts
  <2> HIDE DEF y
  <2> QED BY <2>1, <2>2, <2>3, <2>5 DEF Sound, RowOK
<1> QED BY <1>3, <1>4, <1>5

LEMMA UnclaimedSound ==
  ASSUME NEW x, Sound(x), x = booking, NEW row, Sound(row)
  PROVE  Sound(Unclaimed(row))
<1> DEFINE final == IF row.final = 0 THEN row.fare ELSE x.final
           y == [x EXCEPT !.stage = "done", !.final = final]
<1>1. x \in Row /\ row \in Row
  BY DEF Sound
<1>2. final \in Nat
  BY <1>1, RowParts
<1>3. Unclaimed(row) = y
  BY <1>1, RowParts DEF Unclaimed
<1>4. NothingIsFree /\ row.final = 0 => row.fare # 0
  <2>1. Costs(row.breakdown) /\ (NothingIsFree /\ row.final = 0 => Explained(row))
    BY DEF Sound, RowOK
  <2> QED BY <2>1 DEF Costs, Explained
<1>5. NothingIsFree /\ final = 0 => x.final = 0
  BY <1>4
<1> HIDE DEF final
<1>6. /\ y \in Row /\ y.route = x.route /\ y.half = x.half /\ y.dist = x.dist /\ y.fare = x.fare
      /\ y.breakdown = x.breakdown /\ y.helper = x.helper /\ y.type = x.type
      /\ y.final = final
  BY <1>1, <1>2, RowParts DEF Stage
<1> HIDE DEF y
<1>7. RowOK(y)
  BY <1>5, <1>6 DEF Sound, RowOK, Explained
<1> QED BY <1>3, <1>6, <1>7 DEF Sound

LEMMA CompleteStep ==
  ASSUME QuoteInv, NEW g \in Handlers, NEW claim \in Claims \cup {NoRow}, Complete(g, claim)
  PROVE  QuoteInv'
<1>1. PICK x, row : x = booking /\ row = handler[g].row
  OBVIOUS
<1>2. Sound(x) /\ Sound(row)
  BY <1>1 DEF QuoteInv, Working, Reading, Reads, Complete
<1>3. booking' = IF claim = NoRow THEN Unclaimed(row) ELSE Claimed(row, claim)
  BY <1>1 DEF Complete
<1>4. Sound(booking')
  BY <1>1, <1>2, <1>3, ClaimedSound, UnclaimedSound
<1> QED BY <1>4, DoneStep DEF Complete

(* What a handler has read is none of the administrators' business.        *)
LEMMA TablesStep ==
  ASSUME QuoteInv, handler' = handler \/ \E s \in Slug : Touched(s),
         prices' \in Prices, rows' \in [Slug -> TollRow \cup {NoRow}],
         changes' \in 0 .. MaxChanges, booking' = booking
  PROVE  QuoteInv'
<1>1. handler \in [Handlers -> HandlerRow]
  BY DEF QuoteInv, QuoteTypeOK, HandlerRow
<1>2. ASSUME NEW h \in HandlerRow, NEW s \in Slug
      PROVE  LET z == [h EXCEPT !.late = @ \cup {s}]
             IN  z \in HandlerRow /\ (Working(h) => Working(z)) /\ z.op = h.op
  <2> DEFINE z == [h EXCEPT !.late = @ \cup {s}]
  <2>1. /\ z \in HandlerRow /\ z.op = h.op /\ z.at = h.at /\ z.row = h.row
        /\ z.quote = h.quote
    BY <1>2 DEF HandlerRow
  <2> HIDE DEF z
  <2>2. Working(h) => Working(z)
    BY <2>1 DEF Working, Carries, Reads, Refits
  <2> QED BY <2>1, <2>2 DEF z
<1>3. handler' \in [Handlers -> HandlerRow]
  BY <1>1, <1>2 DEF Touched
<1>4. ASSUME NEW x \in Handlers PROVE Working(handler'[x]) /\ Reading(handler[x])'
  <2>1. Working(handler[x]) /\ handler[x] \in HandlerRow
    BY <1>1 DEF QuoteInv
  <2>2. ASSUME NEW s \in Slug, Touched(s)
        PROVE  Working(handler'[x]) /\ handler'[x].op = handler[x].op
    <3>1. handler'[x] = IF handler[x].at = "fetch"
                          THEN [handler[x] EXCEPT !.late = @ \cup {s}] ELSE handler[x]
      BY <2>2 DEF Touched
    <3> QED BY <1>2, <2>1, <3>1
  <2>3. Working(handler'[x]) /\ handler'[x].op = handler[x].op
    BY <2>1, <2>2
  <2> QED BY <2>3 DEF Reading, QuoteInv
<1>5. QuoteTypeOK'
  BY <1>3 DEF QuoteInv, QuoteTypeOK, HandlerRow
<1> QED BY <1>4, <1>5 DEF QuoteInv, Working, Carries, Reads, Refits, QuoteOK, Sound, RowOK, Costs, Explained

LEMMA Counting ==
  ASSUME QuoteTypeOK, Changing
  PROVE  changes' \in 0 .. MaxChanges
BY QuoteConstants DEF QuoteTypeOK, Changing

LEMMA EditPricesStep ==
  ASSUME QuoteInv, NEW p \in Prices, EditPrices(p)
  PROVE  QuoteInv'
BY Counting, TablesStep DEF EditPrices, QuoteInv, QuoteTypeOK

LEMMA TollRowTyped ==
  ASSUME NEW row \in TollRow
  PROVE  /\ [row EXCEPT !.live = FALSE] \in TollRow
         /\ [row EXCEPT !.active = ~@] \in TollRow
BY DEF TollRow

LEMMA EditTollStep ==
  ASSUME QuoteInv, NEW s \in Slug, EditToll(s)
  PROVE  QuoteInv'
<1>1. rows \in [Slug -> TollRow \cup {NoRow}]
  BY DEF QuoteInv, QuoteTypeOK
<1>2. ASSUME NEW amount \in TollAmounts, NEW live \in BOOLEAN, Override(s, amount, live)
      PROVE  rows' \in [Slug -> TollRow \cup {NoRow}]
  BY <1>1, <1>2 DEF Override, TollRow, Source
<1>3. Switch(s) => rows' \in [Slug -> TollRow \cup {NoRow}]
  <2>1. rows[s] # NoRow => [rows[s] EXCEPT !.active = ~@] \in TollRow
    BY <1>1, TollRowTyped
  <2> QED BY <1>1, <2>1 DEF Switch
<1>4. Delete(s) => rows' \in [Slug -> TollRow \cup {NoRow}]
  BY <1>1 DEF Delete
<1>5. rows' \in [Slug -> TollRow \cup {NoRow}]
  BY <1>2, <1>3, <1>4 DEF EditToll
<1>6. changes' \in 0 .. MaxChanges
  BY Counting DEF EditToll, QuoteInv
<1> QED BY <1>5, <1>6, TablesStep DEF EditToll, QuoteInv, QuoteTypeOK

LEMMA AgeTollsStep ==
  ASSUME QuoteInv, AgeTolls
  PROVE  QuoteInv'
<1>1. rows \in [Slug -> TollRow \cup {NoRow}]
  BY DEF QuoteInv, QuoteTypeOK
<1>2. \A s \in Slug : rows[s] # NoRow => [rows[s] EXCEPT !.live = FALSE] \in TollRow
  BY <1>1, TollRowTyped
<1>3. Flush => rows' \in [Slug -> TollRow \cup {NoRow}]
  BY <1>1, <1>2 DEF Flush, Flushed, Cached
<1>4. ASSUME NEW s \in Slug, Expire(s) PROVE rows' \in [Slug -> TollRow \cup {NoRow}]
  BY <1>1, <1>2, <1>4 DEF Expire
<1>5. rows' \in [Slug -> TollRow \cup {NoRow}]
  BY <1>3, <1>4 DEF AgeTolls
<1>6. changes' \in 0 .. MaxChanges
  BY Counting DEF AgeTolls, QuoteInv
<1> QED BY <1>5, <1>6, TablesStep DEF AgeTolls, QuoteInv, QuoteTypeOK

LEMMA QuoteStutters ==
  ASSUME QuoteInv, UNCHANGED quoteVars
  PROVE  QuoteInv'
BY TablesStep DEF quoteVars, QuoteInv, QuoteTypeOK

LEMMA QuoteStarts == QuoteInit => QuoteInv
<1> SUFFICES ASSUME QuoteInit PROVE QuoteInv
  OBVIOUS
<1>1. handler \in [Handlers -> HandlerRow]
  BY IdleWorks DEF QuoteInit
<1>2. \A g \in Handlers : Working(handler[g]) /\ Reading(handler[g])
  BY IdleWorks DEF QuoteInit, Reading, Idle
<1> QED BY <1>1, <1>2, QuoteConstants DEF QuoteInit, QuoteInv, QuoteTypeOK, HandlerRow

LEMMA QuoteSteps == QuoteInv /\ [QuoteNext]_quoteVars => QuoteInv'
<1> SUFFICES ASSUME QuoteInv, [QuoteNext]_quoteVars PROVE QuoteInv'
  OBVIOUS
<1>1. ASSUME NEW g \in Handlers, NEW route \in Route, NEW helper \in Helpers,
             NEW requested \in TripType \cup {NoBound}, NEW d \in Distances[route],
             Estimate(g, route, d, helper, requested) \/ Create(g, route, d, helper, requested)
      PROVE  QuoteInv'
  BY <1>1, EstimateStep, QuoteConstants
<1>2. ASSUME NEW g \in Handlers, NEW from \in Places \cup {NoPlace},
             NEW to \in Places \cup {NoPlace}, NEW halves, NEW d,
             Edit(g, from, to, halves, d)
      PROVE  QuoteInv'
  BY <1>2, EditStep
<1>3. ASSUME NEW g \in Handlers, NEW answer \in TollAmounts \cup {NoRow}, Fetched(g, answer)
      PROVE  QuoteInv'
  BY <1>3, FetchedStep
<1>4. ASSUME NEW g \in Handlers, Save(g) PROVE QuoteInv'
  BY <1>4, SaveStep
<1>5. ASSUME NEW g \in Handlers, NEW to \in {"moving", "done"}, Transition(g, to)
      PROVE  QuoteInv'
  BY <1>5, TransitionStep
<1>6. ASSUME NEW g \in Handlers, Depart(g) PROVE QuoteInv'
  BY <1>6, DepartStep
<1>7. ASSUME NEW g \in Handlers, NEW claim \in Claims \cup {NoRow}, Complete(g, claim)
      PROVE  QuoteInv'
  BY <1>7, CompleteStep
<1>8. ASSUME NEW p \in Prices, EditPrices(p) PROVE QuoteInv'
  BY <1>8, EditPricesStep
<1>9. ASSUME NEW s \in Slug, EditToll(s) PROVE QuoteInv'
  BY <1>9, EditTollStep
<1> QED BY <1>1, <1>2, <1>3, <1>4, <1>5, <1>6, <1>7, <1>8, <1>9,
           AgeTollsStep, QuoteStutters DEF QuoteNext

LEMMA QuotesKept == QuoteSpec => []QuoteInv
BY QuoteStarts, QuoteSteps, PTL DEF QuoteSpec

(* The prices, tolls, bookings and requests stay what they are said to be. *)
THEOREM QuoteTypeCorrect == QuoteSpec => []QuoteTypeOK
<1>1. QuoteInv => QuoteTypeOK
  BY DEF QuoteInv
<1> QED BY <1>1, QuotesKept, PTL

(* Whatever requests overtake each other, a row that has no final fare yet *)
(* has the fare its own breakdown explains, of its own distance.           *)
THEOREM BreakdownAlwaysExplains == QuoteSpec => []BreakdownExplainsFare
<1>1. QuoteInv => BreakdownExplainsFare
  BY DEF QuoteInv, Sound, RowOK, Explained, BreakdownExplainsFare
<1> QED BY <1>1, QuotesKept, PTL

-----------------------------------------------------------------------------
(* The price tables, whenever an administrator writes them.                *)

LEMMA ChargedTyped ==
  ASSUME QuoteTypeOK
  PROVE  Charged \subseteq Rates
<1>1. /\ prices.category \in CategoryRow
      /\ prices.slabs \subseteq SlabRow
  BY PriceTables DEF QuoteTypeOK
<1> QED BY <1>1, CategoryRates, RatesOfSlab DEF Charged

(* Whatever rates the tables come to hold, distance_charge bills every     *)
(* kilometre after those of the base fare once, at its own rate.           *)
THEOREM KilometresBilledOnce == QuoteSpec => EveryKmBilledOnce
<1>1. QuoteTypeOK' =>
        (prices' # prices =>
           \A r \in Charged' :
             /\ Billed(r, r.baseKm) = 0
             /\ \A d \in r.baseKm .. MaxKm : Billed(r, d + 1) = Billed(r, d) + RateAt(d, r))
  <2> SUFFICES ASSUME QuoteTypeOK', NEW r \in Charged'
               PROVE  /\ Billed(r, r.baseKm) = 0
                      /\ \A d \in r.baseKm .. MaxKm :
                           Billed(r, d + 1) = Billed(r, d) + RateAt(d, r)
    OBVIOUS
  <2>1. (QuoteTypeOK => Charged \subseteq Rates)'
    BY ChargedTyped, PTL
  <2>2. r \in Rates
    BY <2>1
  <2> QED BY <2>2, NothingBilled, NextKmBilled DEF Rates
<1> QED BY <1>1, QuoteTypeCorrect, PTL DEF EveryKmBilledOnce

(* Nor does a longer trip ever cost less, by rates that are not negative.  *)
THEOREM LongerTripsCostNoLess == QuoteSpec => LongerNeverCheaper
<1>1. QuoteTypeOK' =>
        (prices' # prices =>
           \A r \in {x \in Charged' : x.perKm >= 0}, d \in 0 .. MaxKm :
             /\ DistanceCharge(r, d) <= DistanceCharge(r, d + 1)
             /\ r.floor <= r.perKm =>
                  Hundred * r.floor <= RateAt(d + 1, r) /\ RateAt(d + 1, r) <= RateAt(d, r))
  <2> SUFFICES ASSUME QuoteTypeOK', NEW r \in {x \in Charged' : x.perKm >= 0},
                      NEW d \in 0 .. MaxKm
               PROVE  /\ DistanceCharge(r, d) <= DistanceCharge(r, d + 1)
                      /\ r.floor <= r.perKm =>
                           /\ Hundred * r.floor <= RateAt(d + 1, r)
                           /\ RateAt(d + 1, r) <= RateAt(d, r)
    OBVIOUS
  <2>1. (QuoteTypeOK => Charged \subseteq Rates)'
    BY ChargedTyped, PTL
  <2>2. r \in Rates /\ r.perKm >= 0 /\ d \in Nat
    BY <2>1, QuoteConstants
  <2> QED BY <2>2, ChargeGrows, RateFalls
<1> QED BY <1>1, QuoteTypeCorrect, PTL DEF LongerNeverCheaper

-----------------------------------------------------------------------------
(* Manual overrides.  A lookup that found one asks nobody, so a handler    *)
(* that waits for the toll service began without one in the category's     *)
(* own row, or that row has been touched since.                            *)
Unaware(h) == h.at = "fetch" /\ "own" \notin h.late
OverrideInv ==
  /\ QuoteTypeOK
  /\ \A g \in Handlers : Unaware(handler[g]) => ~ Overridden("own")

LEMMA OverrideFound ==
  ASSUME Overridden("own")
  PROVE  Needless
BY DEF Overridden, Needless, Found, Valid, Cached

LEMMA OverrideStart ==
  ASSUME OverrideInv, NEW g \in Handlers, NEW op, NEW row, NEW trip, NEW d,
         NEW requested, StartQuote(g, op, row, trip, d, requested)
  PROVE  rows' = rows /\ \A x \in Handlers : Unaware(handler'[x]) => ~ Overridden("own")
BY OverrideFound DEF StartQuote, OverrideInv, QuoteTypeOK, Unaware

(* Only an answer of the toll service and an administrator write a toll.   *)
LEMMA OverrideStep ==
  ASSUME OverrideInv, [QuoteNext]_quoteVars
  PROVE  /\ \A g \in Handlers : Unaware(handler'[g]) => ~ Overridden("own")'
         /\ \A s \in Slug :
              Overridden(s) /\ rows'[s] # rows[s] =>
                \/ changes' # changes
                \/ \E g \in Handlers : s \in handler[g].late /\ handler'[g].at = "save"
<1> DEFINE Goal1 == \A g \in Handlers : Unaware(handler'[g]) => ~ Overridden("own")'
           Goal2 == \A s \in Slug :
              Overridden(s) /\ rows'[s] # rows[s] =>
                \/ changes' # changes
                \/ \E g \in Handlers : s \in handler[g].late /\ handler'[g].at = "save"
<1>0. /\ handler \in [Handlers -> HandlerRow] /\ changes \in Nat
      /\ rows \in [Slug -> TollRow \cup {NoRow}]
  BY DEF OverrideInv, QuoteTypeOK, HandlerRow
<1>1. ASSUME rows' = rows, \A g \in Handlers : Unaware(handler'[g]) => ~ Overridden("own")
      PROVE  Goal1 /\ Goal2
  BY <1>1 DEF Overridden, Cached
<1>2. ASSUME NEW g \in Handlers, NEW h, handler' = [handler EXCEPT ![g] = h],
             ~ Unaware(h), rows' = rows
      PROVE  Goal1 /\ Goal2
  BY <1>0, <1>1, <1>2 DEF OverrideInv
<1>3. ~ Unaware(Idle)
  BY DEF Idle, Unaware
<1> HIDE DEF Goal1, Goal2
<1>4. ASSUME NEW g \in Handlers, NEW route \in Route, NEW helper \in Helpers,
             NEW requested \in TripType \cup {NoBound}, NEW d \in Distances[route],
             Estimate(g, route, d, helper, requested) \/ Create(g, route, d, helper, requested)
      PROVE  Goal1 /\ Goal2
  BY <1>1, <1>4, OverrideStart DEF Estimate, Create
<1>5. ASSUME NEW g \in Handlers, NEW from \in Places \cup {NoPlace},
             NEW to \in Places \cup {NoPlace}, NEW halves, NEW d,
             Edit(g, from, to, halves, d)
      PROVE  Goal1 /\ Goal2
  BY <1>1, <1>5, OverrideStart DEF Edit
<1>6. ASSUME NEW g \in Handlers, NEW answer \in TollAmounts \cup {NoRow}, Fetched(g, answer)
      PROVE  Goal1 /\ Goal2
  <2>1. handler[g].at = "fetch" /\ handler'[g].at = "save"
    BY <1>0, <1>6 DEF Fetched, HandlerRow
  <2>2. \A x \in Handlers : x # g => handler'[x] = handler[x]
    BY <1>0, <1>6 DEF Fetched
  <2>3. rows'["all"] = rows["all"]
    BY <1>0, <1>6 DEF Fetched, StoreToll, Stored, Slug
  <2>4. rows' = rows \/ ~ Overridden("own")'
    BY <1>0, <1>6 DEF Fetched, StoreToll, Stored, Overridden, Slug
  <2>5. Goal1
    BY <2>1, <2>2, <2>4 DEF Goal1, Unaware, OverrideInv, Overridden, Cached
  <2>6. Goal2
    BY <2>1, <2>3 DEF Goal2, Unaware, OverrideInv, Slug
  <2> QED BY <2>5, <2>6
<1>7. ASSUME NEW g \in Handlers, Save(g) \/ Depart(g) PROVE Goal1 /\ Goal2
  BY <1>2, <1>3, <1>7 DEF Save, Depart
<1>8. ASSUME NEW g \in Handlers, NEW to \in {"moving", "done"}, Transition(g, to)
      PROVE  Goal1 /\ Goal2
  <2>1. ~ Unaware([Idle EXCEPT !.op = to, !.row = booking])
    BY DEF Idle, Unaware
  <2> QED BY <1>2, <1>8, <2>1 DEF Transition
<1>9. ASSUME NEW g \in Handlers, NEW claim \in Claims \cup {NoRow}, Complete(g, claim)
      PROVE  Goal1 /\ Goal2
  BY <1>2, <1>3, <1>9 DEF Complete
<1>10. ASSUME NEW p \in Prices, EditPrices(p) PROVE Goal1 /\ Goal2
  BY <1>1, <1>10 DEF EditPrices, OverrideInv
<1>11. Changing => Goal2
  BY <1>0 DEF Changing, Goal2
<1>12. ASSUME NEW s \in Slug, EditToll(s) PROVE Goal1 /\ Goal2
  <2>1. \A x \in Handlers : Unaware(handler'[x]) => Unaware(handler[x]) /\ s # "own"
    BY <1>0, <1>12 DEF EditToll, Touched, Unaware, HandlerRow
  <2>2. s # "own" => rows'["own"] = rows["own"]
    BY <1>0, <1>12 DEF EditToll, Override, Switch, Delete, Slug
  <2>3. Goal1
    BY <2>1, <2>2 DEF Goal1, OverrideInv, Overridden, Cached
  <2> QED BY <1>11, <1>12, <2>3 DEF EditToll
<1>13. ASSUME AgeTolls PROVE Goal1 /\ Goal2
  <2>1. \A x \in TollRow \cup {NoRow} : x # NoRow =>
          LET y == [x EXCEPT !.live = FALSE] IN y.source = x.source /\ y.active = x.active
    BY DEF TollRow
  <2>2. Overridden("own")' => Overridden("own")
    BY <1>0, <1>13, <2>1 DEF AgeTolls, Flush, Flushed, Expire, Overridden, Cached, Slug
  <2>3. handler' = handler
    BY <1>13 DEF AgeTolls
  <2>4. Goal1
    BY <2>2, <2>3 DEF Goal1, OverrideInv
  <2> QED BY <1>11, <1>13, <2>4 DEF AgeTolls
<1>14. UNCHANGED quoteVars => Goal1 /\ Goal2
  BY <1>1 DEF quoteVars, OverrideInv
<1> QED BY <1>4, <1>5, <1>6, <1>7, <1>8, <1>9, <1>10, <1>12, <1>13, <1>14 DEF QuoteNext, Goal1, Goal2

(* A manual override outlives every quote priced after it.                 *)
THEOREM OverrideStands == QuoteSpec => OverrideOutlivesLaterQuotes
<1>1. QuoteInit => (\A g \in Handlers : Unaware(handler[g]) => ~ Overridden("own"))
  BY DEF QuoteInit, Unaware, Idle
<1>2. QuoteTypeOK /\ QuoteInit => OverrideInv
  BY <1>1 DEF OverrideInv
<1>3. OverrideInv /\ [QuoteNext]_quoteVars /\ QuoteTypeOK' => OverrideInv'
  BY OverrideStep DEF OverrideInv, Unaware
<1>4. OverrideInv /\ [QuoteNext]_quoteVars =>
        [\A s \in Slug :
           Overridden(s) /\ rows'[s] # rows[s] =>
             \/ changes' # changes
             \/ \E g \in Handlers : s \in handler[g].late /\ handler'[g].at = "save"]_quoteVars
  BY OverrideStep
<1> QED BY <1>2, <1>3, <1>4, QuoteTypeCorrect, PTL DEF QuoteSpec, OverrideOutlivesLaterQuotes

=============================================================================
