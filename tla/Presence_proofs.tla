-------------------------- MODULE Presence_proofs ---------------------------
(***************************************************************************)
(* Theorems about module Presence and the geometry of module Zones, for    *)
(* any number of drivers and requests, any zone and any positions.         *)
(***************************************************************************)
EXTENDS Presence, FiniteSetTheorems, TLAPS

(* A nonempty set of finite sets has a smallest: induction over finite     *)
(* sets is by a smallest counterexample here.                              *)
LEMMA SmallestSet ==
  ASSUME NEW S, NEW T \in SUBSET FiniteSubsetsOf(S), T # {}
  PROVE  \E x \in T : \A y \in T : ~(y \subseteq x /\ y # x)
<1>1. IsWellFoundedOn(StrictSubsetOrdering(S), FiniteSubsetsOf(S))
  BY FS_StrictSubsetOrderingWellFounded
<1>2. PICK x \in T : \A y \in T : ~(<<y, x>> \in StrictSubsetOrdering(S))
  BY <1>1, WFMin
<1>3. \A y \in T : y \in SUBSET S
  BY DEF FiniteSubsetsOf
<1> QED  BY <1>2, <1>3 DEF StrictSubsetOrdering

-----------------------------------------------------------------------------
(* Presence: every action keeps the types.                                 *)
Asking == [at : RequestStep, driver : Phones \cup {NoPoint}, point : Points \cup {NoPoint}]
Named(r) == r.at \in {"first", "row", "geoadd", "hset", "expire", "throttle", "zrem", "delete"}
              => r.driver \in Phones
Pointed(r) == r.at \in {"first", "row"} => r.point \in Points
PresenceInv ==
  /\ PresenceTypeOK
  /\ \A q \in Requests : Named(request[q]) /\ Pointed(request[q])

LEMMA AskingTyped ==
  /\ NoDriverYet \in Asking /\ Named(NoDriverYet) /\ Pointed(NoDriverYet)
  /\ \A d \in Phones, p \in Points, at \in {"first", "row"} :
       LET r == [at |-> at, driver |-> d, point |-> p]
       IN  r \in Asking /\ Named(r) /\ Pointed(r)
  /\ \A d \in Phones :
       LET r == [at |-> "zrem", driver |-> d, point |-> NoPoint]
       IN  r \in Asking /\ Named(r) /\ Pointed(r)
  /\ \A r \in Asking, at \in RequestStep \ {"first", "row"} :
       LET n == [r EXCEPT !.at = at]
       IN  n \in Asking /\ (r.driver \in Phones => Named(n)) /\ Pointed(n)
BY DEF NoDriverYet, Asking, RequestStep, Named, Pointed

(* One request's next step. *)
LEMMA RequestKeeps ==
  ASSUME request \in [Requests -> Asking],
         \A q \in Requests : Named(request[q]) /\ Pointed(request[q]),
         NEW q \in Requests, NEW r \in Asking, Named(r), Pointed(r),
         request' = [request EXCEPT ![q] = r]
  PROVE  /\ request' \in [Requests -> Asking]
         /\ \A x \in Requests : Named(request'[x]) /\ Pointed(request'[x])
OBVIOUS

LEMMA PresenceStarts == PresenceInit => PresenceInv
BY AskingTyped, PresenceConstants DEF PresenceInit, PresenceInv, PresenceTypeOK, Asking

RequestsOK ==
  /\ request \in [Requests -> Asking]
  /\ \A q \in Requests : Named(request[q]) /\ Pointed(request[q])

LEMMA CalledKeeps ==
  ASSUME RequestsOK, NEW q \in Requests, NEW d \in Phones, NEW point \in Points,
         Called(q, d, point)
  PROVE  RequestsOK'
<1> DEFINE r == IF Throttled(d) THEN NoDriverYet
                ELSE [at |-> "row", driver |-> d, point |-> point]
<1>1. PICK x : x = r
  OBVIOUS
<1>2. x \in Asking /\ Named(x) /\ Pointed(x)
  BY <1>1, AskingTyped
<1>3. request' = [request EXCEPT ![q] = x]
  BY <1>1 DEF Called
<1> QED BY <1>2, <1>3, RequestKeeps DEF RequestsOK

LEMMA ProceedKeeps ==
  ASSUME RequestsOK, NEW q \in Requests, NEW at \in RequestStep \ {"first", "row"},
         request[q].at # "idle", Proceed(q, at)
  PROVE  RequestsOK'
<1> DEFINE r == IF at = "idle" THEN NoDriverYet ELSE [request[q] EXCEPT !.at = at]
<1>1. PICK x : x = r
  OBVIOUS
<1>2. request[q] \in Asking /\ request[q].driver \in Phones
  BY DEF RequestsOK, Asking, Named, RequestStep
<1>3. x \in Asking /\ Named(x) /\ Pointed(x)
  BY <1>1, <1>2, AskingTyped
<1>4. request' = [request EXCEPT ![q] = x]
  BY <1>1 DEF Proceed
<1> QED BY <1>3, <1>4, RequestKeeps DEF RequestsOK

LEMMA PresenceSteps == PresenceInv /\ [PresenceNext]_presenceVars => PresenceInv'
<1> SUFFICES ASSUME PresenceInv, [PresenceNext]_presenceVars PROVE PresenceInv'
  OBVIOUS
<1>0. RequestsOK
  BY DEF PresenceInv, PresenceTypeOK, RequestsOK, Asking
<1> DEFINE Rest == /\ sockets \subseteq Phones
                   /\ online \in [Phones -> BOOLEAN]
                   /\ live \in [Phones -> Points \cup {NoPoint}]
                   /\ geo \subseteq Phones
                   /\ meta \in [Phones -> {"absent", "expiring", "lasting"}]
                   /\ throttled \in [Phones -> BOOLEAN]
                   /\ sections \in Configured \cup {<<>>}
                   /\ errors \in 0 .. MaxErrors /\ switches \in 0 .. MaxSwitches
<1>1. Rest
  BY DEF PresenceInv, PresenceTypeOK
<1>2. Rest' /\ RequestsOK' => PresenceInv'
  BY DEF PresenceInv, PresenceTypeOK, RequestsOK, Asking
<1> USE DEF redis
<1>3. ASSUME NEW q \in Requests, NEW d \in Phones, NEW point \in Points, Report(q, d, point)
      PROVE  Rest' /\ RequestsOK'
  BY <1>0, <1>1, <1>3, CalledKeeps DEF Report
<1>4. ASSUME NEW q \in Requests, NEW d \in Phones, NEW point \in Points \cup {NoPoint},
             GoOnline(q, d, point)
      PROVE  Rest' /\ RequestsOK'
  <2>1. Rest'
    BY <1>1, <1>4, PresenceConstants DEF GoOnline
  <2>2. RequestsOK'
    <3>1. CASE point = NoPoint
      BY <1>0, <1>4, <3>1 DEF GoOnline, RequestsOK
    <3>2. CASE point # NoPoint
      <4>1. PICK x : x = [at |-> "first", driver |-> d, point |-> point]
        OBVIOUS
      <4>2. x \in Asking /\ Named(x) /\ Pointed(x)
        BY <3>2, <4>1, AskingTyped
      <4>3. request' = [request EXCEPT ![q] = x]
        BY <1>4, <3>2, <4>1 DEF GoOnline
      <4> QED BY <1>0, <4>2, <4>3, RequestKeeps DEF RequestsOK
    <3> QED BY <3>1, <3>2
  <2> QED BY <2>1, <2>2
<1>5. ASSUME NEW q \in Requests, NEW d \in Phones, GoOffline(q, d)
      PROVE  Rest' /\ RequestsOK'
  <2>1. Rest'
    BY <1>1, <1>5, PresenceConstants DEF GoOffline
  <2>2. PICK x : x = [at |-> "zrem", driver |-> d, point |-> NoPoint]
    OBVIOUS
  <2>3. x \in Asking /\ Named(x) /\ Pointed(x)
    BY <2>2, AskingTyped
  <2>4. request' = [request EXCEPT ![q] = x]
    BY <1>5, <2>2 DEF GoOffline
  <2> QED BY <1>0, <2>1, <2>3, <2>4, RequestKeeps DEF RequestsOK
<1>6. ASSUME NEW q \in Requests, Work(q)
      PROVE  Rest' /\ RequestsOK'
  <2>1. request[q] \in Asking /\ Named(request[q]) /\ Pointed(request[q])
    BY <1>0 DEF RequestsOK
  <2>2. First(q) => Rest' /\ RequestsOK'
    BY <1>0, <1>1, <2>1, CalledKeeps DEF First, Named, Pointed
  <2>3. CASE WriteRow(q)
    BY <1>0, <1>1, <2>1, <2>3, ProceedKeeps DEF WriteRow, Named, Pointed, RequestStep
  <2>4. CASE GeoAdd(q)
    BY <1>0, <1>1, <2>1, <2>4, ProceedKeeps DEF GeoAdd, Named, RequestStep
  <2>5. CASE HSet(q)
    BY <1>0, <1>1, <2>1, <2>5, ProceedKeeps DEF HSet, Named, RequestStep
  <2>6. CASE Expire(q)
    BY <1>0, <1>1, <2>1, <2>6, ProceedKeeps DEF Expire, Named, RequestStep
  <2>7. CASE Throttle(q)
    BY <1>0, <1>1, <2>1, <2>7, ProceedKeeps DEF Throttle, Named, RequestStep
  <2>8. CASE ZRem(q)
    BY <1>0, <1>1, <2>1, <2>8, ProceedKeeps DEF ZRem, Named, RequestStep
  <2>9. CASE DeleteMeta(q)
    BY <1>0, <1>1, <2>1, <2>9, ProceedKeeps DEF DeleteMeta, Named, RequestStep
  <2> QED BY <1>6, <2>2, <2>3, <2>4, <2>5, <2>6, <2>7, <2>8, <2>9 DEF Work
<1>7. ASSUME NEW q \in Requests, RedisError(q)
      PROVE  Rest' /\ RequestsOK'
  <2>1. Rest'
    BY <1>1, <1>7, PresenceConstants DEF RedisError
  <2>2. RequestsOK'
    BY <1>0, <1>7, ProceedKeeps DEF RedisError, RequestStep
  <2> QED BY <2>1, <2>2
<1>8. ASSUME NEW d \in Phones, Unthrottle(d) \/ MetaExpires(d)
      PROVE  Rest' /\ RequestsOK'
  BY <1>0, <1>1, <1>8 DEF Unthrottle, MetaExpires, RequestsOK
<1>9. ASSUME NEW s \in Configured, ConfigureSections(s)
      PROVE  Rest' /\ RequestsOK'
  BY <1>0, <1>1, <1>9, PresenceConstants DEF ConfigureSections, RequestsOK
<1>10. UNCHANGED presenceVars => Rest' /\ RequestsOK'
  BY <1>0, <1>1 DEF presenceVars, RequestsOK
<1> HIDE DEF Rest
<1> QED BY <1>2, <1>3, <1>4, <1>5, <1>6, <1>7, <1>8, <1>9, <1>10 DEF PresenceNext

LEMMA PresenceKept == PresenceSpec => []PresenceInv
BY PresenceStarts, PresenceSteps, PTL DEF PresenceSpec

(* Whatever requests of whatever drivers overlap, a row, the index and the *)
(* metadata hold what they are said to.                                    *)
THEOREM PresenceTypeCorrect == PresenceSpec => []PresenceTypeOK
<1>1. PresenceInv => PresenceTypeOK
  BY DEF PresenceInv
<1> QED BY <1>1, PresenceKept, PTL

-----------------------------------------------------------------------------
(* Zones: the box around a ring.                                           *)

Bounds(S, lo, hi) == lo \in S /\ hi \in S /\ \A y \in S : lo <= y /\ y <= hi

LEMMA BoundsExist ==
  ASSUME NEW S \in SUBSET Int, IsFiniteSet(S), S # {}
  PROVE  \E lo, hi \in S : Bounds(S, lo, hi)
<1> DEFINE Bad == {T \in FiniteSubsetsOf(S) : T # {} /\ ~ \E lo, hi \in T : Bounds(T, lo, hi)}
<1>1. CASE Bad = {}
  BY <1>1 DEF FiniteSubsetsOf
<1>2. CASE Bad # {}
  <2>1. PICK T \in Bad : \A U \in Bad : ~ (U \subseteq T /\ U # T)
    <3>1. Bad \in SUBSET FiniteSubsetsOf(S)
      OBVIOUS
    <3> HIDE DEF Bad
    <3> QED BY <1>2, <3>1, SmallestSet
  <2>2. T \subseteq S /\ IsFiniteSet(T) /\ T # {} /\ ~ \E lo, hi \in T : Bounds(T, lo, hi)
    BY <2>1 DEF FiniteSubsetsOf
  <2>3. PICK x \in T : TRUE
    BY <2>2
  <2> DEFINE U == T \ {x}
  <2>4. /\ U \subseteq S /\ IsFiniteSet(U) /\ U \subseteq T /\ U # T
        /\ U \notin Bad
    <3>1. IsFiniteSet(U)
      BY <2>2, FS_RemoveElement
    <3>2. U \subseteq S /\ U \subseteq T /\ U # T
      BY <2>2, <2>3
    <3> HIDE DEF U, Bad
    <3> QED BY <2>1, <3>1, <3>2
  <2>5. x \in Int /\ T \subseteq Int
    BY <2>2, <2>3
  <2>6. U # {}
    <3>1. U = {} => T = {x}
      BY <2>3
    <3> QED BY <2>2, <2>5, <3>1 DEF Bounds
  <2>7. PICK a, b \in U : Bounds(U, a, b)
    BY <2>4, <2>6 DEF FiniteSubsetsOf
  <2>8. a \in Int /\ b \in Int /\ a \in T /\ b \in T /\ T = U \cup {x}
    BY <2>3, <2>5, <2>7
  <2>9. \A y \in T : y = x \/ (a <= y /\ y <= b)
    BY <2>7, <2>8 DEF Bounds
  <2>10. PICK lo \in T : lo = IF x < a THEN x ELSE a
    BY <2>3, <2>8
  <2>11. PICK hi \in T : hi = IF x > b THEN x ELSE b
    BY <2>3, <2>8
  <2>12. \A y \in T : lo <= y /\ y <= hi
    <3> SUFFICES ASSUME NEW y \in T PROVE lo <= y /\ y <= hi
      OBVIOUS
    <3>1. x \in Int /\ y \in Int /\ a \in Int /\ b \in Int
      BY <2>5, <2>8
    <3> QED BY <2>9, <2>10, <2>11, <3>1
  <2> QED BY <2>2, <2>12 DEF Bounds
<1> QED BY <1>1, <1>2

LEMMA LeastAndMost ==
  ASSUME NEW S \in SUBSET Int, IsFiniteSet(S), S # {}
  PROVE  Bounds(S, Least(S), Most(S))
BY BoundsExist DEF Bounds, Least, Most

LEMMA OfTwo ==
  ASSUME NEW a \in Int, NEW b \in Int
  PROVE  /\ Least({a, b}) = IF a <= b THEN a ELSE b
         /\ Most({a, b}) = IF a <= b THEN b ELSE a
<1>1. IsFiniteSet({a, b})
  <2>1. IsFiniteSet({a}) /\ {a} \cup {b} = {a, b}
    BY FS_Singleton
  <2> QED BY <2>1, FS_AddElement
<1> QED BY <1>1, LeastAndMost DEF Bounds

LEMMA BetweenEnds ==
  ASSUME NEW x \in Int, NEW p \in Corners, NEW q \in Corners
  PROVE  Between(x, p, q) <=> \/ p.lng < x /\ x <= q.lng
                              \/ q.lng < x /\ x <= p.lng
<1>1. p.lng \in Int /\ q.lng \in Int
  BY DEF Corners
<1> QED BY <1>1, OfTwo DEF Between

(* The box of a ring, and a middle that lies within it.                    *)
Boxed(b, m) ==
  /\ b.minLat \in Int /\ b.maxLat \in Int /\ b.minLng \in Int /\ b.maxLng \in Int
  /\ m \in Corners
  /\ b.minLat <= m.lat /\ m.lat <= b.maxLat
  /\ b.minLng <= m.lng /\ m.lng <= b.maxLng

LEMMA RingIsBoxed ==
  ASSUME NEW ring \in Seq(Corners), ring # <<>>
  PROVE  Boxed(Box(ring), Middle(Box(ring)))
<1> DEFINE lats == {ring[i].lat : i \in DOMAIN ring}
           lngs == {ring[i].lng : i \in DOMAIN ring}
           b == Box(ring)
<1>1. DOMAIN ring = 1 .. Len(ring) /\ Len(ring) \in Nat /\ Len(ring) > 0
  OBVIOUS
<1>2. \A i \in DOMAIN ring : ring[i].lat \in Int /\ ring[i].lng \in Int
  <2>1. \A i \in DOMAIN ring : ring[i] \in Corners
    BY <1>1
  <2> QED BY <2>1 DEF Corners
<1>3. IsFiniteSet(DOMAIN ring) /\ DOMAIN ring # {}
  <2>1. 1 \in Int /\ Len(ring) \in Int /\ 1 \in 1 .. Len(ring)
    BY <1>1
  <2> HIDE <1>1
  <2>2. IsFiniteSet(1 .. Len(ring))
    BY <2>1, FS_Interval
  <2> QED BY <1>1, <2>1, <2>2
<1>4. IsFiniteSet(lats) /\ IsFiniteSet(lngs)
  <2>1. [i \in DOMAIN ring |-> ring[i].lat] \in Surjection(DOMAIN ring, lats)
    BY DEF Surjection
  <2>2. [i \in DOMAIN ring |-> ring[i].lng] \in Surjection(DOMAIN ring, lngs)
    BY DEF Surjection
  <2> HIDE DEF lats, lngs
  <2> QED BY <1>3, <2>1, <2>2, FS_Surjection
<1>5. lats \subseteq Int /\ lngs \subseteq Int /\ lats # {} /\ lngs # {}
  BY <1>2, <1>3
<1>6. Bounds(lats, Least(lats), Most(lats)) /\ Bounds(lngs, Least(lngs), Most(lngs))
  <2> HIDE DEF lats, lngs
  <2> QED BY <1>4, <1>5, LeastAndMost
<1>7. /\ b.minLat \in Int /\ b.maxLat \in Int /\ b.minLng \in Int /\ b.maxLng \in Int
      /\ b.minLat <= b.maxLat /\ b.minLng <= b.maxLng
  <2>1. b = [minLat |-> Least(lats), maxLat |-> Most(lats),
             minLng |-> Least(lngs), maxLng |-> Most(lngs)]
    BY DEF Box
  <2> HIDE DEF lats, lngs, b
  <2> QED BY <1>5, <1>6, <2>1 DEF Bounds
<1> HIDE DEF b
<1> QED BY <1>7 DEF Boxed, Middle, Corners, b

-----------------------------------------------------------------------------
(* Odd and even: a wedge is crossed on its two spokes and its side.        *)

LEMMA CrossedEdges ==
  ASSUME NEW S \in SUBSET {1, 2, 3}
  PROVE  (Cardinality(S) % 2 = 1) <=> ((1 \in S <=> 2 \in S) <=> 3 \in S)
<1>1. IsFiniteSet(S) /\ IsFiniteSet(S \ {1}) /\ IsFiniteSet((S \ {1}) \ {2})
  <2>1. IsFiniteSet({1} \cup {2}) /\ IsFiniteSet({3})
    BY FS_Singleton, FS_AddElement
  <2>2. S \subseteq ({1} \cup {2}) \cup {3}
    OBVIOUS
  <2>3. IsFiniteSet(({1} \cup {2}) \cup {3})
    BY <2>1, FS_AddElement
  <2>4. IsFiniteSet(S)
    BY <2>2, <2>3, FS_Subset
  <2> QED BY <2>4, FS_RemoveElement
<1> DEFINE c == Cardinality(S)
           c1 == Cardinality(S \ {1})
           c2 == Cardinality((S \ {1}) \ {2})
           c3 == Cardinality(((S \ {1}) \ {2}) \ {3})
<1>2. c1 = IF 1 \in S THEN c - 1 ELSE c
  BY <1>1, FS_RemoveElement
<1>3. c2 = IF 2 \in S THEN c1 - 1 ELSE c1
  BY <1>1, FS_RemoveElement
<1>4. c3 = IF 3 \in S THEN c2 - 1 ELSE c2
  BY <1>1, FS_RemoveElement
<1>5. c3 = 0
  <2>1. ((S \ {1}) \ {2}) \ {3} = {}
    OBVIOUS
  <2> QED BY <2>1, FS_EmptySet
<1>6. c \in Nat /\ c1 \in Nat /\ c2 \in Nat
  BY <1>1, FS_CardinalityType
<1> HIDE DEF c, c1, c2, c3
<1> QED BY <1>2, <1>3, <1>4, <1>5, <1>6 DEF c

(* A wedge of the box, from the middle m over the corners p and q of one   *)
(* side: a position is inside, if the ray crosses one or three edges.      *)
LEMMA InWedge ==
  ASSUME NEW pt \in Corners, NEW m \in Corners, NEW p \in Corners, NEW q \in Corners
  PROVE  InPolygon(pt, <<m, p, q, m>>) <=>
           ((Crosses(pt, m, p) <=> Crosses(pt, p, q)) <=> Crosses(pt, q, m))
<1> DEFINE ring == <<m, p, q, m>>
           S == {i \in 1 .. Len(ring) : Crosses(pt, ring[i], ring[(i % Len(ring)) + 1])}
<1>1. /\ Len(ring) = 4 /\ ring[1] = m /\ ring[2] = p /\ ring[3] = q /\ ring[4] = m
      /\ 1 % 4 = 1 /\ 2 % 4 = 2 /\ 3 % 4 = 3 /\ 4 % 4 = 0
  OBVIOUS
<1>2. ~ Crosses(pt, m, m)
  BY OfTwo DEF Crosses, Between, Corners
<1> HIDE DEF ring
<1>3. /\ 1 \in S <=> Crosses(pt, m, p)
      /\ 2 \in S <=> Crosses(pt, p, q)
      /\ 3 \in S <=> Crosses(pt, q, m)
      /\ 4 \notin S
  BY <1>1, <1>2
<1>4. S \subseteq {1, 2, 3}
  BY <1>1, <1>3
<1>5. InPolygon(pt, ring) <=> Cardinality(S) % 2 = 1
  BY <1>1 DEF InPolygon
<1> HIDE DEF S
<1> QED BY <1>3, <1>4, <1>5, CrossedEdges DEF ring

(* The ray crosses an edge from either end alike.                          *)
LEMMA Turned ==
  ASSUME NEW u \in Int, NEW w \in Int, NEW h \in Int, NEW k \in Int
  PROVE  u * k <= w * h <=> (u - h) * (-k) >= (w - k) * (-h)
<1>1. (u - h) * (-k) = h * k - u * k
  OBVIOUS
<1>2. (w - k) * (-h) = h * k - w * h
  OBVIOUS
<1>3. u * k \in Int /\ w * h \in Int /\ h * k \in Int
  OBVIOUS
<1> QED BY <1>1, <1>2, <1>3

LEMMA CrossesAlike ==
  ASSUME NEW pt \in Corners, NEW p \in Corners, NEW q \in Corners
  PROVE  Crosses(pt, p, q) <=> Crosses(pt, q, p)
<1> SUFFICES ASSUME NEW a \in Corners, NEW b \in Corners, a.lng < b.lng
             PROVE  Crosses(pt, a, b) <=> Crosses(pt, b, a)
  <2>1. p.lng = q.lng => ~ Crosses(pt, p, q) /\ ~ Crosses(pt, q, p)
    BY OfTwo DEF Crosses, Between, Corners
  <2> QED BY <2>1 DEF Corners
<1> DEFINE u == pt.lat - a.lat
           w == pt.lng - a.lng
           h == b.lat - a.lat
           k == b.lng - a.lng
<1>1. u \in Int /\ w \in Int /\ h \in Int /\ k \in Int /\ k > 0
  BY DEF Corners
<1>2. Between(pt.lng, a, b) <=> Between(pt.lng, b, a)
  BY OfTwo DEF Between, Corners
<1>3. /\ pt.lat - b.lat = u - h /\ a.lng - b.lng = -k
      /\ pt.lng - b.lng = w - k /\ a.lat - b.lat = -h
  BY DEF Corners
<1>4. Crosses(pt, a, b) <=> Between(pt.lng, a, b) /\ u * k <= w * h
  BY <1>1 DEF Crosses
<1>5. Crosses(pt, b, a) <=> Between(pt.lng, b, a) /\ (u - h) * (-k) >= (w - k) * (-h)
  <2>1. ~ (-k > 0)
    BY <1>1
  <2> HIDE DEF u, w, h, k
  <2> QED BY <1>3, <2>1 DEF Crosses
<1> HIDE DEF u, w, h, k
<1> QED BY <1>1, <1>2, <1>4, <1>5, Turned

(* Products of what is ordered.                                            *)
LEMMA Times ==
  ASSUME NEW w \in Nat, NEW a \in Int, NEW b \in Int, a <= b
  PROVE  w * a \in Int /\ w * b \in Int /\ w * a <= w * b
<1>1. b - a \in Nat
  OBVIOUS
<1>2. w * (b - a) \in Nat
  BY <1>1
<1>3. w * (b - a) = w * b - w * a
  OBVIOUS
<1> QED BY <1>2, <1>3

(* An edge above the position is crossed, one below it is not.             *)
LEMMA AboveOrBelow ==
  ASSUME NEW pt \in Corners, NEW p \in Corners, NEW q \in Corners,
         Between(pt.lng, p, q)
  PROVE  /\ pt.lat <= p.lat /\ pt.lat <= q.lat => Crosses(pt, p, q)
         /\ p.lat < pt.lat /\ q.lat < pt.lat => ~ Crosses(pt, p, q)
<1> SUFFICES ASSUME NEW a \in Corners, NEW b \in Corners, a.lng < b.lng, Between(pt.lng, a, b)
             PROVE  /\ pt.lat <= a.lat /\ pt.lat <= b.lat => Crosses(pt, a, b)
                    /\ a.lat < pt.lat /\ b.lat < pt.lat => ~ Crosses(pt, a, b)
  <2>1. p.lng # q.lng
    BY OfTwo DEF Between, Corners
  <2>2. Between(pt.lng, q, p)
    BY OfTwo DEF Between, Corners
  <2> QED BY <2>1, <2>2, CrossesAlike DEF Corners
<1> DEFINE u == pt.lat - a.lat
           w == pt.lng - a.lng
           h == b.lat - a.lat
           k == b.lng - a.lng
<1>1. u \in Int /\ w \in Nat /\ h \in Int /\ k \in Nat /\ w <= k /\ 0 < k
  BY OfTwo DEF Corners, Between
<1>2. Crosses(pt, a, b) <=> u * k <= w * h
  BY <1>1 DEF Crosses
<1>3. /\ pt.lat <= a.lat <=> u <= 0
      /\ pt.lat <= b.lat <=> u <= h
  BY DEF Corners
<1>4. a.lat < pt.lat <=> ~ (pt.lat <= a.lat)
  BY DEF Corners
<1>5. b.lat < pt.lat <=> ~ (pt.lat <= b.lat)
  BY DEF Corners
<1> HIDE DEF u, w, h, k
<1>6. ASSUME u <= 0, u <= h PROVE u * k <= w * h
  <2>1. CASE h >= 0
    <3>1. k * u <= k * 0 /\ w * 0 <= w * h
      BY <1>1, <1>6, <2>1, Times
    <3> QED BY <1>1, <3>1
  <2>2. CASE h < 0
    <3>1. k * u <= k * h
      BY <1>1, <1>6, Times
    <3>2. (-h) * w <= (-h) * k
      BY <1>1, <2>2, Times
    <3> QED BY <1>1, <3>1, <3>2
  <2> QED BY <1>1, <2>1, <2>2
<1>7. ASSUME u > 0, u > h PROVE ~ (u * k <= w * h)
  <2>1. CASE h <= 0
    <3>1. w * h <= w * 0 /\ k * 1 <= k * u
      BY <1>1, <1>7, <2>1, Times
    <3> QED BY <1>1, <3>1
  <2>2. CASE h > 0
    <3>1. h * w <= h * k
      BY <1>1, <2>2, Times
    <3>2. k * (h + 1) <= k * u
      BY <1>1, <1>7, Times
    <3>3. k * (h + 1) = k * h + k
      BY <1>1
    <3> QED BY <1>1, <3>1, <3>2, <3>3
  <2> QED BY <1>1, <2>1, <2>2
<1> QED BY <1>1, <1>2, <1>3, <1>4, <1>5, <1>6, <1>7

(* Of two edges from m to one longitude, the higher one is crossed if the  *)
(* lower one is.                                                           *)
LEMMA HigherSpoke ==
  ASSUME NEW pt \in Corners, NEW m \in Corners, NEW p \in Corners, NEW q \in Corners,
         p.lng = q.lng, q.lat <= p.lat, Crosses(pt, m, q)
  PROVE  Crosses(pt, m, p)
<1> DEFINE u == pt.lat - m.lat
           w == pt.lng - m.lng
           k == p.lng - m.lng
           high == p.lat - m.lat
           low == q.lat - m.lat
<1>1. u \in Int /\ w \in Int /\ k \in Int /\ high \in Int /\ low \in Int /\ low <= high
  BY DEF Corners
<1>2. Between(pt.lng, m, p) /\ (k > 0 => w >= 0) /\ (~ (k > 0) => w <= 0)
  BY OfTwo DEF Crosses, Between, Corners
<1>3. IF k > 0 THEN u * k <= w * low ELSE u * k >= w * low
  BY DEF Crosses
<1>4. Crosses(pt, m, p) <=> IF k > 0 THEN u * k <= w * high ELSE u * k >= w * high
  BY <1>2 DEF Crosses
<1> HIDE DEF u, w, k, high, low
<1>5. CASE k > 0
  <2>1. w * low <= w * high
    BY <1>1, <1>2, <1>5, Times
  <2> QED BY <1>1, <1>3, <1>4, <1>5, <2>1
<1>6. CASE ~ (k > 0)
  <2>1. (-w) * low <= (-w) * high
    BY <1>1, <1>2, <1>6, Times
  <2>2. (-w) * low = - (w * low) /\ (-w) * high = - (w * high)
    BY <1>1
  <2> QED BY <1>1, <1>3, <1>4, <1>6, <2>1, <2>2
<1> QED BY <1>5, <1>6

-----------------------------------------------------------------------------
(* A position in the box lies in one wedge, one outside it in none.        *)

Inside(pt, b, dir) == InPolygon(pt, Wedge(b, dir))

LEMMA OneWedge ==
  ASSUME NEW pt \in Corners, NEW b, Boxed(b, Middle(b))
  PROVE  /\ \A dir, other \in Direction :
              Inside(pt, b, dir) /\ Inside(pt, b, other) => dir = other
         /\ (\E dir \in Direction : Inside(pt, b, dir)) <=> WithinBox(pt, b)
<1> DEFINE m == Middle(b)
           nw == Corner(b.maxLat, b.minLng)
           ne == Corner(b.maxLat, b.maxLng)
           se == Corner(b.minLat, b.maxLng)
           sw == Corner(b.minLat, b.minLng)
<1>1. /\ m \in Corners /\ nw \in Corners /\ ne \in Corners /\ se \in Corners /\ sw \in Corners
      /\ nw.lng = b.minLng /\ sw.lng = b.minLng /\ ne.lng = b.maxLng /\ se.lng = b.maxLng
      /\ nw.lat = b.maxLat /\ ne.lat = b.maxLat /\ sw.lat = b.minLat /\ se.lat = b.minLat
      /\ b.minLat <= m.lat /\ m.lat <= b.maxLat /\ b.minLng <= m.lng /\ m.lng <= b.maxLng
      /\ b.minLat \in Int /\ b.maxLat \in Int /\ b.minLng \in Int /\ b.maxLng \in Int
      /\ m.lat \in Int /\ m.lng \in Int /\ pt.lat \in Int /\ pt.lng \in Int
  BY DEF Boxed, Corner, Corners
<1>2. /\ Wedge(b, "north") = <<m, nw, ne, m>>
      /\ Wedge(b, "east") = <<m, ne, se, m>>
      /\ Wedge(b, "south") = <<m, se, sw, m>>
      /\ Wedge(b, "west") = <<m, sw, nw, m>>
  BY DEF Wedge, Side
<1> HIDE DEF m, nw, ne, se, sw
<1> DEFINE aNW == Crosses(pt, m, nw)
           aNE == Crosses(pt, m, ne)
           aSE == Crosses(pt, m, se)
           aSW == Crosses(pt, m, sw)
           top == Crosses(pt, nw, ne)
           bottom == Crosses(pt, se, sw)
           left == b.minLng < pt.lng /\ pt.lng <= m.lng
           right == m.lng < pt.lng /\ pt.lng <= b.maxLng
<1>3. ~ Crosses(pt, ne, se) /\ ~ Crosses(pt, sw, nw)
  <2>1. ~ Between(pt.lng, ne, se) /\ ~ Between(pt.lng, sw, nw)
    BY <1>1, BetweenEnds
  <2> QED BY <2>1 DEF Crosses
<1>4. /\ Inside(pt, b, "north") <=> ((aNW <=> top) <=> aNE)
      /\ Inside(pt, b, "east") <=> ~ (aNE <=> aSE)
      /\ Inside(pt, b, "south") <=> ((aSE <=> bottom) <=> aSW)
      /\ Inside(pt, b, "west") <=> ~ (aSW <=> aNW)
  BY <1>1, <1>2, <1>3, InWedge, CrossesAlike DEF Inside
<1>5. /\ Between(pt.lng, m, nw) <=> left
      /\ Between(pt.lng, m, sw) <=> left
      /\ Between(pt.lng, m, ne) <=> right
      /\ Between(pt.lng, m, se) <=> right
      /\ Between(pt.lng, nw, ne) <=> left \/ right
      /\ Between(pt.lng, se, sw) <=> left \/ right
  BY <1>1, BetweenEnds
<1>6. ~ left => ~ aNW /\ ~ aSW
  BY <1>5 DEF Crosses
<1>7. ~ right => ~ aNE /\ ~ aSE
  BY <1>5 DEF Crosses
<1>8. ~ (left /\ right)
  BY <1>1
<1>9. ~ left /\ ~ right => ~ top /\ ~ bottom
  BY <1>5 DEF Crosses
<1>10. left \/ right =>
         /\ top <=> pt.lat <= b.maxLat
         /\ bottom <=> pt.lat <= b.minLat
  BY <1>1, <1>5, AboveOrBelow
<1>11. (aSW => aNW) /\ (aSE => aNE)
  BY <1>1, HigherSpoke
<1>12. pt.lat > b.maxLat => ~ aNW /\ ~ aNE /\ ~ aSE /\ ~ aSW
  <2>1. pt.lat > b.maxLat /\ left => ~ aNW /\ ~ aSW
    BY <1>1, <1>5, AboveOrBelow
  <2>2. pt.lat > b.maxLat /\ right => ~ aNE /\ ~ aSE
    BY <1>1, <1>5, AboveOrBelow
  <2> QED BY <2>1, <2>2, <1>6, <1>7
<1>13. pt.lat <= b.minLat =>
         /\ left => aNW /\ aSW
         /\ right => aNE /\ aSE
  BY <1>1, <1>5, AboveOrBelow
<1>14. WithinBox(pt, b) <=> (left \/ right) /\ b.minLat < pt.lat /\ pt.lat <= b.maxLat
  BY <1>1 DEF WithinBox
<1>15. b.minLat < pt.lat <=> ~ (pt.lat <= b.minLat)
  BY <1>1
<1>16. pt.lat > b.maxLat <=> ~ (pt.lat <= b.maxLat)
  BY <1>1
<1> HIDE DEF aNW, aNE, aSE, aSW, top, bottom, left, right
<1>17. CASE ~ left /\ ~ right
  BY <1>4, <1>6, <1>7, <1>9, <1>14, <1>17 DEF Direction
<1>18. CASE left
  BY <1>4, <1>7, <1>8, <1>10, <1>11, <1>12, <1>13, <1>14, <1>15, <1>16, <1>18, <1>1 DEF Direction
<1>19. CASE right
  BY <1>4, <1>6, <1>8, <1>10, <1>11, <1>12, <1>13, <1>14, <1>15, <1>16, <1>19, <1>1 DEF Direction
<1> QED BY <1>17, <1>18, <1>19

-----------------------------------------------------------------------------
(* Counting drivers by section.                                            *)

LEMMA CountOfTwo ==
  ASSUME NEW A, NEW B, IsFiniteSet(A), IsFiniteSet(B), A \cap B = {}
  PROVE  /\ IsFiniteSet(A \cup B)
         /\ Cardinality(A \cup B) = Cardinality(A) + Cardinality(B)
<1>1. Cardinality(A \cap B) = 0
  BY FS_EmptySet
<1>2. Cardinality(A) \in Nat /\ Cardinality(B) \in Nat
  BY FS_CardinalityType
<1>3. /\ IsFiniteSet(A \cup B)
      /\ Cardinality(A \cup B) = Cardinality(A) + Cardinality(B) - Cardinality(A \cap B)
  BY FS_Union
<1> QED BY <1>1, <1>2, <1>3

LEMMA CountOfFour ==
  ASSUME NEW A, NEW B, NEW C, NEW D,
         IsFiniteSet(A), IsFiniteSet(B), IsFiniteSet(C), IsFiniteSet(D),
         A \cap B = {}, (A \cup B) \cap C = {}, ((A \cup B) \cup C) \cap D = {}
  PROVE  Cardinality(A) + Cardinality(B) + Cardinality(C) + Cardinality(D)
           = Cardinality(((A \cup B) \cup C) \cup D)
<1> DEFINE AB == A \cup B
           ABC == AB \cup C
<1>1. IsFiniteSet(AB) /\ Cardinality(AB) = Cardinality(A) + Cardinality(B)
  BY CountOfTwo
<1>2. AB \cap C = {} /\ ABC \cap D = {}
  OBVIOUS
<1> HIDE DEF AB
<1>3. IsFiniteSet(ABC) /\ Cardinality(ABC) = Cardinality(AB) + Cardinality(C)
  BY <1>1, <1>2, CountOfTwo
<1> HIDE DEF ABC
<1>4. Cardinality(ABC \cup D) = Cardinality(ABC) + Cardinality(D)
  BY <1>2, <1>3, CountOfTwo
<1> QED BY <1>1, <1>3, <1>4 DEF AB, ABC

(* By default sections every position within the zone counts exactly once. *)
THEOREM DriversCountedOnce == PresenceSpec => []EveryDriverCountedOnce
<1> DEFINE b == Box(ZoneRing)
           default == DefaultSections(ZoneRing)
           in(dir) == {d \in Positioned : InPolygon(live[d], Wedge(b, dir))}
           all == {d \in Positioned : WithinBox(live[d], b)}
<1>1. Boxed(b, Middle(b))
  BY PresenceConstants, RingIsBoxed
<1>2. ASSUME PresenceTypeOK, Cardinality(DOMAIN sections) < 4
      PROVE  ZoneTotal(Sections(sections, ZoneRing), live, Positioned) = Cardinality(all)
  <2>1. IsFiniteSet(Positioned) /\ \A d \in Positioned : live[d] \in Corners
    <3>1. IsFiniteSet(Positioned)
      BY PresenceConstants, FS_Subset DEF Positioned
    <3>2. \A d \in Positioned : live[d] \in Corners
      BY <1>2, PresenceConstants DEF PresenceTypeOK, Positioned
    <3> QED BY <3>1, <3>2
  <2>2. Sections(sections, ZoneRing) = default
    BY <1>2 DEF Sections
  <2>3. \A dir \in Direction : SectionRing(default, dir) = Wedge(b, dir)
    BY DEF SectionRing, DefaultSections
  <2>4. ZoneTotal(default, live, Positioned)
          = Cardinality(in("north")) + Cardinality(in("south"))
              + Cardinality(in("east")) + Cardinality(in("west"))
    BY <2>3 DEF ZoneTotal, CountIn, Direction
  <2>5. ASSUME NEW d \in Positioned
        PROVE  /\ \A dir, other \in Direction :
                    d \in in(dir) /\ d \in in(other) => dir = other
               /\ (\E dir \in Direction : d \in in(dir)) <=> d \in all
    <3>1. PICK pt \in Corners : pt = live[d]
      BY <2>1
    <3> HIDE DEF b
    <3> QED BY <1>1, <3>1, OneWedge DEF Inside, b
  <2>6. \A dir \in Direction : in(dir) \subseteq Positioned
    OBVIOUS
  <2>7. all \subseteq Positioned
    OBVIOUS
  <2>8. \A dir \in Direction : IsFiniteSet(in(dir))
    BY <2>1, <2>6, FS_Subset
  <2> HIDE DEF in, all, b, default
  <2>9. /\ in("north") \cap in("south") = {}
        /\ (in("north") \cup in("south")) \cap in("east") = {}
        /\ ((in("north") \cup in("south")) \cup in("east")) \cap in("west") = {}
    BY <2>5, <2>6 DEF Direction
  <2>10. ((in("north") \cup in("south")) \cup in("east")) \cup in("west") = all
    BY <2>5, <2>6, <2>7 DEF Direction
  <2> QED BY <2>2, <2>4, <2>8, <2>9, <2>10, CountOfFour DEF Direction
<1>3. PresenceTypeOK => EveryDriverCountedOnce
  BY <1>2 DEF EveryDriverCountedOnce
<1> QED BY <1>3, PresenceTypeCorrect, PTL

(* A section's level, by the thresholds the count has to reach.            *)
LEMMA Levels ==
  ASSUME NEW c \in Nat, NEW t \in Nat
  PROVE  /\ Level(c, t) \in 0 .. 2
         /\ Level(c, t) >= 2 <=> 100 * c >= 70 * t /\ 100 * c >= 70
         /\ Level(c, t) >= 1 <=> 100 * c >= 35 * t /\ 100 * c >= 35
<1>1. Most({t, 1}) = IF t <= 1 THEN 1 ELSE t
  BY OfTwo
<1> QED BY <1>1 DEF Level

(* The zone's level lies between that of its worst and of its best section. *)
THEOREM LevelsAlwaysAgree == PresenceSpec => []LevelsAgree
<1>1. ASSUME NEW a \in [Direction -> Nat], NEW t \in [Direction -> Nat]
      PROVE  LET level == Level(a["north"] + a["south"] + a["east"] + a["west"], Quota(t))
             IN  /\ \E dir \in Direction : Level(a[dir], t[dir]) <= level
                 /\ \E dir \in Direction : Level(a[dir], t[dir]) >= level
  <2> DEFINE total == a["north"] + a["south"] + a["east"] + a["west"]
             quota == Quota(t)
             level == Level(total, quota)
  <2>1. \A dir \in Direction : a[dir] \in Nat /\ t[dir] \in Nat
    OBVIOUS
  <2>2. total \in Nat /\ quota \in Nat
        /\ quota = t["north"] + t["south"] + t["east"] + t["west"]
    BY <2>1 DEF Quota, Direction
  <2>3. /\ level \in 0 .. 2
        /\ level >= 2 <=> 100 * total >= 70 * quota /\ 100 * total >= 70
        /\ level >= 1 <=> 100 * total >= 35 * quota /\ 100 * total >= 35
    BY <2>2, Levels
  <2>4. \A dir \in Direction :
          /\ Level(a[dir], t[dir]) \in 0 .. 2
          /\ Level(a[dir], t[dir]) >= 2 <=> 100 * a[dir] >= 70 * t[dir] /\ 100 * a[dir] >= 70
          /\ Level(a[dir], t[dir]) >= 1 <=> 100 * a[dir] >= 35 * t[dir] /\ 100 * a[dir] >= 35
    BY <2>1, Levels
  <2> DEFINE at(dir) == Level(a[dir], t[dir])
  <2>5. (\A dir \in Direction : at(dir) >= 1) => level >= 1
    BY <2>1, <2>2, <2>3, <2>4 DEF Direction
  <2>6. (\A dir \in Direction : at(dir) >= 2) => level >= 2
    BY <2>1, <2>2, <2>3, <2>4 DEF Direction
  <2>7. ASSUME \A dir \in Direction : ~ (at(dir) >= 1) PROVE ~ (level >= 1)
    <3>1. \A dir \in Direction :
            100 * a[dir] < 35 * t[dir] \/ (a[dir] = 0 /\ t[dir] = 0)
      BY <2>1, <2>4, <2>7
    <3>2. 100 * total < 35 * quota \/ total = 0
      BY <2>1, <2>2, <3>1 DEF Direction
    <3> QED BY <2>2, <2>3, <3>2
  <2>8. ASSUME \A dir \in Direction : ~ (at(dir) >= 2) PROVE ~ (level >= 2)
    <3>1. \A dir \in Direction :
            100 * a[dir] < 70 * t[dir] \/ (a[dir] = 0 /\ t[dir] = 0)
      BY <2>1, <2>4, <2>8
    <3>2. 100 * total < 70 * quota \/ total = 0
      BY <2>1, <2>2, <3>1 DEF Direction
    <3> QED BY <2>2, <2>3, <3>2
  <2>9. \A dir \in Direction : at(dir) \in 0 .. 2
    BY <2>4
  <2> HIDE DEF at, level
  <2>10. \E dir \in Direction : at(dir) <= level
    BY <2>3, <2>5, <2>6, <2>9 DEF Direction
  <2>11. \E dir \in Direction : at(dir) >= level
    BY <2>3, <2>7, <2>8, <2>9 DEF Direction
  <2> QED BY <2>10, <2>11 DEF at, level
<1>2. ASSUME PresenceTypeOK, NEW free \in SUBSET Positioned,
             NEW targets \in {t \in Targets : \A dir \in Direction : t[dir] >= 0}
      PROVE  LET cover == [dir \in Direction |->
                    CountIn(SectionRing(Sections(sections, ZoneRing), dir), live, free)]
                 level == Level(ZoneTotal(Sections(sections, ZoneRing), live, free), Quota(targets))
             IN  /\ \E dir \in Direction : Level(cover[dir], targets[dir]) <= level
                 /\ \E dir \in Direction : Level(cover[dir], targets[dir]) >= level
  <2>1. IsFiniteSet(free)
    BY PresenceConstants, FS_Subset DEF Positioned
  <2> DEFINE S == Sections(sections, ZoneRing)
             cover == [dir \in Direction |-> CountIn(SectionRing(S, dir), live, free)]
  <2>2. \A ring : CountIn(ring, live, free) \in Nat
    BY <2>1, FS_Subset, FS_CardinalityType DEF CountIn
  <2>3. cover \in [Direction -> Nat]
    BY <2>2
  <2>4. targets \in [Direction -> Nat]
    BY PresenceConstants
  <2>5. ZoneTotal(S, live, free)
          = cover["north"] + cover["south"] + cover["east"] + cover["west"]
    BY DEF ZoneTotal, Direction
  <2> HIDE DEF S, cover
  <2>6. PICK a \in [Direction -> Nat] : a = cover
    BY <2>3
  <2> QED BY <1>1, <2>4, <2>5, <2>6 DEF S, cover
<1>3. PresenceTypeOK => LevelsAgree
  BY <1>2 DEF LevelsAgree
<1> QED BY <1>3, PresenceTypeCorrect, PTL

=============================================================================
