--------------------------- MODULE Market_proofs ----------------------------
(***************************************************************************)
(* Theorems about modules Delivery, RideDemo and Promotions, for any       *)
(* number of drivers, requests, rides and promotions.                      *)
(***************************************************************************)
EXTENDS Delivery, RideDemo, Promotions, FiniteSetTheorems, TLAPS

(* Delivery: offers that are on their way.                                 *)

(* What a typed booking and driver are, of a pair.                         *)
LEMMA PairParts ==
  ASSUME NEW p \in Pair  PROVE p[1] \in Offers /\ p[2] \in Riders /\ p = <<p[1], p[2]>>
BY DEF Pair

Calling == {"lock", "register", "schedule"}

(* An offer on its way is of somebody, and an idle caller has none.  This  *)
(* is what TypeOK lacks.                                                   *)
CallersHavePairs == \A c \in Callers : caller[c].at \in Calling => caller[c].pair \in Pair

DeliveryTyped == DeliveryTypeOK /\ CallersHavePairs

LEMMA CallerTyped ==
  ASSUME DeliveryTyped, NEW c \in Callers, caller[c].at # "idle"
  PROVE  caller[c].pair \in Pair /\ caller[c].pair[1] \in Offers /\ caller[c].pair[2] \in Riders
<1>1. caller[c].at \in Calling
  BY DEF DeliveryTyped, DeliveryTypeOK, Calling
<1>2. caller[c].pair \in Pair
  BY <1>1 DEF DeliveryTyped, CallersHavePairs
<1> QED  BY <1>2, PairParts

LEMMA AdvanceTyped ==
  ASSUME DeliveryTyped, NEW c \in Callers, NEW at \in Calling, caller[c].at # "idle", Advance(c, at)
  PROVE  /\ caller' \in [Callers -> [at : {"idle", "lock", "register", "schedule"},
                                     pair : Pair \cup {NoPair}]]
         /\ CallersHavePairs'
<1>1. caller[c].pair \in Pair
  BY CallerTyped
<1> QED  BY <1>1 DEF DeliveryTyped, DeliveryTypeOK, CallersHavePairs, Advance, Calling

LEMMA DoneTyped ==
  ASSUME DeliveryTyped, NEW c \in Callers, Done(c)
  PROVE  /\ caller' \in [Callers -> [at : {"idle", "lock", "register", "schedule"},
                                     pair : Pair \cup {NoPair}]]
         /\ CallersHavePairs'
BY DEF DeliveryTyped, DeliveryTypeOK, CallersHavePairs, Done, Calling

LEMMA DeliveryTypedInit == DeliveryInit => DeliveryTyped
BY DeliveryConstants DEF DeliveryInit, DeliveryTyped, DeliveryTypeOK, CallersHavePairs, Calling

(* An offer on its way is of somebody, and what is scheduled for a pair    *)
(* and on its way for it has been made: the type of fallback rests on it.  *)
OnTheirWay(p) == {c \in Callers : caller[c].at \in Calling /\ caller[c].pair = p}
OffersCounted ==
  \A p \in Pair : /\ IsFiniteSet(OnTheirWay(p))
                  /\ fallback[p] + Cardinality(OnTheirWay(p)) <= made

(* What the properties of Delivery need besides its types: an offer that   *)
(* is tracked, or about to be, holds the lock of a driver nobody has freed *)
(* and an acknowledgement that was heard is not pending.                   *)
TrackedHoldsLock ==
  \A b \in Offers, d \in Riders : d \notin freed =>
    /\ ack[<<b, d>>] = "pending" => lock[d] = b
    /\ \A c \in Callers : caller[c].at = "register" /\ caller[c].pair = <<b, d>> => lock[d] = b
HeardIsSettled == \A p \in heard : ack[p] # "pending"

DeliveryInv ==
  DeliveryTypeOK /\ CallersHavePairs /\ OffersCounted /\ TrackedHoldsLock /\ HeardIsSettled

LEMMA DeliveryInvInit == DeliveryInit => DeliveryInv
<1> SUFFICES ASSUME DeliveryInit  PROVE DeliveryInv
  OBVIOUS
<1>1. DeliveryTyped
  BY DeliveryTypedInit
<1>2. ASSUME NEW p \in Pair  PROVE OnTheirWay(p) = {}
  BY DEF DeliveryInit, OnTheirWay, Calling
<1>3. OffersCounted
  BY <1>2, FS_EmptySet DEF OffersCounted, DeliveryInit
<1>4. TrackedHoldsLock /\ HeardIsSettled
  BY DEF TrackedHoldsLock, HeardIsSettled, DeliveryInit, Pair
<1> QED  BY <1>1, <1>3, <1>4 DEF DeliveryInv, DeliveryTyped

(* Who is on his way for a pair, after an offer goes on and after its end. *)
LEMMA OnTheirWayAdvance ==
  ASSUME DeliveryTyped, NEW c \in Callers, NEW at \in Calling, caller[c].at # "idle",
         Advance(c, at), NEW p \in Pair
  PROVE  OnTheirWay(p)' = OnTheirWay(p)
<1>1. caller[c].at \in Calling
  BY DEF DeliveryTyped, DeliveryTypeOK, Calling
<1>2. \A x \in Callers : /\ caller'[x].pair = caller[x].pair
                         /\ caller'[x].at \in Calling <=> caller[x].at \in Calling
  BY <1>1 DEF DeliveryTyped, DeliveryTypeOK, Advance
<1> QED  BY <1>2 DEF OnTheirWay

LEMMA OnTheirWayDone ==
  ASSUME DeliveryTyped, NEW c \in Callers, Done(c), NEW p \in Pair
  PROVE  OnTheirWay(p)' = OnTheirWay(p) \ {c}
<1>1. \A x \in Callers \ {c} : caller'[x] = caller[x]
  BY DEF DeliveryTyped, DeliveryTypeOK, Done
<1>2. caller'[c].at \notin Calling
  BY DEF DeliveryTyped, DeliveryTypeOK, Done, Calling
<1> QED  BY <1>1, <1>2 DEF OnTheirWay

LEMMA CountedDone ==
  ASSUME DeliveryTyped, OffersCounted, NEW c \in Callers, Done(c), UNCHANGED <<fallback, made>>
  PROVE  OffersCounted'
<1> SUFFICES ASSUME NEW p \in Pair
             PROVE  /\ IsFiniteSet(OnTheirWay(p)')
                    /\ fallback[p] + Cardinality(OnTheirWay(p)') <= made
  BY DEF OffersCounted
<1>1. IsFiniteSet(OnTheirWay(p)) /\ fallback[p] + Cardinality(OnTheirWay(p)) <= made
  BY DEF OffersCounted
<1>2. fallback[p] \in Nat /\ made \in Nat
  BY DeliveryConstants DEF DeliveryTyped, DeliveryTypeOK
<1>3. OnTheirWay(p)' = OnTheirWay(p) \ {c}
  BY OnTheirWayDone
<1> DEFINE W == OnTheirWay(p)
<1>4. IsFiniteSet(W \ {c})
  BY <1>1, FS_RemoveElement
<1>5. Cardinality(W) \in Nat /\ Cardinality(W \ {c}) \in Nat
  BY <1>1, <1>4, FS_CardinalityType
<1>6. Cardinality(W \ {c}) <= Cardinality(W)
  BY <1>1, <1>4, FS_Subset
<1> HIDE DEF W
<1>7. fallback[p] + Cardinality(W \ {c}) <= made
  BY <1>1, <1>2, <1>5, <1>6 DEF W
<1> QED  BY <1>3, <1>4, <1>7 DEF W

-----------------------------------------------------------------------------
(* One lemma for each action of a caller.                                  *)
LEMMA BroadcastKeeps ==
  ASSUME DeliveryInv, NEW c \in Callers, NEW b \in Offers, NEW d \in Riders, Broadcast(c, b, d)
  PROVE  DeliveryInv'
<1> USE DEF Broadcast
<1>t. DeliveryTyped
  BY DEF DeliveryInv, DeliveryTyped
<1>q. <<b, d>> \in Pair
  BY DEF Pair
<1>1. DeliveryTypeOK'
  BY <1>q, DeliveryConstants DEF DeliveryInv, DeliveryTypeOK, SendNow
<1>2. CallersHavePairs'
  BY <1>q DEF DeliveryInv, DeliveryTypeOK, CallersHavePairs, Calling
<1>3. OffersCounted'
  <2> SUFFICES ASSUME NEW p \in Pair
               PROVE  /\ IsFiniteSet(OnTheirWay(p)')
                      /\ fallback[p] + Cardinality(OnTheirWay(p)') <= made'
    BY DEF OffersCounted
  <2> DEFINE W == OnTheirWay(p)
  <2>1. IsFiniteSet(W) /\ fallback[p] + Cardinality(W) <= made
    BY DEF OffersCounted, DeliveryInv
  <2>2. fallback[p] \in Nat /\ made \in Nat /\ made' = made + 1
    BY DeliveryConstants DEF DeliveryInv, DeliveryTypeOK
  <2>3. /\ c \notin W
        /\ \A x \in Callers \ {c} : caller'[x] = caller[x]
        /\ caller'[c].pair = <<b, d>> /\ caller'[c].at \in Calling
    BY DEF DeliveryInv, DeliveryTypeOK, OnTheirWay, Calling
  <2>4. OnTheirWay(p)' = IF p = <<b, d>> THEN W \cup {c} ELSE W
    <3> HIDE DEF Broadcast
    <3> QED  BY <2>3 DEF OnTheirWay
  <2>5. /\ IsFiniteSet(W \cup {c}) /\ Cardinality(W) \in Nat
        /\ Cardinality(W \cup {c}) = Cardinality(W) + 1
    BY <2>1, <2>3, FS_AddElement, FS_CardinalityType
  <2> HIDE DEF W
  <2> QED  BY <2>1, <2>2, <2>4, <2>5
<1>4. TrackedHoldsLock' /\ HeardIsSettled'
  BY <1>q DEF DeliveryInv, DeliveryTypeOK, TrackedHoldsLock, HeardIsSettled
<1> QED  BY <1>1, <1>2, <1>3, <1>4 DEF DeliveryInv

LEMMA TryAssignKeeps ==
  ASSUME DeliveryInv, NEW c \in Callers, TryAssign(c)
  PROVE  DeliveryInv'
<1> DEFINE b0 == caller[c].pair[1]
           d0 == caller[c].pair[2]
<1>t. DeliveryTyped
  BY DEF DeliveryInv, DeliveryTyped
<1>q. /\ caller[c].pair \in Pair /\ b0 \in Offers /\ d0 \in Riders /\ caller[c].at # "idle"
      /\ caller[c].pair = <<b0, d0>>
  <2>1. caller[c].at # "idle"
    BY DEF TryAssign
  <2> QED  BY <2>1, <1>t, CallerTyped, PairParts
<1>u. UNCHANGED <<ack, reached, fallback, made, released, heard, pushed, freed>>
  BY DEF TryAssign
<1>1. CASE lock[d0] = NoOffer
  <2>1. lock' = [lock EXCEPT ![d0] = b0] /\ Advance(c, "register")
    BY <1>1 DEF TryAssign
  <2>2. "register" \in Calling
    BY DEF Calling
  <2>3. DeliveryTypeOK' /\ CallersHavePairs'
    <3>1. lock' \in [Riders -> Offers \cup {NoOffer}]
      BY <1>q, <2>1 DEF DeliveryInv, DeliveryTypeOK
    <3> QED  BY <3>1, <1>q, <1>t, <1>u, <2>1, <2>2, AdvanceTyped DEF DeliveryInv, DeliveryTypeOK
  <2>4. OffersCounted'
    BY <1>q, <1>t, <1>u, <2>1, <2>2, OnTheirWayAdvance DEF DeliveryInv, OffersCounted
  <2>5. HeardIsSettled'
    BY <1>u DEF DeliveryInv, HeardIsSettled
  <2>6. TrackedHoldsLock'
    <3> SUFFICES ASSUME NEW b \in Offers, NEW d \in Riders, d \notin freed
                 PROVE  /\ ack[<<b, d>>] = "pending" => lock'[d] = b
                        /\ \A x \in Callers : caller'[x].at = "register" /\ caller'[x].pair = <<b, d>>
                             => lock'[d] = b
      BY <1>u DEF TrackedHoldsLock
    <3>1. /\ ack[<<b, d>>] = "pending" => lock[d] = b
          /\ \A x \in Callers : caller[x].at = "register" /\ caller[x].pair = <<b, d>> => lock[d] = b
      BY DEF DeliveryInv, TrackedHoldsLock
    <3>2. b # NoOffer
      BY DeliveryConstants
    <3>3. lock'[d] = IF d = d0 THEN b0 ELSE lock[d]
      BY <2>1 DEF DeliveryInv, DeliveryTypeOK
    <3>4. /\ \A x \in Callers \ {c} : caller'[x] = caller[x]
          /\ caller'[c].pair = <<b0, d0>>
      BY <1>q, <2>1 DEF Advance, DeliveryInv, DeliveryTypeOK
    <3>5. ack[<<b, d>>] = "pending" => lock'[d] = b
      BY <3>1, <3>2, <3>3, <1>1
    <3>6. ASSUME NEW x \in Callers, caller'[x].at = "register", caller'[x].pair = <<b, d>>
          PROVE  lock'[d] = b
      <4>1. CASE x = c
        BY <4>1, <3>6, <3>4, <3>3
      <4>2. CASE x # c
        <5>1. lock[d] = b
          BY <4>2, <3>6, <3>4, <3>1
        <5> QED  BY <5>1, <3>2, <3>3, <1>1
      <4> QED  BY <4>1, <4>2
    <3> QED  BY <3>5, <3>6
  <2> QED  BY <2>3, <2>4, <2>5, <2>6 DEF DeliveryInv
<1>2. CASE lock[d0] # NoOffer
  <2>1. lock' = lock /\ Done(c)
    BY <1>2 DEF TryAssign
  <2>2. DeliveryTypeOK' /\ CallersHavePairs'
    BY <1>t, <1>u, <2>1, DoneTyped DEF DeliveryInv, DeliveryTypeOK
  <2>3. OffersCounted'
    BY <1>t, <1>u, <2>1, CountedDone DEF DeliveryInv
  <2>4. TrackedHoldsLock' /\ HeardIsSettled'
    <3>1. /\ \A x \in Callers \ {c} : caller'[x] = caller[x]
          /\ caller'[c].at = "idle"
      BY <2>1 DEF Done, DeliveryInv, DeliveryTypeOK
    <3> QED  BY <3>1, <2>1, <1>u DEF DeliveryInv, TrackedHoldsLock, HeardIsSettled
  <2> QED  BY <2>2, <2>3, <2>4 DEF DeliveryInv
<1> QED  BY <1>1, <1>2

LEMMA RegisterKeeps ==
  ASSUME DeliveryInv, NEW c \in Callers, Register(c)
  PROVE  DeliveryInv'
<1> DEFINE p0 == caller[c].pair
<1>t. DeliveryTyped
  BY DEF DeliveryInv, DeliveryTyped
<1>u. /\ ack' = [ack EXCEPT ![p0] = "pending"] /\ heard' = heard \ {p0}
      /\ Advance(c, "schedule") /\ caller[c].at = "register"
      /\ UNCHANGED <<lock, reached, fallback, made, released, pushed, freed>>
  BY DEF Register
<1>q. p0 \in Pair /\ p0[1] \in Offers /\ p0[2] \in Riders /\ p0 = <<p0[1], p0[2]>>
  BY <1>t, <1>u, CallerTyped, PairParts
<1>s. "schedule" \in Calling
  BY DEF Calling
<1>1. DeliveryTypeOK' /\ CallersHavePairs'
  <2>1. ack' \in [Pair -> {"none", "pending", "acked"}] /\ heard' \subseteq Pair
    BY <1>u DEF DeliveryInv, DeliveryTypeOK
  <2> QED  BY <2>1, <1>s, <1>t, <1>u, AdvanceTyped DEF DeliveryInv, DeliveryTypeOK
<1>2. OffersCounted'
  BY <1>s, <1>t, <1>u, OnTheirWayAdvance DEF DeliveryInv, OffersCounted
<1>3. HeardIsSettled'
  BY <1>u DEF DeliveryInv, DeliveryTypeOK, HeardIsSettled
<1>4. TrackedHoldsLock'
  <2> SUFFICES ASSUME NEW b \in Offers, NEW d \in Riders, d \notin freed
               PROVE  /\ ack'[<<b, d>>] = "pending" => lock[d] = b
                      /\ \A x \in Callers : caller'[x].at = "register" /\ caller'[x].pair = <<b, d>>
                           => lock[d] = b
    BY <1>u DEF TrackedHoldsLock
  <2>1. /\ ack[<<b, d>>] = "pending" => lock[d] = b
        /\ \A x \in Callers : caller[x].at = "register" /\ caller[x].pair = <<b, d>> => lock[d] = b
    BY DEF DeliveryInv, TrackedHoldsLock
  <2>2. <<b, d>> \in Pair
    BY DEF Pair
  <2>3. ack'[<<b, d>>] = IF <<b, d>> = p0 THEN "pending" ELSE ack[<<b, d>>]
    BY <2>2, <1>u DEF DeliveryInv, DeliveryTypeOK
  <2>4. /\ \A x \in Callers \ {c} : caller'[x] = caller[x]
        /\ caller'[c].at = "schedule"
    BY <1>u DEF Advance, DeliveryInv, DeliveryTypeOK
  <2>5. ack'[<<b, d>>] = "pending" => lock[d] = b
    BY <2>1, <2>3, <1>u
  <2>6. ASSUME NEW x \in Callers, caller'[x].at = "register", caller'[x].pair = <<b, d>>
        PROVE  lock[d] = b
    BY <2>6, <2>4, <2>1
  <2> QED  BY <2>5, <2>6
<1> QED  BY <1>1, <1>2, <1>3, <1>4 DEF DeliveryInv

LEMMA ScheduleKeeps ==
  ASSUME DeliveryInv, NEW c \in Callers, Schedule(c)
  PROVE  DeliveryInv'
<1> DEFINE p0 == caller[c].pair
<1>t. DeliveryTyped
  BY DEF DeliveryInv, DeliveryTyped
<1>u. /\ caller[c].at = "schedule" /\ Done(c)
      /\ fallback' = [fallback EXCEPT ![p0] = @ + 1] \/ fallback' = fallback
      /\ UNCHANGED <<lock, ack, reached, made, released, heard, pushed, freed>>
  BY DEF Schedule
<1>q. p0 \in Pair
  BY <1>t, <1>u, CallerTyped
<1>1. ASSUME NEW p \in Pair
      PROVE  /\ IsFiniteSet(OnTheirWay(p)') /\ fallback'[p] \in Nat
             /\ fallback'[p] + Cardinality(OnTheirWay(p)') <= made
  <2> DEFINE W == OnTheirWay(p)
  <2>1. IsFiniteSet(W) /\ fallback[p] + Cardinality(W) <= made
    BY DEF OffersCounted, DeliveryInv
  <2>2. fallback[p] \in Nat /\ made \in Nat
    BY DeliveryConstants DEF DeliveryInv, DeliveryTypeOK
  <2>3. OnTheirWay(p)' = W \ {c}
    BY <1>t, <1>u, OnTheirWayDone
  <2>4. c \in W <=> p = p0
    BY <1>u DEF OnTheirWay, Calling
  <2>5. /\ IsFiniteSet(W \ {c}) /\ Cardinality(W) \in Nat
        /\ Cardinality(W \ {c}) = IF c \in W THEN Cardinality(W) - 1 ELSE Cardinality(W)
    BY <2>1, FS_RemoveElement, FS_CardinalityType
  <2>6. Cardinality(W \ {c}) \in Nat
    BY <2>5, FS_CardinalityType
  <2>7. fallback'[p] = fallback[p] \/ (p = p0 /\ fallback'[p] = fallback[p] + 1)
    BY <1>u DEF DeliveryInv, DeliveryTypeOK
  <2> HIDE DEF W, p0
  <2> QED  BY <2>1, <2>2, <2>3, <2>4, <2>5, <2>6, <2>7
<1>2. OffersCounted'
  BY <1>1, <1>u DEF OffersCounted
<1>3. fallback' \in [Pair -> 0 .. MaxOffers]
  <2>1. \A p \in Pair : fallback'[p] \in 0 .. MaxOffers
    <3> TAKE p \in Pair
    <3>1. Cardinality(OnTheirWay(p)') \in Nat
      BY <1>1, FS_CardinalityType
    <3>2. made \in 0 .. MaxOffers /\ MaxOffers \in Nat
      BY DeliveryConstants DEF DeliveryInv, DeliveryTypeOK
    <3> QED  BY <1>1, <3>1, <3>2
  <2>2. fallback' = [p \in Pair |-> fallback'[p]]
    BY <1>u DEF DeliveryInv, DeliveryTypeOK
  <2> QED  BY <2>1, <2>2
<1>4. DeliveryTypeOK' /\ CallersHavePairs'
  BY <1>t, <1>u, <1>3, DoneTyped DEF DeliveryInv, DeliveryTypeOK
<1>5. TrackedHoldsLock' /\ HeardIsSettled'
  <2>1. /\ \A x \in Callers \ {c} : caller'[x] = caller[x]
        /\ caller'[c].at = "idle"
    BY <1>u DEF Done, DeliveryInv, DeliveryTypeOK
  <2> QED  BY <2>1, <1>u DEF DeliveryInv, TrackedHoldsLock, HeardIsSettled
<1> QED  BY <1>2, <1>4, <1>5 DEF DeliveryInv

(* The steps that leave the callers alone.                                 *)
LEMMA CountedUnless ==
  ASSUME OffersCounted, UNCHANGED <<caller, made>>, \A p \in Pair : fallback'[p] = fallback[p]
  PROVE  OffersCounted'
<1>1. \A p \in Pair : OnTheirWay(p)' = OnTheirWay(p)
  BY DEF OnTheirWay
<1> QED  BY <1>1 DEF OffersCounted

LEMMA OthersKeep ==
  ASSUME DeliveryInv,
         \/ \E p \in Pair : Acknowledge(p)
         \/ \E p \in Pair : Fallback(p)
         \/ \E d \in Riders : Release(d)
         \/ \E p \in Pair : Forget(p)
         \/ \E d \in Riders : LockExpires(d)
         \/ UNCHANGED deliveryVars
  PROVE  DeliveryInv'
<1> USE DEF DeliveryInv
<1>1. ASSUME NEW p \in Pair, Acknowledge(p)  PROVE DeliveryInv'
  <2>1. DeliveryTypeOK' /\ CallersHavePairs'
    BY <1>1 DEF Acknowledge, DeliveryTypeOK, CallersHavePairs
  <2>2. OffersCounted'
    BY <1>1, CountedUnless DEF Acknowledge
  <2>3. TrackedHoldsLock' /\ HeardIsSettled'
    BY <1>1 DEF Acknowledge, TrackedHoldsLock, HeardIsSettled, DeliveryTypeOK, Pair
  <2> QED  BY <2>1, <2>2, <2>3
<1>2. ASSUME NEW q \in Pair, Fallback(q)  PROVE DeliveryInv'
  <2>0. fallback' = [fallback EXCEPT ![q] = @ - 1] /\ fallback[q] > 0
    BY <1>2 DEF Fallback
  <2>1. DeliveryTypeOK' /\ CallersHavePairs'
    <3>1. \A p \in Pair : fallback[p] \in 0 .. MaxOffers
      BY DEF DeliveryTypeOK
    <3>2. fallback[q] - 1 \in 0 .. MaxOffers
      BY <2>0, <3>1, DeliveryConstants
    <3>3. fallback' \in [Pair -> 0 .. MaxOffers]
      BY <2>0, <3>2 DEF DeliveryTypeOK
    <3> QED  BY <3>3, <1>2 DEF Fallback, DeliveryTypeOK, CallersHavePairs
  <2>2. OffersCounted'
    <3> SUFFICES ASSUME NEW p \in Pair
                 PROVE  /\ IsFiniteSet(OnTheirWay(p)')
                        /\ fallback'[p] + Cardinality(OnTheirWay(p)') <= made'
      BY DEF OffersCounted
    <3>1. OnTheirWay(p)' = OnTheirWay(p) /\ made' = made
      BY <1>2 DEF OnTheirWay, Fallback
    <3>2. IsFiniteSet(OnTheirWay(p)) /\ fallback[p] + Cardinality(OnTheirWay(p)) <= made
      BY DEF OffersCounted
    <3>3. fallback[p] \in Nat /\ made \in Nat /\ Cardinality(OnTheirWay(p)) \in Nat
      BY <3>2, FS_CardinalityType, DeliveryConstants DEF DeliveryTypeOK
    <3>4. fallback'[p] = IF p = q THEN fallback[p] - 1 ELSE fallback[p]
      BY <2>0 DEF DeliveryTypeOK
    <3> QED  BY <3>1, <3>2, <3>3, <3>4
  <2>3. TrackedHoldsLock' /\ HeardIsSettled'
    BY <1>2 DEF Fallback, TrackedHoldsLock, HeardIsSettled
  <2> QED  BY <2>1, <2>2, <2>3
<1>3. ASSUME NEW e \in Riders, Release(e)  PROVE DeliveryInv'
  <2>1. DeliveryTypeOK' /\ CallersHavePairs'
    BY <1>3, DeliveryConstants DEF Release, Released, DeliveryTypeOK, CallersHavePairs
  <2>2. OffersCounted'
    BY <1>3, CountedUnless DEF Release
  <2>3. TrackedHoldsLock' /\ HeardIsSettled'
    BY <1>3 DEF Release, Released, TrackedHoldsLock, HeardIsSettled, DeliveryTypeOK
  <2> QED  BY <2>1, <2>2, <2>3
<1>4. ASSUME NEW p \in Pair, Forget(p)  PROVE DeliveryInv'
  <2>1. DeliveryTypeOK' /\ CallersHavePairs'
    BY <1>4 DEF Forget, DeliveryTypeOK, CallersHavePairs
  <2>2. OffersCounted'
    BY <1>4, CountedUnless DEF Forget
  <2>3. TrackedHoldsLock' /\ HeardIsSettled'
    BY <1>4 DEF Forget, TrackedHoldsLock, HeardIsSettled, DeliveryTypeOK, Pair
  <2> QED  BY <2>1, <2>2, <2>3
<1>5. ASSUME NEW e \in Riders, LockExpires(e)  PROVE DeliveryInv'
  <2>1. DeliveryTypeOK' /\ CallersHavePairs'
    BY <1>5 DEF LockExpires, DeliveryTypeOK, CallersHavePairs
  <2>2. OffersCounted'
    BY <1>5, CountedUnless DEF LockExpires
  <2>3. TrackedHoldsLock' /\ HeardIsSettled'
    BY <1>5 DEF LockExpires, TrackedHoldsLock, HeardIsSettled, DeliveryTypeOK
  <2> QED  BY <2>1, <2>2, <2>3
<1>6. CASE UNCHANGED deliveryVars
  <2>1. DeliveryTypeOK' /\ CallersHavePairs' /\ TrackedHoldsLock' /\ HeardIsSettled'
    BY <1>6 DEF deliveryVars, DeliveryTypeOK, CallersHavePairs, TrackedHoldsLock, HeardIsSettled
  <2>2. OffersCounted'
    BY <1>6, CountedUnless DEF deliveryVars
  <2> QED  BY <2>1, <2>2
<1> QED  BY <1>1, <1>2, <1>3, <1>4, <1>5, <1>6

LEMMA DeliveryInvNext == DeliveryInv /\ [DeliveryNext]_deliveryVars => DeliveryInv'
BY BroadcastKeeps, TryAssignKeeps, RegisterKeeps, ScheduleKeeps, OthersKeep DEF DeliveryNext

LEMMA DeliveryInvAlways == DeliverySpec => []DeliveryInv
BY DeliveryInvInit, DeliveryInvNext, PTL DEF DeliverySpec

(* Every variable of Delivery has its type, the waiting fallbacks are      *)
(* never more than the offers made (offer_delivery.py).                    *)
THEOREM DeliveryTypeCorrect == DeliverySpec => []DeliveryTypeOK
<1>1. DeliveryInv => DeliveryTypeOK
  BY DEF DeliveryInv
<1> QED  BY <1>1, DeliveryInvAlways, PTL

(* Of a driver nobody has freed, at most one offer is tracked.             *)
THEOREM OneOfferIsTracked == DeliverySpec => []OneTrackedOffer
<1>1. ASSUME DeliveryInv  PROVE OneTrackedOffer
  <2> SUFFICES ASSUME NEW d \in Riders, d \notin freed
               PROVE  Cardinality({b \in Offers : ack[<<b, d>>] = "pending"}) <= 1
    BY DEF OneTrackedOffer
  <2> DEFINE P == {b \in Offers : ack[<<b, d>>] = "pending"}
  <2>1. P \subseteq {lock[d]}
    BY <1>1 DEF DeliveryInv, TrackedHoldsLock
  <2>2. IsFiniteSet({lock[d]}) /\ Cardinality({lock[d]}) = 1
    BY FS_Singleton
  <2>3. Cardinality(P) <= Cardinality({lock[d]})
    BY <2>1, <2>2, FS_Subset
  <2> QED  BY <2>2, <2>3
<1> QED  BY <1>1, DeliveryInvAlways, PTL

(* No fallback task pushes an offer whose acknowledgement has been heard.  *)
THEOREM AcknowledgedIsNotPushed == DeliverySpec => AckSilencesFallback
<1> DEFINE Silent == \A p \in heard : fallback'[p] < fallback[p] => pushed' # p
<1>1. ASSUME DeliveryInv, [DeliveryNext]_deliveryVars  PROVE [Silent]_deliveryVars
  <2> SUFFICES ASSUME DeliveryNext, NEW p \in heard, fallback'[p] < fallback[p]
               PROVE  pushed' # p
    BY <1>1
  <2>p. p \in Pair /\ fallback[p] \in Nat
    BY <1>1, DeliveryConstants DEF DeliveryInv, DeliveryTypeOK
  <2>1. CASE fallback' = fallback
    BY <2>1, <2>p
  <2>2. ASSUME NEW c \in Callers, Schedule(c)  PROVE FALSE
    BY <2>2, <2>p, <1>1 DEF Schedule, DeliveryInv, DeliveryTypeOK
  <2>3. ASSUME NEW q \in Pair, Fallback(q)  PROVE pushed' # p
    <3>1. q = p
      BY <2>3, <2>p, <1>1 DEF Fallback, DeliveryInv, DeliveryTypeOK
    <3>2. pushed' = NoPair
      BY <3>1, <2>3, <1>1 DEF Fallback, NeedsPush, DeliveryInv, HeardIsSettled
    <3> QED  BY <3>2, <2>p, DeliveryConstants DEF NoPair, Pair
  <2>4. fallback' = fallback \/ (\E c \in Callers : Schedule(c)) \/ (\E q \in Pair : Fallback(q))
    BY DEF DeliveryNext, Broadcast, TryAssign, Register, Acknowledge, Release, Forget, LockExpires
  <2> QED  BY <2>1, <2>2, <2>3, <2>4
<1>2. AckSilencesFallback <=> [][Silent]_deliveryVars
  BY DEF AckSilencesFallback
<1> QED  BY <1>1, <1>2, DeliveryInvAlways, PTL DEF DeliverySpec

-----------------------------------------------------------------------------
(* RideDemo: who lost a ride hears of it.                                  *)

Contact == DemoDrivers \X Sockets

RideRow == [status : {"none", "pending", "accepted"},
            driver : DemoDrivers \cup {NoRider}, notified : SUBSET DemoDrivers]
Booker == [at : {"idle", "look", "ask"}, found : SUBSET Contact, left : SUBSET Contact]
Teller == [at : {"idle", "customer", "others"}, left : SUBSET DemoDrivers]
Lateness == [notified : BOOLEAN, rooms : SUBSET Contact]

DemoTyped ==
  /\ conn \in [Sockets -> {"new", "open", "closed"}]
  /\ socketOf \in [DemoDrivers -> Sockets \cup {NoSocket}]
  /\ entering \subseteq Contact
  /\ room \in [DemoDrivers -> SUBSET Sockets]
  /\ ride \in [Rides -> RideRow]
  /\ booker \in [Rides -> Booker]
  /\ teller \in [Rides -> Teller]
  /\ asked \in [Rides -> SUBSET Contact]
  /\ told \in [Rides -> SUBSET Sockets]
  /\ late \in [Rides -> Lateness]

(* A socket that is open and is some driver's, or is entering his room, or *)
(* has been looked up or asked as his, is in his room or on its way there. *)
Arriving(x) == x \in entering \/ x[2] \in room[x[1]]
SocketsArrive ==
  /\ \A d \in DemoDrivers : \A s \in Sockets : socketOf[d] = s /\ s # NoSocket =>
       conn[s] = "open" /\ Arriving(<<d, s>>)
  /\ \A e \in entering : conn[e[2]] = "open"
  /\ \A d \in DemoDrivers : \A s \in room[d] : conn[s] = "open"
  /\ \A r \in Rides : \A x \in booker[r].found \cup asked[r] :
       conn[x[2]] # "new" /\ (conn[x[2]] = "open" => Arriving(x))

(* Whom a ride has been offered to is among those who are being asked, and *)
(* once that is over among those who are kept.                             *)
AskedAreKept ==
  \A r \in Rides :
    /\ ride[r].status = "none" => booker[r].at = "idle" /\ asked[r] = {}
    /\ booker[r].at = "look" => asked[r] = {}
    /\ booker[r].at = "ask" => asked[r] \cup booker[r].left \subseteq booker[r].found
    /\ booker[r].at = "idle" => \A x \in asked[r] : x[1] \in ride[r].notified

(* From its acceptance on, everybody who was asked and lost is still to be *)
(* told or has been, but for what came too late.                           *)
LosersHear ==
  \A r \in Rides :
    /\ teller[r].at # "idle" => ride[r].status = "accepted"
    /\ ride[r].status = "accepted" /\ ~late[r].notified =>
         /\ booker[r].at = "idle"
         /\ \A x \in asked[r] : x \notin late[r].rooms /\ conn[x[2]] = "open" =>
              /\ x[2] \in room[x[1]]
              /\ x[1] = ride[r].driver \/ x[1] \in teller[r].left \/ x[2] \in told[r]

DemoInv == DemoTyped /\ SocketsArrive /\ AskedAreKept /\ LosersHear

LEMMA DemoInvInit == DemoInit => DemoInv
<1> SUFFICES ASSUME DemoInit  PROVE DemoInv
  OBVIOUS
<1> USE DEF DemoInit, NoBooker
<1>1. DemoTyped
  BY DEF DemoTyped, RideRow, Booker, Teller, Lateness
<1>2. SocketsArrive
  BY DEF SocketsArrive
<1>3. AskedAreKept /\ LosersHear
  BY DEF AskedAreKept, LosersHear
<1> QED  BY <1>1, <1>2, <1>3 DEF DemoInv

LEMMA ContactParts ==
  ASSUME NEW x \in Contact  PROVE x[1] \in DemoDrivers /\ x[2] \in Sockets /\ x = <<x[1], x[2]>>
BY DEF Contact

-----------------------------------------------------------------------------
LEMMA ConnectKeeps ==
  ASSUME DemoInv, NEW s \in Sockets, Connect(s)  PROVE DemoInv'
<1> USE DEF Connect, DemoInv
<1>1. DemoTyped'
  BY DEF DemoTyped, RideRow, Booker, Teller, Lateness
<1>2. \A y \in Sockets : conn'[y] = IF y = s THEN "open" ELSE conn[y]
  BY DEF DemoTyped, RideRow, Booker, Teller, Lateness
<1>3. conn[s] = "new"
  OBVIOUS
<1>4. \A r \in Rides : \A x \in booker[r].found \cup asked[r] : x[2] \in Sockets /\ conn'[x[2]] = conn[x[2]]
  <2> TAKE r \in Rides
  <2> TAKE x \in booker[r].found \cup asked[r]
  <2>1. x \in Contact
    BY DEF DemoTyped, RideRow, Booker, Teller, Lateness
  <2>2. conn[x[2]] # "new"
    BY DEF SocketsArrive
  <2> QED  BY <2>1, <2>2, <1>2, <1>3, ContactParts
<1>5. SocketsArrive'
  <2>1. \A e \in entering : e[2] \in Sockets
    BY ContactParts DEF DemoTyped, RideRow, Booker, Teller, Lateness
  <2>2. \A d \in DemoDrivers : \A y \in room[d] : y \in Sockets
    BY DEF DemoTyped, RideRow, Booker, Teller, Lateness
  <2> QED  BY <1>2, <1>4, <2>1, <2>2 DEF SocketsArrive, Arriving
<1>6. AskedAreKept'
  BY DEF AskedAreKept
<1>7. LosersHear'
  BY <1>4 DEF LosersHear
<1> QED  BY <1>1, <1>5, <1>6, <1>7

LEMMA DisconnectKeeps ==
  ASSUME DemoInv, NEW s \in Sockets, Disconnect(s)  PROVE DemoInv'
<1> USE DEF DemoInv
<1>u. UNCHANGED <<ride, booker, teller, asked, told, registrations, late>>
  BY DEF Disconnect
<1>1. DemoTyped'
  <2>1. /\ conn' \in [Sockets -> {"new", "open", "closed"}]
        /\ socketOf' \in [DemoDrivers -> Sockets \cup {NoSocket}]
        /\ entering' \subseteq Contact
        /\ room' \in [DemoDrivers -> SUBSET Sockets]
    BY DEF Disconnect, DemoTyped, RideRow, Booker, Teller, Lateness
  <2> QED  BY <1>u, <2>1 DEF DemoTyped, RideRow, Booker, Teller, Lateness
<1>2. \A y \in Sockets : conn'[y] = IF y = s THEN "closed" ELSE conn[y]
  BY DEF Disconnect, DemoTyped, RideRow, Booker, Teller, Lateness
<1>3. \A x \in Contact : x[2] # s => (Arriving(x) => Arriving(x)')
  <2> TAKE x \in Contact
  <2>1. x[1] \in DemoDrivers
    BY ContactParts
  <2>2. room'[x[1]] = room[x[1]] \ {s} /\ entering' = {e \in entering : e[2] # s}
    BY <2>1 DEF Disconnect
  <2> QED  BY <2>2 DEF Arriving
<1>4. SocketsArrive'
  <2>1. ASSUME NEW d \in DemoDrivers, NEW y \in Sockets, socketOf'[d] = y, y # NoSocket
        PROVE  conn'[y] = "open" /\ Arriving(<<d, y>>)'
    <3>1. socketOf[d] = y /\ y # s
      BY <2>1 DEF Disconnect
    <3>2. <<d, y>> \in Contact
      BY DEF Contact
    <3>3. conn[y] = "open" /\ Arriving(<<d, y>>)
      BY <2>1, <3>1 DEF SocketsArrive
    <3>4. Arriving(<<d, y>>)'
      BY <3>1, <3>2, <3>3, <1>3
    <3> QED  BY <3>1, <3>3, <3>4, <1>2
  <2>2. ASSUME NEW e \in entering'  PROVE conn'[e[2]] = "open"
    <3>1. e \in entering /\ e[2] # s
      BY <2>2 DEF Disconnect
    <3> QED  BY <3>1, <1>2, ContactParts DEF SocketsArrive, DemoTyped, RideRow, Booker, Teller, Lateness
  <2>3. ASSUME NEW d \in DemoDrivers, NEW y \in room'[d]  PROVE conn'[y] = "open"
    <3>1. y \in room[d] /\ y # s
      BY <2>3 DEF Disconnect
    <3> QED  BY <3>1, <1>2 DEF SocketsArrive, DemoTyped, RideRow, Booker, Teller, Lateness
  <2>4. ASSUME NEW r \in Rides, NEW x \in booker[r].found \cup asked[r]
        PROVE  conn'[x[2]] # "new" /\ (conn'[x[2]] = "open" => Arriving(x)')
    <3>1. x \in Contact
      BY DEF DemoTyped, RideRow, Booker, Teller, Lateness
    <3>2. conn[x[2]] # "new" /\ (conn[x[2]] = "open" => Arriving(x))
      BY DEF SocketsArrive
    <3> QED  BY <3>1, <3>2, <1>2, <1>3, ContactParts
  <2> QED  BY <2>1, <2>2, <2>3, <2>4, <1>u DEF SocketsArrive
<1>5. AskedAreKept'
  BY <1>u DEF AskedAreKept
<1>6. LosersHear'
  <2> SUFFICES ASSUME NEW r \in Rides, ride[r].status = "accepted", ~late[r].notified,
                      NEW x \in asked[r], x \notin late[r].rooms, conn'[x[2]] = "open"
               PROVE  /\ x[2] \in room'[x[1]]
                      /\ x[1] = ride[r].driver \/ x[1] \in teller[r].left \/ x[2] \in told[r]
    BY <1>u DEF LosersHear
  <2>1. x \in Contact
    BY DEF DemoTyped, RideRow, Booker, Teller, Lateness
  <2>2. x[2] # s /\ conn[x[2]] = "open"
    BY <1>2, <2>1, ContactParts
  <2>3. room'[x[1]] = room[x[1]] \ {s}
    BY <2>1, ContactParts DEF Disconnect
  <2> QED  BY <2>2, <2>3 DEF LosersHear
<1> QED  BY <1>1, <1>4, <1>5, <1>6

LEMMA RegisterSocketKeeps ==
  ASSUME DemoInv, NEW s \in Sockets, NEW d0 \in DemoDrivers, SetDriverSocket(s, d0)
  PROVE  DemoInv'
<1> USE DEF DemoInv
<1>u. /\ UNCHANGED <<conn, room, ride, booker, teller, asked, told, late>>
      /\ conn[s] = "open" /\ entering' = entering \cup {<<d0, s>>}
  BY DEF SetDriverSocket
<1>1. DemoTyped'
  <2>1. socketOf' \in [DemoDrivers -> Sockets \cup {NoSocket}] /\ entering' \subseteq Contact
    BY DEF SetDriverSocket, DemoTyped, Contact
  <2> QED  BY <1>u, <2>1 DEF DemoTyped, RideRow, Booker, Teller, Lateness
<1>2. SocketsArrive'
  <2>1. \A d \in DemoDrivers : socketOf'[d] = IF d = d0 THEN s ELSE socketOf[d]
    BY DEF SetDriverSocket, DemoTyped, RideRow, Booker, Teller, Lateness
  <2>2. ASSUME NEW d \in DemoDrivers, NEW y \in Sockets, socketOf'[d] = y, y # NoSocket
        PROVE  conn[y] = "open" /\ Arriving(<<d, y>>)'
    <3>1. CASE d = d0
      BY <3>1, <2>1, <2>2, <1>u DEF Arriving
    <3>2. CASE d # d0
      BY <3>2, <2>1, <2>2, <1>u DEF SocketsArrive, Arriving
    <3> QED  BY <3>1, <3>2
  <2>3. \A e \in entering' : conn[e[2]] = "open"
    BY <1>u DEF SocketsArrive
  <2>4. \A x : Arriving(x) => Arriving(x)'
    BY <1>u DEF Arriving
  <2>5. \A r \in Rides : \A x \in booker[r].found \cup asked[r] :
          conn[x[2]] # "new" /\ (conn[x[2]] = "open" => Arriving(x)')
    BY <2>4 DEF SocketsArrive
  <2> QED  BY <2>2, <2>3, <2>5, <1>u DEF SocketsArrive
<1>3. AskedAreKept' /\ LosersHear'
  BY <1>u DEF AskedAreKept, LosersHear
<1> QED  BY <1>1, <1>2, <1>3

LEMMA EnterRoomKeeps ==
  ASSUME DemoInv, NEW e \in entering, EnterRoom(e)  PROVE DemoInv'
<1> USE DEF DemoInv
<1>u. /\ UNCHANGED <<conn, socketOf, ride, booker, teller, asked, told, late>>
      /\ entering' = entering \ {e}
  BY DEF EnterRoom
<1>e. e \in Contact /\ e[1] \in DemoDrivers /\ e[2] \in Sockets /\ conn[e[2]] = "open"
  BY ContactParts DEF DemoTyped, SocketsArrive
<1>1. room' \in [DemoDrivers -> SUBSET Sockets]
  BY <1>e DEF EnterRoom, DemoTyped, RideRow, Booker, Teller, Lateness
<1>2. \A d \in DemoDrivers : room'[d] = IF d = e[1] THEN room[d] \cup {e[2]} ELSE room[d]
  BY <1>e DEF EnterRoom, DemoTyped, RideRow, Booker, Teller, Lateness
<1>3. DemoTyped'
  BY <1>1, <1>u DEF DemoTyped, RideRow, Booker, Teller, Lateness
<1>4. ASSUME NEW x \in Contact, Arriving(x)  PROVE Arriving(x)'
  <2>1. x[1] \in DemoDrivers /\ x = <<x[1], x[2]>> /\ e = <<e[1], e[2]>>
    BY <1>e, ContactParts
  <2> QED  BY <2>1, <1>2, <1>4, <1>u DEF Arriving
<1>5. SocketsArrive'
  <2>1. ASSUME NEW d \in DemoDrivers, NEW y \in Sockets, socketOf[d] = y, y # NoSocket
        PROVE  conn[y] = "open" /\ Arriving(<<d, y>>)'
    <3>1. <<d, y>> \in Contact
      BY DEF Contact
    <3>2. conn[y] = "open" /\ Arriving(<<d, y>>)
      BY <2>1 DEF SocketsArrive
    <3> QED  BY <1>4, <3>1, <3>2
  <2>2. \A d \in DemoDrivers : \A y \in room'[d] : conn[y] = "open"
    BY <1>2, <1>e DEF SocketsArrive
  <2>3. ASSUME NEW r \in Rides, NEW x \in booker[r].found \cup asked[r]
        PROVE  conn[x[2]] # "new" /\ (conn[x[2]] = "open" => Arriving(x)')
    <3>1. x \in Contact
      BY DEF DemoTyped, RideRow, Booker, Teller, Lateness
    <3>2. conn[x[2]] # "new" /\ (conn[x[2]] = "open" => Arriving(x))
      BY DEF SocketsArrive
    <3> QED  BY <3>1, <3>2, <1>4
  <2> QED  BY <2>1, <2>2, <2>3, <1>u DEF SocketsArrive, Arriving
<1>6. AskedAreKept'
  BY <1>u DEF AskedAreKept
<1>7. LosersHear'
  <2>1. \A r \in Rides : \A x \in asked[r] : x[1] \in DemoDrivers
    BY ContactParts DEF DemoTyped, RideRow, Booker, Teller, Lateness
  <2> QED  BY <2>1, <1>2, <1>u DEF LosersHear
<1> QED  BY <1>3, <1>5, <1>6, <1>7

LEMMA BookerKeeps ==
  ASSUME DemoInv, NEW r0 \in Rides,
         CreateRide(r0) \/ PickupFails(r0) \/ SaveNotified(r0)
           \/ \E near \in SUBSET DemoDrivers : Look(r0, near)
  PROVE  DemoInv'
<1> USE DEF DemoInv
<1>u. UNCHANGED <<conn, socketOf, entering, room, teller, asked, told, late>>
  BY DEF CreateRide, PickupFails, SaveNotified, Look
<1>t. ride[r0] \in RideRow /\ booker[r0] \in Booker
  BY DEF DemoTyped
<1>a. \A x : Arriving(x)' <=> Arriving(x)
  BY <1>u DEF Arriving
<1>1. CASE CreateRide(r0)
  <2>1. /\ \A r \in Rides \ {r0} : ride'[r] = ride[r] /\ booker'[r] = booker[r]
        /\ ride'[r0].status = "pending" /\ ride'[r0].notified = ride[r0].notified
        /\ booker'[r0].at = "look" /\ booker'[r0].found = booker[r0].found
        /\ ride[r0].status = "none"
    BY <1>1 DEF CreateRide, DemoTyped, RideRow, Booker, Teller, Lateness
  <2>2. DemoTyped'
    <3> DEFINE row == [ride[r0] EXCEPT !.status = "pending"]
               job == [booker[r0] EXCEPT !.at = "look"]
    <3>1. row \in RideRow /\ job \in Booker
      <4>1. row \in RideRow
        BY <1>t DEF RideRow
      <4>2. job \in Booker
        BY <1>t DEF Booker
      <4> QED  BY <4>1, <4>2
    <3>2. ride' = [ride EXCEPT ![r0] = row] /\ booker' = [booker EXCEPT ![r0] = job]
      BY <1>1 DEF CreateRide, DemoTyped, RideRow, Booker
    <3>3. ride' \in [Rides -> RideRow] /\ booker' \in [Rides -> Booker]
      BY <3>1, <3>2 DEF DemoTyped
    <3> QED  BY <3>3, <1>u DEF DemoTyped
  <2>3. SocketsArrive'
    BY <2>1, <1>u, <1>a DEF SocketsArrive
  <2>4. AskedAreKept' /\ LosersHear'
    BY <2>1, <1>u DEF AskedAreKept, LosersHear
  <2> QED  BY <2>2, <2>3, <2>4
<1>2. CASE PickupFails(r0)
  <2>1. /\ \A r \in Rides \ {r0} : booker'[r] = booker[r]
        /\ booker'[r0].at = "idle" /\ booker'[r0].found = {} /\ ride' = ride
        /\ booker[r0].at = "look"
    BY <1>2 DEF PickupFails, NoBooker, DemoTyped, RideRow, Booker, Teller, Lateness
  <2>2. DemoTyped'
    BY <1>2 DEF PickupFails, NoBooker, DemoTyped, RideRow, Booker, Teller, Lateness
  <2>3. SocketsArrive'
    BY <2>1, <1>u, <1>a DEF SocketsArrive
  <2>4. AskedAreKept' /\ LosersHear'
    BY <2>1, <1>u DEF AskedAreKept, LosersHear
  <2> QED  BY <2>2, <2>3, <2>4
<1>3. CASE SaveNotified(r0)
  <2>1. /\ \A r \in Rides \ {r0} : booker'[r] = booker[r] /\ ride'[r] = ride[r]
        /\ booker'[r0].at = "idle" /\ booker'[r0].found = {}
        /\ ride'[r0].status = ride[r0].status /\ ride'[r0].driver = ride[r0].driver
        /\ ride'[r0].notified = {x[1] : x \in booker[r0].found}
        /\ booker[r0].at = "ask"
    BY <1>3 DEF SaveNotified, NoBooker, DemoTyped, RideRow, Booker, Teller, Lateness
  <2>2. DemoTyped'
    <3>1. {x[1] : x \in booker[r0].found} \subseteq DemoDrivers
      BY ContactParts DEF DemoTyped, RideRow, Booker, Teller, Lateness
    <3> DEFINE row == [ride[r0] EXCEPT !.notified = {x[1] : x \in booker[r0].found}]
    <3>2. row \in RideRow /\ NoBooker \in Booker
      <4>1. row \in RideRow
        BY <3>1, <1>t DEF RideRow
      <4>2. NoBooker \in Booker
        BY DEF NoBooker, Booker
      <4> QED  BY <4>1, <4>2
    <3>3. ride' = [ride EXCEPT ![r0] = row] /\ booker' = [booker EXCEPT ![r0] = NoBooker]
      BY <1>3 DEF SaveNotified, DemoTyped, RideRow
    <3>4. ride' \in [Rides -> RideRow] /\ booker' \in [Rides -> Booker]
      BY <3>2, <3>3 DEF DemoTyped
    <3> QED  BY <3>4, <1>u DEF DemoTyped
  <2>3. SocketsArrive'
    BY <2>1, <1>u, <1>a DEF SocketsArrive
  <2>4. AskedAreKept'
    BY <2>1, <1>u DEF AskedAreKept
  <2>5. LosersHear'
    BY <2>1, <1>u DEF LosersHear
  <2> QED  BY <2>2, <2>3, <2>4, <2>5
<1>4. ASSUME NEW near \in SUBSET DemoDrivers, Look(r0, near)  PROVE DemoInv'
  <2> DEFINE found == {<<d, socketOf[d]>> : d \in NearbyAvailableOnline(near)}
  <2>1. /\ \A r \in Rides \ {r0} : booker'[r] = booker[r]
        /\ booker'[r0].at \in {"idle", "ask"} /\ booker'[r0].at = "idle" => found = {}
        /\ booker'[r0].found = found /\ booker'[r0].left = found
        /\ booker[r0].at = "look" /\ ride' = ride
    BY <1>4 DEF Look, DemoTyped, RideRow, Booker, Teller, Lateness
  <2>2. \A d \in NearbyAvailableOnline(near) :
           d \in DemoDrivers /\ socketOf[d] \in Sockets /\ socketOf[d] # NoSocket
    BY DEF NearbyAvailableOnline, DemoTyped, RideRow, Booker, Teller, Lateness
  <2>3. found \subseteq Contact
    BY <2>2 DEF Contact
  <2>4. DemoTyped'
    BY <2>3, <1>4 DEF Look, DemoTyped, RideRow, Booker, Teller, Lateness
  <2>5. ASSUME NEW x \in found  PROVE conn[x[2]] # "new" /\ Arriving(x)
    <3>1. PICK d \in NearbyAvailableOnline(near) : x = <<d, socketOf[d]>>
      OBVIOUS
    <3> QED  BY <3>1, <2>2 DEF SocketsArrive
  <2>6. SocketsArrive'
    <3>1. ASSUME NEW r \in Rides, NEW x \in booker'[r].found \cup asked[r]
          PROVE  conn[x[2]] # "new" /\ (conn[x[2]] = "open" => Arriving(x)')
      <4>1. CASE x \in booker[r].found \cup asked[r]
        BY <4>1, <1>a DEF SocketsArrive
      <4>2. CASE x \in found
        BY <4>2, <2>5, <1>a
      <4> QED  BY <4>1, <4>2, <2>1
    <3> QED  BY <3>1, <1>u, <1>a DEF SocketsArrive
  <2>7. AskedAreKept'
    BY <2>1, <1>u DEF AskedAreKept
  <2>8. LosersHear'
    BY <2>1, <1>u DEF LosersHear
  <2> QED  BY <2>4, <2>6, <2>7, <2>8
<1> QED  BY <1>1, <1>2, <1>3, <1>4

LEMMA AskOneKeeps ==
  ASSUME DemoInv, NEW r0 \in Rides, NEW x0 \in booker[r0].left, AskOne(r0, x0)
  PROVE  DemoInv'
<1> USE DEF DemoInv
<1>u. UNCHANGED <<conn, socketOf, entering, room, ride, teller, told, late>>
  BY DEF AskOne
<1>a. \A x : Arriving(x)' <=> Arriving(x)
  BY <1>u DEF Arriving
<1>x. x0 \in booker[r0].found /\ x0 \in Contact
  BY DEF AskOne, AskedAreKept, DemoTyped, RideRow, Booker, Teller, Lateness
<1>1. /\ \A r \in Rides \ {r0} : booker'[r] = booker[r] /\ asked'[r] = asked[r]
      /\ booker'[r0].at = "ask" /\ booker[r0].at = "ask"
      /\ booker'[r0].found = booker[r0].found /\ booker'[r0].left = booker[r0].left \ {x0}
      /\ asked'[r0] = IF conn[x0[2]] = "open" THEN asked[r0] \cup {x0} ELSE asked[r0]
  BY DEF AskOne, DemoTyped, RideRow, Booker, Teller, Lateness
<1>2. DemoTyped'
  <2>1. asked' \in [Rides -> SUBSET Contact]
    BY <1>x DEF AskOne, DemoTyped, RideRow, Booker, Teller, Lateness
  <2>2. booker' \in [Rides -> Booker]
    <3>1. [booker[r0] EXCEPT !.left = @ \ {x0}] \in Booker
      BY DEF DemoTyped, Booker
    <3>2. booker' = [booker EXCEPT ![r0] = [booker[r0] EXCEPT !.left = @ \ {x0}]]
      BY DEF AskOne, DemoTyped, Booker
    <3> QED  BY <3>1, <3>2 DEF DemoTyped
  <2> QED  BY <2>1, <2>2, <1>u DEF DemoTyped, RideRow, Booker, Teller, Lateness
<1>3. SocketsArrive'
  <2>1. ASSUME NEW r \in Rides, NEW x \in booker'[r].found \cup asked'[r]
        PROVE  x \in booker[r].found \cup asked[r]
    BY <1>1, <1>x
  <2> QED  BY <2>1, <1>u, <1>a DEF SocketsArrive
<1>4. AskedAreKept'
  BY <1>1, <1>x, <1>u DEF AskedAreKept
<1>5. LosersHear'
  BY <1>1, <1>u DEF LosersHear
<1> QED  BY <1>2, <1>3, <1>4, <1>5

LEMMA AcceptRideKeeps ==
  ASSUME DemoInv, NEW r0 \in Rides, NEW d0 \in DemoDrivers, TryAcceptRide(r0, d0)
  PROVE  DemoInv'
<1> USE DEF DemoInv
<1>u. UNCHANGED <<conn, socketOf, entering, room, booker, asked, told>>
  BY DEF TryAcceptRide
<1>a. \A x : Arriving(x)' <=> Arriving(x)
  BY <1>u DEF Arriving
<1>1. /\ \A r \in Rides \ {r0} : ride'[r] = ride[r] /\ teller'[r] = teller[r] /\ late'[r] = late[r]
      /\ ride[r0].status = "pending" /\ ride'[r0].status = "accepted" /\ ride'[r0].driver = d0
      /\ ride'[r0].notified = ride[r0].notified
      /\ teller'[r0].left = ride[r0].notified \ {d0}
      /\ late'[r0].notified = (booker[r0].at # "idle")
      /\ late'[r0].rooms = {e \in entering : e[2] \notin room[e[1]]}
  BY DEF TryAcceptRide, DemoTyped, RideRow, Booker, Teller, Lateness
<1>2. DemoTyped'
  <2>1. /\ ride[r0] \in RideRow
        /\ [at |-> "customer", left |-> ride[r0].notified \ {d0}] \in Teller
    BY DEF DemoTyped, RideRow, Teller
  <2>2. [ride[r0] EXCEPT !.status = "accepted", !.driver = d0] \in RideRow
    BY <2>1 DEF RideRow
  <2>3. [notified |-> booker[r0].at # "idle",
         rooms |-> {e \in entering : e[2] \notin room[e[1]]}] \in Lateness
    BY DEF DemoTyped, Lateness
  <2>4. /\ ride' = [ride EXCEPT ![r0] = [ride[r0] EXCEPT !.status = "accepted", !.driver = d0]]
        /\ teller' = [teller EXCEPT ![r0] = [at |-> "customer", left |-> ride[r0].notified \ {d0}]]
        /\ late' = [late EXCEPT ![r0] = [notified |-> booker[r0].at # "idle",
                                        rooms |-> {e \in entering : e[2] \notin room[e[1]]}]]
    BY DEF TryAcceptRide, DemoTyped, RideRow
  <2>5. ride' \in [Rides -> RideRow] /\ teller' \in [Rides -> Teller] /\ late' \in [Rides -> Lateness]
    BY <2>1, <2>2, <2>3, <2>4 DEF DemoTyped
  <2> QED  BY <2>5, <1>u DEF DemoTyped
<1>3. SocketsArrive'
  BY <1>u, <1>a DEF SocketsArrive
<1>4. AskedAreKept'
  BY <1>1, <1>u DEF AskedAreKept
<1>5. LosersHear'
  <2> SUFFICES ASSUME NEW r \in Rides
               PROVE  /\ teller'[r].at # "idle" => ride'[r].status = "accepted"
                      /\ ride'[r].status = "accepted" /\ ~late'[r].notified =>
                           /\ booker[r].at = "idle"
                           /\ \A x \in asked[r] : x \notin late'[r].rooms /\ conn[x[2]] = "open" =>
                                /\ x[2] \in room[x[1]]
                                /\ \/ x[1] = ride'[r].driver \/ x[1] \in teller'[r].left
                                   \/ x[2] \in told[r]
    BY <1>u DEF LosersHear
  <2>1. CASE r # r0
    BY <2>1, <1>1 DEF LosersHear
  <2>2. CASE r = r0
    <3>1. ASSUME ~late'[r].notified, NEW x \in asked[r], x \notin late'[r].rooms, conn[x[2]] = "open"
          PROVE  /\ x[2] \in room[x[1]]
                 /\ x[1] = ride'[r].driver \/ x[1] \in teller'[r].left
      <4>1. booker[r].at = "idle" /\ x[1] \in ride[r].notified
        BY <3>1, <2>2, <1>1 DEF AskedAreKept
      <4>2. Arriving(x)
        BY <3>1 DEF SocketsArrive
      <4> QED  BY <4>1, <4>2, <3>1, <2>2, <1>1 DEF Arriving
    <3> QED  BY <3>1, <2>2, <1>1
  <2> QED  BY <2>1, <2>2
<1> QED  BY <1>2, <1>3, <1>4, <1>5

LEMMA TellersKeep ==
  ASSUME DemoInv, NEW r0 \in Rides,
         TellCustomer(r0) \/ \E d \in DemoDrivers : TellOther(r0, d)
  PROVE  DemoInv'
<1> USE DEF DemoInv
<1>u. UNCHANGED <<conn, socketOf, entering, room, ride, booker, asked, late>>
  BY DEF TellCustomer, TellOther
<1>a. SocketsArrive' /\ AskedAreKept'
  BY <1>u DEF SocketsArrive, Arriving, AskedAreKept
<1>1. CASE TellCustomer(r0)
  <2>1. \A r \in Rides : teller'[r].left = teller[r].left /\ (teller'[r].at # "idle" => teller[r].at # "idle")
    BY <1>1 DEF TellCustomer, DemoTyped, RideRow, Booker, Teller, Lateness
  <2>2. DemoTyped'
    BY <1>1 DEF TellCustomer, DemoTyped, RideRow, Booker, Teller, Lateness
  <2>3. told' = told
    BY <1>1 DEF TellCustomer
  <2>4. LosersHear'
    BY <2>1, <2>3, <1>u DEF LosersHear
  <2> QED  BY <2>2, <2>4, <1>a
<1>2. ASSUME NEW d \in DemoDrivers, TellOther(r0, d)  PROVE DemoInv'
  <2>1. /\ \A r \in Rides \ {r0} : teller'[r] = teller[r] /\ told'[r] = told[r]
        /\ teller[r0].at = "others" /\ teller'[r0].at = "others"
        /\ teller'[r0].left = teller[r0].left \ {d}
        /\ told'[r0] = told[r0] \cup room[d]
    BY <1>2 DEF TellOther, DemoTyped, RideRow, Booker, Teller, Lateness
  <2>2. DemoTyped'
    BY <1>2 DEF TellOther, DemoTyped, RideRow, Booker, Teller, Lateness
  <2>3. LosersHear'
    BY <2>1, <1>u DEF LosersHear
  <2> QED  BY <2>2, <2>3, <1>a
<1> QED  BY <1>1, <1>2

LEMMA DemoInvNext == DemoInv /\ [DemoNext]_demoVars => DemoInv'
<1>1. ASSUME DemoInv, UNCHANGED demoVars  PROVE DemoInv'
  BY <1>1 DEF demoVars, DemoInv, DemoTyped, SocketsArrive, Arriving, AskedAreKept, LosersHear
<1> QED  BY <1>1, ConnectKeeps, DisconnectKeeps, RegisterSocketKeeps, EnterRoomKeeps, BookerKeeps,
            AskOneKeeps, AcceptRideKeeps, TellersKeep DEF DemoNext

(* When an acceptance is through, whoever was asked in time and lost the   *)
(* ride has been told, for any number of drivers, sockets and rides        *)
(* (try_accept_ride, accept_ride).                                         *)
THEOREM LosersHearOfIt == DemoSpec => []LosersAreTold
<1>1. DemoInv => LosersAreTold
  <2> SUFFICES ASSUME DemoInv, NEW r \in Rides, teller[r].at = "others", teller[r].left = {},
                      ~late[r].notified, NEW x \in asked[r], x[1] # ride[r].driver,
                      x \notin late[r].rooms, x[2] \in room[x[1]]
               PROVE  x[2] \in told[r]
    BY DEF LosersAreTold
  <2>1. conn[x[2]] = "open"
    BY ContactParts DEF DemoInv, DemoTyped, SocketsArrive
  <2> QED  BY <2>1 DEF DemoInv, LosersHear
<1> QED  BY <1>1, DemoInvInit, DemoInvNext, PTL DEF DemoSpec

-----------------------------------------------------------------------------
(* Promotions.                                                             *)

(* A nonempty set of finite sets has a smallest: induction over finite     *)
(* sets is by a smallest counterexample here, as no prover instantiates    *)
(* the operator of FS_Induction.                                           *)
LEMMA SmallestSet ==
  ASSUME NEW S, NEW T \in SUBSET FiniteSubsetsOf(S), T # {}
  PROVE  \E x \in T : \A y \in T : ~(y \subseteq x /\ y # x)
<1>1. IsWellFoundedOn(StrictSubsetOrdering(S), FiniteSubsetsOf(S))
  BY FS_StrictSubsetOrderingWellFounded
<1>2. PICK x \in T : \A y \in T : ~(<<y, x>> \in StrictSubsetOrdering(S))
  BY <1>1, WFMin
<1>3. \A y \in T : y \in SUBSET S
  BY DEF FiniteSubsetsOf
<1> QED  BY <1>2, <1>3 DEF StrictSubsetOrdering

-----------------------------------------------------------------------------
(* Promotions: free rides add up, and banners serve.                       *)

Existing == {p \in Promos : promo[p] # NoPromo}
SettlerJob ==
  [at : {"idle", "count", "post"}, trip : Trips \cup {NoPromo}, way : {"online", "cash", NoPromo},
   promo : Promos \cup {NoPromo}, limit : Nat, number : Nat]

(* Beside the types: a request holds a row of an offer from its opening to *)
(* its end, a settlement a trip and the way it is settled; and there are   *)
(* finitely many uses and offers.                                          *)
RequestsHoldRows ==
  \A a \in Admins :
    /\ admin[a].at = "idle" => admin[a] = Away
    /\ admin[a].at # "idle" => admin[a].promo \in Promos /\ admin[a].row \in Promo
SettlersHoldBills ==
  \A s \in Settlers :
    /\ settler[s].at # "idle" => <<settler[s].trip, settler[s].way>> \in Bills
    /\ settler[s].at = "count" => settler[s].promo \in Promos /\ settler[s].number = 0
    /\ settler[s].number > 0 => settler[s].at = "post" /\ settler[s].promo \in Promos

PromotionTyped ==
  PromotionTypeOK /\ RequestsHoldRows /\ SettlersHoldBills /\ IsFiniteSet(usage) /\ IsFiniteSet(Existing)

LEMMA BillParts ==
  ASSUME NEW t, NEW way, <<t, way>> \in Bills
  PROVE  t \in Trips /\ way \in {"online", "cash"}
BY PromotionConstants

(* Of finitely many offers in force one outranks the others: CurrentPromo  *)
(* is an offer in force.                                                   *)
LEMMA CurrentPromoExists ==
  ASSUME PromotionTyped, InForce # {}
  PROVE  CurrentPromo \in InForce
<1> DEFINE Foremost(T) == \E p \in T : \A q \in T \ {p} : ~Outranks(q, p)
           Bad == {T \in SUBSET InForce : T # {} /\ ~Foremost(T)}
<1>0. IsFiniteSet(InForce)
  BY FS_Subset DEF PromotionTyped, InForce, Existing
<1>t. \A p \in InForce : promo[p].rank \in Nat /\ promo[p].made \in Int
  BY DEF InForce, PromotionTyped, PromotionTypeOK, Promo
<1>1. ASSUME Bad # {}  PROVE FALSE
  <2>1. Bad \in SUBSET FiniteSubsetsOf(InForce)
    BY <1>0, FS_FiniteSubsetsOfFinite
  <2>2. PICK T \in Bad : \A y \in Bad : ~(y \subseteq T /\ y # T)
    <3> HIDE DEF Bad
    <3> QED  BY <1>1, <2>1, SmallestSet
  <2>3. PICK x \in T : TRUE
    BY <2>2
  <2>4. T \ {x} # {}
    BY <2>2, <2>3
  <2>5. Foremost(T \ {x})
    <3>1. T \ {x} \in SUBSET InForce /\ T \ {x} \notin Bad
      BY <2>2, <2>3
    <3> HIDE DEF Foremost
    <3> QED  BY <3>1, <2>4
  <2>6. PICK m \in T \ {x} : \A q \in (T \ {x}) \ {m} : ~Outranks(q, m)
    BY <2>5
  <2>7. CASE ~Outranks(x, m)
    BY <2>6, <2>7, <2>2
  <2>8. CASE Outranks(x, m)
    <3>1. ASSUME NEW q \in T \ {x}  PROVE ~Outranks(q, x)
      <4>0. x \in InForce /\ m \in InForce /\ q \in InForce
        BY <2>2, <2>3, <2>6
      <4>1. CASE q = m
        BY <4>0, <4>1, <2>8, <1>t DEF Outranks
      <4>2. CASE q # m
        <5>1. ~Outranks(q, m)
          BY <4>2, <2>6
        <5> QED  BY <4>0, <5>1, <2>8, <1>t DEF Outranks
      <4> QED  BY <4>1, <4>2
    <3> QED  BY <3>1, <2>2, <2>3
  <2> QED  BY <2>7, <2>8
<1>2. Foremost(InForce)
  BY <1>1
<1>3. CurrentPromo = CHOOSE p \in InForce : \A q \in InForce \ {p} : ~Outranks(q, p)
  BY DEF CurrentPromo
<1> QED  BY <1>2, <1>3

LEMMA UsesFinite ==
  ASSUME PromotionTyped, NEW p
  PROVE  IsFiniteSet(Uses(p)) /\ Used(p) \in Nat
<1>1. IsFiniteSet(Uses(p))
  BY FS_Subset DEF PromotionTyped, Uses
<1> QED  BY <1>1, FS_CardinalityType DEF Used

LEMMA DraftParts ==
  ASSUME NEW draft \in Drafts
  PROVE  /\ draft.rides \in Nat /\ draft.rank \in Nat /\ draft.file \in BOOLEAN
         /\ draft.window \in {"ahead", "now"} /\ draft.banner \in {"", "text"}
BY PromotionRequests

LEMMA EditParts ==
  ASSUME NEW edit \in Edits
  PROVE  /\ edit.rides \in Nat /\ edit.active \in BOOLEAN /\ edit.file \in BOOLEAN
         /\ edit.banner \in {"kept", "", "text", "typed"}
BY PromotionRequests

LEMMA RowOfTyped ==
  ASSUME NEW draft \in Drafts, NEW when \in 0 .. MaxEdits
  PROVE  RowOf(draft, when) \in Promo
BY DraftParts DEF RowOf, Promo, Url

LEMMA PromotionTypedInit == PromotionInit => PromotionTyped
<1> SUFFICES ASSUME PromotionInit  PROVE PromotionTyped
  OBVIOUS
<1>0. MaxEdits \in Nat /\ 0 \in 0 .. MaxEdits
  BY PromotionConstants
<1>1. PICK p \in Promos \cup {NoPromo}, draft \in Drafts :
        promo = [q \in Promos |-> IF q = p THEN RowOf(draft, 0) ELSE NoPromo]
  BY DEF PromotionInit
<1>2. RowOf(draft, 0) \in Promo
  BY <1>0, RowOfTyped
<1>3. promo \in [Promos -> Promo \cup {NoPromo}]
  BY <1>1, <1>2
<1>4. PromotionTypeOK
  BY <1>0, <1>3 DEF PromotionInit, PromotionTypeOK, Resting, Away
<1>5. RequestsHoldRows /\ SettlersHoldBills
  BY DEF PromotionInit, RequestsHoldRows, SettlersHoldBills, Resting, Away
<1>6. Existing \subseteq {p}
  BY <1>1 DEF Existing
<1>7. IsFiniteSet({p})
  BY FS_Singleton
<1>8. IsFiniteSet(usage) /\ IsFiniteSet(Existing)
  BY <1>6, <1>7, FS_Subset, FS_EmptySet DEF PromotionInit
<1> QED  BY <1>4, <1>5, <1>8 DEF PromotionTyped
(* What a request of an administrator leaves of the others' and of itself. *)
LEMMA RequestedTyped ==
  ASSUME PromotionTyped, NEW a \in Admins, NEW at \in {"idle", "opened", "banner"},
         NEW p, NEW row, at # "idle" => p \in Promos /\ row \in Promo, Requested(a, at, p, row)
  PROVE  /\ admin' \in [Admins -> [at : {"idle", "opened", "banner"}, promo : Promos \cup {NoPromo},
                                   row : Promo \cup {NoPromo}]]
         /\ RequestsHoldRows'
<1>1. CASE at = "idle"
  BY <1>1 DEF PromotionTyped, PromotionTypeOK, RequestsHoldRows, Requested, Away
<1>2. CASE at # "idle"
  BY <1>2 DEF PromotionTyped, PromotionTypeOK, RequestsHoldRows, Requested, Away
<1> QED  BY <1>1, <1>2

LEMMA SettlerStepsTyped ==
  ASSUME PromotionTyped, NEW s \in Settlers,
         \/ \E bill \in Bills : SettleTrip(s, bill[1], bill[2])
         \/ CountUses(s)
         \/ PostTrip(s)
  PROVE  PromotionTyped'
<1> USE DEF PromotionTyped
<1>u. UNCHANGED <<promo, limited, admin, edits, lowered>>
  BY DEF SettleTrip, CountUses, PostTrip
<1>e. RequestsHoldRows' /\ IsFiniteSet(Existing')
  BY <1>u DEF RequestsHoldRows, Existing
<1>j. settler[s] \in SettlerJob
  BY DEF PromotionTypeOK, SettlerJob
<1>1. ASSUME NEW bill \in Bills, SettleTrip(s, bill[1], bill[2])  PROVE PromotionTyped'
  <2>1. bill[1] \in Trips /\ bill[2] \in {"online", "cash"} /\ bill = <<bill[1], bill[2]>>
    BY PromotionConstants
  <2> DEFINE job == [at |-> IF CurrentPromo = NoPromo THEN "post" ELSE "count",
                     trip |-> bill[1], way |-> bill[2], promo |-> CurrentPromo, number |-> 0,
                     limit |-> IF CurrentPromo = NoPromo THEN 0 ELSE promo[CurrentPromo].rides]
  <2>2. CurrentPromo # NoPromo => CurrentPromo \in Promos /\ promo[CurrentPromo] \in Promo
    <3>1. InForce = {} => CurrentPromo = NoPromo
      BY DEF CurrentPromo
    <3>2. CurrentPromo \in InForce => CurrentPromo \in Promos /\ promo[CurrentPromo] \in Promo
      BY DEF InForce, PromotionTypeOK
    <3> QED  BY <3>1, <3>2, CurrentPromoExists
  <2>3. job \in SettlerJob
    BY <2>1, <2>2 DEF SettlerJob, Promo
  <2>4. settler' = [settler EXCEPT ![s] = job]
    BY <1>1 DEF SettleTrip
  <2>5. settler' \in [Settlers -> SettlerJob]
    BY <2>3, <2>4 DEF PromotionTypeOK, SettlerJob
  <2>6. UNCHANGED <<usage, settled, overtaken>>
    BY <1>1 DEF SettleTrip
  <2>7. SettlersHoldBills'
    <3>1. /\ job.at # "idle" => <<job.trip, job.way>> \in Bills
          /\ job.at = "count" => job.promo \in Promos
          /\ job.number = 0
      BY <2>1, <2>2
    <3> HIDE DEF job
    <3> QED  BY <2>4, <3>1 DEF SettlersHoldBills, PromotionTypeOK
  <2> QED  BY <1>e, <1>u, <2>5, <2>6, <2>7 DEF PromotionTypeOK, SettlerJob
<1>2. CASE CountUses(s)
  <2> DEFINE job == [settler[s] EXCEPT !.at = "post", !.limit = 0, !.number = RideNumber(settler[s])]
  <2>1. settler[s].at = "count" /\ settler' = [settler EXCEPT ![s] = job]
        /\ UNCHANGED <<usage, settled, overtaken>>
    BY <1>2 DEF CountUses
  <2>2. RideNumber(settler[s]) \in Nat
    BY UsesFinite DEF RideNumber
  <2>3. job \in SettlerJob
    BY <1>j, <2>2 DEF SettlerJob
  <2>4. settler' \in [Settlers -> SettlerJob]
    BY <2>1, <2>3 DEF PromotionTypeOK, SettlerJob
  <2>5. SettlersHoldBills'
    <3>1. <<settler[s].trip, settler[s].way>> \in Bills /\ settler[s].promo \in Promos
      BY <2>1 DEF SettlersHoldBills
    <3>2. job.trip = settler[s].trip /\ job.way = settler[s].way /\ job.promo = settler[s].promo
          /\ job.at = "post"
      BY <1>j DEF SettlerJob
    <3> HIDE DEF job
    <3> QED  BY <2>1, <3>1, <3>2 DEF SettlersHoldBills, PromotionTypeOK
  <2> QED  BY <1>e, <1>u, <2>1, <2>4, <2>5 DEF PromotionTypeOK, SettlerJob
<1>3. CASE PostTrip(s)
  <2> DEFINE j == settler[s]
  <2>1. j.at = "post" /\ settler' = [settler EXCEPT ![s] = Resting]
    BY <1>3 DEF PostTrip
  <2>2. Resting \in SettlerJob /\ Resting.at = "idle" /\ Resting.number = 0
    BY DEF Resting, SettlerJob
  <2>3. settler' \in [Settlers -> SettlerJob] /\ SettlersHoldBills'
    BY <2>1, <2>2 DEF PromotionTypeOK, SettlerJob, SettlersHoldBills
  <2>4. <<j.trip, j.way>> \in Bills /\ j.trip \in Trips /\ (j.number > 0 => j.promo \in Promos)
    BY <2>1, BillParts DEF SettlersHoldBills
  <2>5. Taken(j) \subseteq [promo : Promos, trip : Trips, number : Nat \ {0}] /\ IsFiniteSet(Taken(j))
    <3> DEFINE use == [promo |-> j.promo, trip |-> j.trip, number |-> j.number]
    <3>1. j.number > 0 => use \in [promo : Promos, trip : Trips, number : Nat \ {0}]
      BY <2>4, <1>j DEF SettlerJob
    <3>2. IsFiniteSet(usage \cup {use})
      BY FS_AddElement
    <3>3. Taken(j) = usage \/ (j.number > 0 /\ Taken(j) = usage \cup {use})
      BY DEF Taken
    <3> HIDE DEF use
    <3> QED  BY <3>1, <3>2, <3>3 DEF PromotionTypeOK
  <2>6. \A r \in Settlers : settler[r].number > 0 => settler[r].trip \in Trips
    BY BillParts DEF SettlersHoldBills
  <2>7. settled' \subseteq Bills /\ usage' \subseteq [promo : Promos, trip : Trips, number : Nat \ {0}]
        /\ IsFiniteSet(usage') /\ overtaken' \subseteq Trips
    <3>1. CASE UNCHANGED <<usage, settled, overtaken>>
      BY <3>1 DEF PromotionTypeOK
    <3>2. CASE ~UNCHANGED <<usage, settled, overtaken>>
      <4>1. /\ settled' = settled \cup {<<j.trip, j.way>>} /\ usage' = Taken(j)
            /\ overtaken' = IF usage' = usage THEN overtaken
                              ELSE overtaken \cup
                                {settler[r].trip : r \in {q \in Settlers \ {s} :
                                   settler[q].promo = j.promo /\ settler[q].number > 0}}
        BY <1>3, <3>2 DEF PostTrip
      <4> QED  BY <4>1, <2>4, <2>5, <2>6 DEF PromotionTypeOK
    <3> QED  BY <3>1, <3>2
  <2> QED  BY <1>e, <1>u, <2>3, <2>7 DEF PromotionTypeOK, SettlerJob
<1> QED  BY <1>1, <1>2, <1>3

(* After a row of one offer has been written, or one is gone.              *)
LEMMA ExistingFinite ==
  ASSUME IsFiniteSet(Existing), NEW p \in Promos,
         \A q \in Promos \ {p} : promo'[q] = promo[q]
  PROVE  IsFiniteSet(Existing')
<1>1. Existing' \subseteq Existing \cup {p}
  BY DEF Existing
<1>2. IsFiniteSet(Existing \cup {p})
  BY FS_AddElement
<1> QED  BY <1>1, <1>2, FS_Subset

LEMMA UrlAfterTyped ==
  ASSUME NEW url \in Url, NEW banner \in {"kept", "", "text", "typed"}, NEW file \in BOOLEAN
  PROVE  /\ UrlAfter(url, banner, file) \in Url
         /\ UrlAfter(url, banner, file) = "own" => url = "own"
<1>1. CASE banner \in {"text", "typed"}
  BY <1>1 DEF UrlAfter, Url
<1>2. CASE banner \in {"kept", ""} /\ url = ""
  BY <1>2 DEF UrlAfter, Url
<1>3. CASE banner = "kept" /\ url # ""
  BY <1>3 DEF UrlAfter
<1>4. CASE banner = "" /\ url # ""
  BY <1>4 DEF UrlAfter, Url
<1> QED  BY <1>1, <1>2, <1>3, <1>4

(* What UpdatePromo writes.                                                *)
EditedRow(row, edit) ==
  [row EXCEPT !.rides = edit.rides, !.active = edit.active,
              !.url = UrlAfter(@, edit.banner, edit.file)]

LEMMA EditedRowTyped ==
  ASSUME NEW row \in Promo, NEW edit \in Edits
  PROVE  /\ EditedRow(row, edit) \in Promo
         /\ EditedRow(row, edit).rides = edit.rides /\ edit.rides \in Nat
         /\ EditedRow(row, edit).url = UrlAfter(row.url, edit.banner, edit.file)
         /\ EditedRow(row, edit).image = row.image
<1>1. /\ edit.rides \in Nat /\ edit.active \in BOOLEAN /\ edit.file \in BOOLEAN
      /\ edit.banner \in {"kept", "", "text", "typed"}
  BY EditParts
<1>2. row.url \in Url
  BY DEF Promo
<1>3. UrlAfter(row.url, edit.banner, edit.file) \in Url
  BY <1>1, <1>2, UrlAfterTyped
<1> QED  BY <1>1, <1>3 DEF EditedRow, Promo

(* The columns that SaveBanner and NewDay write of a row.                  *)
LEMMA BannerRow ==
  ASSUME PromotionTyped, NEW a \in Admins, SaveBanner(a), promo' # promo
  PROVE  LET p == admin[a].promo
         IN  /\ p \in Promos /\ promo[p] \in Promo
             /\ \E url \in Url, image \in BOOLEAN :
                  LET row == [promo[p] EXCEPT !.url = url, !.image = image]
                  IN  /\ row \in Promo /\ promo' = [promo EXCEPT ![p] = row]
                      /\ row.url = url /\ row.image = image /\ row.rides = promo[p].rides
                      /\ url = "own" => image
<1> DEFINE p == admin[a].promo
           row == admin[a].row
<1> USE DEF PromotionTyped
<1>1. p \in Promos /\ row \in Promo
  BY DEF SaveBanner, RequestsHoldRows
<1>2. /\ promo[p] # NoPromo
      /\ \/ promo' = BannerSaved(p, [row EXCEPT !.url = "store"])
         \/ promo' = BannerSaved(p, [row EXCEPT !.url = "own", !.image = TRUE])
  BY DEF SaveBanner
<1>3. /\ [row EXCEPT !.url = "store"].url = "store" /\ [row EXCEPT !.url = "store"].image = row.image
      /\ [row EXCEPT !.url = "own", !.image = TRUE].url = "own"
      /\ [row EXCEPT !.url = "own", !.image = TRUE].image = TRUE
      /\ row.image \in BOOLEAN
  BY <1>1 DEF Promo
<1>4. "store" \in Url /\ "own" \in Url
  BY DEF Url
<1>5. promo[p] \in Promo
  BY <1>1, <1>2 DEF PromotionTypeOK
<1>6. PICK url \in Url, image \in BOOLEAN :
        promo' = [promo EXCEPT ![p].url = url, ![p].image = image] /\ (url = "own" => image)
  <2> HIDE DEF p, row
  <2> QED  BY <1>2, <1>3, <1>4 DEF BannerSaved
<1> DEFINE new == [promo[p] EXCEPT !.url = url, !.image = image]
<1>7. new \in Promo /\ new.url = url /\ new.image = image /\ new.rides = promo[p].rides
  BY <1>5 DEF Promo
<1>8. promo' = [promo EXCEPT ![p] = new]
  BY <1>1, <1>5, <1>6 DEF PromotionTypeOK, Promo
<1> QED  BY <1>1, <1>5, <1>6, <1>7, <1>8

LEMMA DayRow ==
  ASSUME PromotionTyped, NEW p \in Promos, NewDay(p)
  PROVE  \E next \in {"now", "past"} :
           LET row == [promo[p] EXCEPT !.window = next]
           IN  /\ promo[p] \in Promo /\ row \in Promo
               /\ row.url = promo[p].url /\ row.image = promo[p].image /\ row.rides = promo[p].rides
               /\ promo' = [promo EXCEPT ![p] = row]
               /\ admin' = [a \in Admins |-> IF admin[a].promo = p
                                     THEN [admin[a] EXCEPT !.row.window = next] ELSE admin[a]]
<1> DEFINE next == IF promo[p].window = "ahead" THEN "now" ELSE "past"
<1> USE DEF PromotionTyped
<1>1. promo[p] \in Promo
  BY DEF NewDay, PromotionTypeOK
<1>2. /\ promo' = [promo EXCEPT ![p].window = next]
      /\ admin' = [a \in Admins |-> IF admin[a].promo = p
                                   THEN [admin[a] EXCEPT !.row.window = next] ELSE admin[a]]
  BY DEF NewDay
<1>3. next \in {"now", "past"}
  OBVIOUS
<1> HIDE DEF next
<1> DEFINE row == [promo[p] EXCEPT !.window = next]
<1>4. row \in Promo /\ row.url = promo[p].url /\ row.image = promo[p].image /\ row.rides = promo[p].rides
  BY <1>1, <1>3 DEF Promo
<1>5. promo' = [promo EXCEPT ![p] = row]
  BY <1>1, <1>2 DEF PromotionTypeOK, Promo
<1> QED  BY <1>1, <1>2, <1>3, <1>4, <1>5

LEMMA AdminStepsTyped ==
  ASSUME PromotionTyped,
         \/ \E a \in Admins, p \in Promos, draft \in Drafts : CreatePromo(a, p, draft)
         \/ \E a \in Admins, p \in Promos : OpenPromo(a, p)
         \/ \E a \in Admins, edit \in Edits : UpdatePromo(a, edit)
         \/ \E a \in Admins : SaveBanner(a)
         \/ \E a \in Admins : DeletePromo(a)
         \/ \E p \in Promos : NewDay(p)
  PROVE  PromotionTyped'
<1> USE DEF PromotionTyped
<1>1. ASSUME NEW a \in Admins, NEW p \in Promos, NEW draft \in Drafts, CreatePromo(a, p, draft)
      PROVE  PromotionTyped'
  <2>u. UNCHANGED <<usage, settled, settler, overtaken, lowered>>
    BY <1>1 DEF CreatePromo
  <2>1. edits' \in 0 .. MaxEdits /\ edits' = edits + 1
    BY <1>1, PromotionConstants DEF CreatePromo, PromotionTypeOK
  <2>2. RowOf(draft, edits + 1) \in Promo
    BY <2>1, RowOfTyped
  <2>3. promo' \in [Promos -> Promo \cup {NoPromo}] /\ limited' \in [Promos -> SUBSET Vehicles]
    BY <1>1, <2>2 DEF CreatePromo, PromotionTypeOK
  <2>4. Requested(a, IF draft.file THEN "banner" ELSE "idle", p, RowOf(draft, edits + 1))
    BY <1>1 DEF CreatePromo
  <2>5. /\ admin' \in [Admins -> [at : {"idle", "opened", "banner"}, promo : Promos \cup {NoPromo},
                                 row : Promo \cup {NoPromo}]]
        /\ RequestsHoldRows'
    BY <2>2, <2>4, RequestedTyped
  <2>6. IsFiniteSet(Existing')
    BY <1>1, ExistingFinite DEF CreatePromo, PromotionTypeOK
  <2>7. SettlersHoldBills' /\ IsFiniteSet(usage')
    BY <2>u DEF SettlersHoldBills
  <2> QED  BY <2>u, <2>1, <2>3, <2>5, <2>6, <2>7 DEF PromotionTypeOK
<1>2. ASSUME NEW a \in Admins, NEW p \in Promos, OpenPromo(a, p)  PROVE PromotionTyped'
  <2>u. UNCHANGED <<promo, limited, usage, settled, settler, overtaken, lowered>>
    BY <1>2 DEF OpenPromo
  <2>1. edits' \in 0 .. MaxEdits
    BY <1>2, PromotionConstants DEF OpenPromo, PromotionTypeOK
  <2>2. promo[p] \in Promo /\ Requested(a, "opened", p, promo[p])
    BY <1>2 DEF OpenPromo, PromotionTypeOK
  <2>3. /\ admin' \in [Admins -> [at : {"idle", "opened", "banner"}, promo : Promos \cup {NoPromo},
                                 row : Promo \cup {NoPromo}]]
        /\ RequestsHoldRows'
    BY <2>2, RequestedTyped
  <2>4. SettlersHoldBills' /\ IsFiniteSet(usage') /\ IsFiniteSet(Existing')
    BY <2>u DEF SettlersHoldBills, Existing
  <2> QED  BY <2>u, <2>1, <2>3, <2>4 DEF PromotionTypeOK
<1>3. ASSUME NEW a \in Admins, NEW edit \in Edits, UpdatePromo(a, edit)  PROVE PromotionTyped'
  <2> DEFINE p == admin[a].promo
             row == EditedRow(admin[a].row, edit)
  <2>u. UNCHANGED <<usage, settled, settler, edits, overtaken>>
    BY <1>3 DEF UpdatePromo
  <2>1. p \in Promos /\ admin[a].row \in Promo
    BY <1>3 DEF UpdatePromo, RequestsHoldRows
  <2>2. row \in Promo
    BY <2>1, EditedRowTyped
  <2>3. /\ promo' = [promo EXCEPT ![p] = row]
        /\ Requested(a, IF edit.file THEN "banner" ELSE "idle", p, row)
    BY <1>3 DEF UpdatePromo, EditedRow
  <2> HIDE DEF row
  <2>4. promo' \in [Promos -> Promo \cup {NoPromo}] /\ limited' \in [Promos -> SUBSET Vehicles]
        /\ lowered' \subseteq Promos
    <3>1. promo' \in [Promos -> Promo \cup {NoPromo}]
      BY <2>1, <2>2, <2>3 DEF PromotionTypeOK
    <3>2. PICK some \in SUBSET Vehicles : limited' = [limited EXCEPT ![p] = some]
      BY <1>3 DEF UpdatePromo
    <3>3. limited' \in [Promos -> SUBSET Vehicles]
      BY <2>1, <3>2 DEF PromotionTypeOK
    <3>4. lowered' = lowered \/ lowered' = lowered \cup {p}
      BY <1>3 DEF UpdatePromo
    <3> QED  BY <3>1, <3>3, <3>4, <2>1 DEF PromotionTypeOK
  <2>5. /\ admin' \in [Admins -> [at : {"idle", "opened", "banner"}, promo : Promos \cup {NoPromo},
                                 row : Promo \cup {NoPromo}]]
        /\ RequestsHoldRows'
    BY <2>1, <2>2, <2>3, RequestedTyped
  <2>6. IsFiniteSet(Existing')
    BY <2>1, <2>3, ExistingFinite DEF PromotionTypeOK
  <2>7. SettlersHoldBills' /\ IsFiniteSet(usage')
    BY <2>u DEF SettlersHoldBills
  <2> QED  BY <2>u, <2>4, <2>5, <2>6, <2>7 DEF PromotionTypeOK
<1>4. ASSUME NEW a \in Admins, SaveBanner(a)  PROVE PromotionTyped'
  <2> DEFINE p == admin[a].promo
             row == admin[a].row
  <2>u. UNCHANGED <<limited, usage, settled, settler, edits, overtaken, lowered>>
    BY <1>4 DEF SaveBanner
  <2>1. p \in Promos /\ row \in Promo
    BY <1>4 DEF SaveBanner, RequestsHoldRows
  <2>3. promo' \in [Promos -> Promo \cup {NoPromo}] /\ \A q \in Promos \ {p} : promo'[q] = promo[q]
    <3>1. CASE promo' = promo
      BY <3>1 DEF PromotionTypeOK
    <3>2. CASE promo' # promo
      <4>1. PICK new \in Promo : promo' = [promo EXCEPT ![p] = new]
        BY <1>4, <3>2, BannerRow
      <4> QED  BY <4>1 DEF PromotionTypeOK
    <3> QED  BY <3>1, <3>2
  <2>4. Requested(a, "idle", p, row)
    BY <1>4 DEF SaveBanner
  <2>5. /\ admin' \in [Admins -> [at : {"idle", "opened", "banner"}, promo : Promos \cup {NoPromo},
                                 row : Promo \cup {NoPromo}]]
        /\ RequestsHoldRows'
    BY <2>4, RequestedTyped
  <2>6. IsFiniteSet(Existing')
    BY <2>1, <2>3, ExistingFinite
  <2>7. SettlersHoldBills' /\ IsFiniteSet(usage')
    BY <2>u DEF SettlersHoldBills
  <2> QED  BY <2>u, <2>3, <2>5, <2>6, <2>7 DEF PromotionTypeOK
<1>5. ASSUME NEW a \in Admins, DeletePromo(a)  PROVE PromotionTyped'
  <2> DEFINE p == admin[a].promo
  <2>u. UNCHANGED <<settled, settler, edits, overtaken>>
    BY <1>5 DEF DeletePromo
  <2>1. p \in Promos
    BY <1>5 DEF DeletePromo, RequestsHoldRows
  <2>2. promo' \in [Promos -> Promo \cup {NoPromo}] /\ limited' \in [Promos -> SUBSET Vehicles]
        /\ lowered' \subseteq Promos
    BY <1>5, <2>1 DEF DeletePromo, PromotionTypeOK
  <2>3. usage' \subseteq usage /\ IsFiniteSet(usage')
    <3>1. usage' = usage \ Uses(p)
      BY <1>5 DEF DeletePromo
    <3> QED  BY <3>1, FS_Subset
  <2>4. Requested(a, "idle", p, NoPromo)
    BY <1>5 DEF DeletePromo
  <2>5. /\ admin' \in [Admins -> [at : {"idle", "opened", "banner"}, promo : Promos \cup {NoPromo},
                                 row : Promo \cup {NoPromo}]]
        /\ RequestsHoldRows'
    BY <2>4, RequestedTyped
  <2>6. IsFiniteSet(Existing')
    BY <1>5, <2>1, ExistingFinite DEF DeletePromo, PromotionTypeOK
  <2>7. SettlersHoldBills'
    BY <2>u DEF SettlersHoldBills
  <2> QED  BY <2>u, <2>2, <2>3, <2>5, <2>6, <2>7 DEF PromotionTypeOK
<1>6. ASSUME NEW p \in Promos, NewDay(p)  PROVE PromotionTyped'
  <2>u. UNCHANGED <<limited, usage, settled, settler, edits, overtaken, lowered>>
    BY <1>6 DEF NewDay
  <2>1. PICK next \in {"now", "past"} :
          LET row == [promo[p] EXCEPT !.window = next]
          IN  /\ promo[p] \in Promo /\ row \in Promo /\ promo' = [promo EXCEPT ![p] = row]
              /\ admin' = [a \in Admins |-> IF admin[a].promo = p
                                    THEN [admin[a] EXCEPT !.row.window = next] ELSE admin[a]]
    BY <1>6, DayRow
  <2>2. admin' = [a \in Admins |-> IF admin[a].promo = p
                                    THEN [admin[a] EXCEPT !.row.window = next] ELSE admin[a]]
    BY <2>1
  <2>3. promo' \in [Promos -> Promo \cup {NoPromo}] /\ \A q \in Promos \ {p} : promo'[q] = promo[q]
    BY <2>1 DEF PromotionTypeOK
  <2>4. ASSUME NEW a \in Admins
        PROVE  /\ admin'[a] \in [at : {"idle", "opened", "banner"}, promo : Promos \cup {NoPromo},
                                 row : Promo \cup {NoPromo}]
               /\ admin'[a].at = "idle" => admin'[a] = Away
               /\ admin'[a].at # "idle" => admin'[a].promo \in Promos /\ admin'[a].row \in Promo
    <3>0. admin[a] \in [at : {"idle", "opened", "banner"}, promo : Promos \cup {NoPromo},
                                 row : Promo \cup {NoPromo}]
      BY DEF PromotionTypeOK
    <3>1. CASE admin[a].promo # p
      BY <3>0, <3>1, <2>2 DEF RequestsHoldRows
    <3>2. CASE admin[a].promo = p
      <4>1. admin[a].at # "idle" /\ admin[a].row \in Promo
        BY <3>2, PromotionConstants DEF RequestsHoldRows, Away
      <4>2. [admin[a].row EXCEPT !.window = next] \in Promo
        BY <4>1, <2>1 DEF Promo
      <4>3. admin'[a] = [admin[a] EXCEPT !.row = [admin[a].row EXCEPT !.window = next]]
        BY <3>0, <3>2, <4>1, <2>2 DEF Promo
      <4> QED  BY <3>0, <3>2, <4>1, <4>2, <4>3
    <3> QED  BY <3>1, <3>2
  <2>5. admin' \in [Admins -> [at : {"idle", "opened", "banner"}, promo : Promos \cup {NoPromo},
                               row : Promo \cup {NoPromo}]] /\ RequestsHoldRows'
    <3>1. admin' = [a \in Admins |-> admin'[a]]
      BY <2>2
    <3> QED  BY <2>4, <3>1 DEF RequestsHoldRows
  <2>6. IsFiniteSet(Existing')
    BY <2>3, ExistingFinite
  <2>7. SettlersHoldBills' /\ IsFiniteSet(usage')
    BY <2>u DEF SettlersHoldBills
  <2> QED  BY <2>u, <2>3, <2>5, <2>6, <2>7 DEF PromotionTypeOK
<1> QED  BY <1>1, <1>2, <1>3, <1>4, <1>5, <1>6

LEMMA PromotionTypedNext == PromotionTyped /\ [PromotionNext]_promoVars => PromotionTyped'
<1>1. ASSUME PromotionTyped, UNCHANGED promoVars  PROVE PromotionTyped'
  BY <1>1 DEF promoVars, PromotionTyped, PromotionTypeOK, RequestsHoldRows, SettlersHoldBills, Existing
<1>2. ASSUME PromotionTyped, PromotionNext  PROVE PromotionTyped'
  BY <1>2, SettlerStepsTyped, AdminStepsTyped DEF PromotionNext
<1> QED  BY <1>1, <1>2

(* Every variable of Promotions has its type, whatever administrators and  *)
(* settlements do at once; CurrentPromo is always an offer or none.        *)
THEOREM PromotionTypeCorrect == PromotionSpec => []PromotionTypeOK
<1>1. PromotionTyped => PromotionTypeOK
  BY DEF PromotionTyped
<1> QED  BY <1>1, PromotionTypedInit, PromotionTypedNext, PTL DEF PromotionSpec
-----------------------------------------------------------------------------
(* A row that names its own endpoint has an image: so do the rows that     *)
(* requests have read and may yet write.                                   *)
Serves(row) == row.url = "own" => row.image
RowsServe ==
  /\ BannerServes
  /\ \A a \in Admins : admin[a].at # "idle" => Serves(admin[a].row)

LEMMA RowsServeInit == PromotionInit => RowsServe
<1> SUFFICES ASSUME PromotionInit  PROVE RowsServe
  OBVIOUS
<1>1. PICK p \in Promos \cup {NoPromo}, draft \in Drafts :
        promo = [q \in Promos |-> IF q = p THEN RowOf(draft, 0) ELSE NoPromo]
  BY DEF PromotionInit
<1>2. RowOf(draft, 0).url # "own"
  BY DraftParts DEF RowOf
<1>3. BannerServes
  BY <1>1, <1>2 DEF BannerServes
<1>4. \A a \in Admins : admin[a].at = "idle"
  BY DEF PromotionInit, Away
<1> QED  BY <1>3, <1>4 DEF RowsServe

LEMMA RequestedServes ==
  ASSUME PromotionTyped, RowsServe, NEW a \in Admins, NEW at, NEW p, NEW row,
         at # "idle" => Serves(row), Requested(a, at, p, row)
  PROVE  \A b \in Admins : admin'[b].at # "idle" => Serves(admin'[b].row)
<1>1. admin' = [admin EXCEPT ![a] = IF at = "idle" THEN Away ELSE [at |-> at, promo |-> p, row |-> row]]
  BY DEF Requested
<1>2. \A b \in Admins : admin'[b] = IF b # a THEN admin[b]
                                    ELSE IF at = "idle" THEN Away ELSE [at |-> at, promo |-> p, row |-> row]
  BY <1>1 DEF PromotionTyped, PromotionTypeOK
<1>3. Away.at = "idle"
  BY DEF Away
<1> QED  BY <1>2, <1>3 DEF RowsServe

LEMMA RowsServeNext == PromotionTyped /\ RowsServe /\ [PromotionNext]_promoVars => RowsServe'
<1> SUFFICES ASSUME PromotionTyped, RowsServe, [PromotionNext]_promoVars  PROVE RowsServe'
  OBVIOUS
<1> USE DEF PromotionTyped
<1>0. CASE UNCHANGED <<promo, admin>>
  BY <1>0 DEF RowsServe, BannerServes
<1>1. ASSUME NEW a \in Admins, NEW p \in Promos, NEW draft \in Drafts, CreatePromo(a, p, draft)
      PROVE  RowsServe'
  <2> DEFINE row == RowOf(draft, edits + 1)
  <2>1. row.url \in {"pending", "text"}
    BY DraftParts DEF RowOf
  <2>2. /\ promo' = [promo EXCEPT ![p] = row]
        /\ Requested(a, IF draft.file THEN "banner" ELSE "idle", p, row)
    BY <1>1 DEF CreatePromo
  <2> HIDE DEF row
  <2>3. Serves(row)
    BY <2>1 DEF Serves
  <2>4. \A b \in Admins : admin'[b].at # "idle" => Serves(admin'[b].row)
    BY <2>2, <2>3, RequestedServes
  <2>5. BannerServes'
    BY <2>1, <2>2 DEF RowsServe, BannerServes, PromotionTypeOK
  <2> QED  BY <2>4, <2>5 DEF RowsServe
<1>2. ASSUME NEW a \in Admins, NEW p \in Promos, OpenPromo(a, p)  PROVE RowsServe'
  <2>1. promo[p] # NoPromo /\ Requested(a, "opened", p, promo[p]) /\ promo' = promo
    BY <1>2 DEF OpenPromo
  <2>2. Serves(promo[p])
    BY <2>1 DEF Serves, RowsServe, BannerServes
  <2>3. \A b \in Admins : admin'[b].at # "idle" => Serves(admin'[b].row)
    BY <2>1, <2>2, RequestedServes
  <2> QED  BY <2>1, <2>3 DEF RowsServe, BannerServes
<1>3. ASSUME NEW a \in Admins, NEW edit \in Edits, UpdatePromo(a, edit)  PROVE RowsServe'
  <2> DEFINE p == admin[a].promo
             row == EditedRow(admin[a].row, edit)
  <2>1. p \in Promos /\ admin[a].row \in Promo /\ Serves(admin[a].row)
    BY <1>3 DEF UpdatePromo, RequestsHoldRows, RowsServe
  <2>2. /\ promo' = [promo EXCEPT ![p] = row]
        /\ Requested(a, IF edit.file THEN "banner" ELSE "idle", p, row)
    BY <1>3 DEF UpdatePromo, EditedRow
  <2>3. Serves(row)
    <3>1. row.url = UrlAfter(admin[a].row.url, edit.banner, edit.file) /\ row.image = admin[a].row.image
      BY <2>1, EditedRowTyped
    <3>2. row.url = "own" => admin[a].row.url = "own"
      <4>1. admin[a].row.url \in Url
        BY <2>1 DEF Promo
      <4> QED  BY <3>1, <4>1, EditParts, UrlAfterTyped
    <3> HIDE DEF row
    <3> QED  BY <3>1, <3>2, <2>1 DEF Serves
  <2> HIDE DEF row
  <2>4. \A b \in Admins : admin'[b].at # "idle" => Serves(admin'[b].row)
    BY <2>2, <2>3, RequestedServes
  <2>5. BannerServes'
    BY <2>1, <2>2, <2>3 DEF RowsServe, BannerServes, PromotionTypeOK, Serves
  <2> QED  BY <2>4, <2>5 DEF RowsServe
<1>4. ASSUME NEW a \in Admins, SaveBanner(a)  PROVE RowsServe'
  <2> DEFINE p == admin[a].promo
             row == admin[a].row
  <2>1. p \in Promos /\ row \in Promo /\ Requested(a, "idle", p, row)
    BY <1>4 DEF SaveBanner, RequestsHoldRows
  <2>2. \A b \in Admins : admin'[b].at # "idle" => Serves(admin'[b].row)
    BY <2>1, RequestedServes
  <2>4. BannerServes'
    <3>1. CASE promo' = promo
      BY <3>1 DEF RowsServe, BannerServes
    <3>2. CASE promo' # promo
      BY <1>4, <3>2, BannerRow DEF RowsServe, BannerServes, PromotionTypeOK
    <3> QED  BY <3>1, <3>2
  <2> QED  BY <2>2, <2>4 DEF RowsServe
<1>5. ASSUME NEW a \in Admins, DeletePromo(a)  PROVE RowsServe'
  <2>1. admin[a].promo \in Promos /\ Requested(a, "idle", admin[a].promo, NoPromo)
        /\ promo' = [promo EXCEPT ![admin[a].promo] = NoPromo]
    BY <1>5 DEF DeletePromo, RequestsHoldRows
  <2>2. \A b \in Admins : admin'[b].at # "idle" => Serves(admin'[b].row)
    BY <2>1, RequestedServes
  <2>3. BannerServes'
    BY <2>1 DEF RowsServe, BannerServes, PromotionTypeOK
  <2> QED  BY <2>2, <2>3 DEF RowsServe
<1>6. ASSUME NEW p \in Promos, NewDay(p)  PROVE RowsServe'
  <2>0. PICK next \in {"now", "past"} :
           LET row == [promo[p] EXCEPT !.window = next]
           IN  /\ promo[p] \in Promo
               /\ row.url = promo[p].url /\ row.image = promo[p].image
               /\ promo' = [promo EXCEPT ![p] = row]
               /\ admin' = [a \in Admins |-> IF admin[a].promo = p
                                     THEN [admin[a] EXCEPT !.row.window = next] ELSE admin[a]]
    BY <1>6, DayRow
  <2>1. admin' = [a \in Admins |-> IF admin[a].promo = p
                                     THEN [admin[a] EXCEPT !.row.window = next] ELSE admin[a]]
    BY <2>0
  <2>2. promo'[p].url = promo[p].url /\ promo'[p].image = promo[p].image
        /\ (\A q \in Promos \ {p} : promo'[q] = promo[q]) /\ promo[p] # NoPromo
    BY <2>0, PromotionRows DEF PromotionTypeOK
  <2>3. ASSUME NEW a \in Admins, admin'[a].at # "idle"  PROVE Serves(admin'[a].row)
    <3>0. admin[a] \in [at : {"idle", "opened", "banner"}, promo : Promos \cup {NoPromo},
                        row : Promo \cup {NoPromo}]
      BY DEF PromotionTypeOK
    <3>1. CASE admin[a].promo # p
      BY <3>1, <2>1, <2>3 DEF RowsServe
    <3>2. CASE admin[a].promo = p
      <4>1. admin[a].at # "idle" /\ admin[a].row \in Promo
        BY <3>2, PromotionConstants DEF RequestsHoldRows, Away
      <4>2. admin'[a] = [admin[a] EXCEPT !.row = [admin[a].row EXCEPT !.window = next]]
        BY <3>0, <3>2, <4>1, <2>1 DEF Promo
      <4>3. admin'[a].row.url = admin[a].row.url /\ admin'[a].row.image = admin[a].row.image
        BY <3>0, <4>1, <4>2 DEF Promo
      <4> QED  BY <4>1, <4>3 DEF RowsServe, Serves
    <3> QED  BY <3>1, <3>2
  <2>4. BannerServes'
    BY <2>2 DEF RowsServe, BannerServes
  <2> QED  BY <2>3, <2>4 DEF RowsServe
<1>7. \/ UNCHANGED <<promo, admin>>
      \/ \E a \in Admins, p \in Promos, draft \in Drafts : CreatePromo(a, p, draft)
      \/ \E a \in Admins, p \in Promos : OpenPromo(a, p)
      \/ \E a \in Admins, edit \in Edits : UpdatePromo(a, edit)
      \/ \E a \in Admins : SaveBanner(a)
      \/ \E a \in Admins : DeletePromo(a)
      \/ \E p \in Promos : NewDay(p)
  BY DEF PromotionNext, promoVars, SettleTrip, CountUses, PostTrip
<1> QED  BY <1>0, <1>1, <1>2, <1>3, <1>4, <1>5, <1>6, <1>7

-----------------------------------------------------------------------------
(* What is known of an offer that was never lowered.  A settlement that    *)
(* nobody overtook has counted all the uses there are, and found one more  *)
(* ride; one that was overtaken has counted no more than there are now.    *)
LateUses(p) == {u \in Uses(p) : u.trip \in overtaken}
SettlersCounted(p) ==
  \A s \in Settlers : settler[s].promo = p =>
    /\ settler[s].at = "count" => settler[s].limit <= promo[p].rides
    /\ settler[s].number > 0 => settler[s].number <= Used(p) + 1
    /\ settler[s].number > 0 /\ settler[s].trip \notin overtaken =>
         settler[s].number = Used(p) + 1 /\ settler[s].number <= promo[p].rides
UsesCounted(p) ==
  /\ \A u \in Uses(p) : u.number <= Used(p)
  /\ \A u, w \in Uses(p) \ LateUses(p) : u.number = w.number => u = w
  /\ promo[p] # NoPromo => Used(p) <= promo[p].rides + Cardinality(LateUses(p))
Unused(p) == promo[p] = NoPromo => Uses(p) = {} /\ \A s \in Settlers : settler[s].promo # p
Counted(p) == SettlersCounted(p) /\ UsesCounted(p) /\ Unused(p)
RidesCounted == \A p \in Promos \ lowered : Counted(p)

LEMMA LateFinite ==
  ASSUME PromotionTyped, NEW p
  PROVE  IsFiniteSet(LateUses(p)) /\ Cardinality(LateUses(p)) \in Nat
<1>1. IsFiniteSet(LateUses(p))
  BY UsesFinite, FS_Subset DEF LateUses
<1> QED  BY <1>1, FS_CardinalityType

LEMMA RidesCountedInit == PromotionInit => RidesCounted
<1> SUFFICES ASSUME PromotionInit, NEW p \in Promos  PROVE Counted(p)
  BY DEF RidesCounted
<1>1. PromotionTyped
  BY PromotionTypedInit
<1>2. Uses(p) = {} /\ Used(p) = 0
  BY FS_EmptySet DEF PromotionInit, Uses, Used
<1>3. \A s \in Settlers : settler[s].promo # p /\ settler[s].number = 0
  BY PromotionConstants DEF PromotionInit, Resting
<1>4. promo[p] # NoPromo => promo[p].rides \in Nat
  BY <1>1 DEF PromotionTyped, PromotionTypeOK, Promo
<1>5. Cardinality(LateUses(p)) \in Nat
  BY <1>1, LateFinite
<1> QED  BY <1>2, <1>3, <1>4, <1>5 DEF Counted, SettlersCounted, UsesCounted, Unused

(* An administrator's step that leaves an offer's uses, and as many rides. *)
LEMMA CountedKept ==
  ASSUME PromotionTyped, PromotionTyped', NEW p \in Promos, Counted(p),
         UNCHANGED <<settler, overtaken>>, Uses(p)' = Uses(p),
         \/ promo'[p] = promo[p]
         \/ promo'[p] # NoPromo /\ (promo[p] # NoPromo => promo[p].rides <= promo'[p].rides)
  PROVE  Counted(p)'
<1>1. Used(p)' = Used(p) /\ LateUses(p)' = LateUses(p)
  BY DEF Used, LateUses
<1>2. Used(p) \in Nat /\ Cardinality(LateUses(p)) \in Nat
  BY UsesFinite, LateFinite
<1>3. CASE promo'[p] = promo[p]
  BY <1>1, <1>3 DEF Counted, SettlersCounted, UsesCounted, Unused
<1>4. CASE promo'[p] # NoPromo /\ promo[p] = NoPromo
  <2>1. Uses(p) = {} /\ Used(p) = 0 /\ \A s \in Settlers : settler[s].promo # p
    BY <1>4, FS_EmptySet DEF Counted, Unused, Used
  <2>2. promo'[p].rides \in Nat
    BY <1>4 DEF PromotionTyped, PromotionTypeOK, Promo
  <2> QED  BY <1>1, <1>2, <1>4, <2>1, <2>2 DEF Counted, SettlersCounted, UsesCounted, Unused
<1>5. CASE promo'[p] # NoPromo /\ promo[p] # NoPromo /\ promo[p].rides <= promo'[p].rides
  <2>1. promo[p].rides \in Nat /\ promo'[p].rides \in Nat
    BY <1>5 DEF PromotionTyped, PromotionTypeOK, Promo
  <2>2. \A s \in Settlers : settler[s].limit \in Nat /\ settler[s].number \in Nat
    BY DEF PromotionTyped, PromotionTypeOK
  <2>3. SettlersCounted(p)'
    BY <1>1, <1>2, <1>5, <2>1, <2>2 DEF Counted, SettlersCounted
  <2>4. UsesCounted(p)'
    BY <1>1, <1>2, <1>5, <2>1 DEF Counted, UsesCounted
  <2> QED  BY <2>3, <2>4, <1>5 DEF Counted, Unused
<1> QED  BY <1>3, <1>4, <1>5

LEMMA AdminStepsCounted ==
  ASSUME PromotionTyped, PromotionTyped', RidesCounted,
         \/ \E a \in Admins, p \in Promos, draft \in Drafts : CreatePromo(a, p, draft)
         \/ \E a \in Admins, p \in Promos : OpenPromo(a, p)
         \/ \E a \in Admins, edit \in Edits : UpdatePromo(a, edit)
         \/ \E a \in Admins : SaveBanner(a)
         \/ \E a \in Admins : DeletePromo(a)
         \/ \E p \in Promos : NewDay(p)
  PROVE  RidesCounted'
<1>0. promo \in [Promos -> Promo \cup {NoPromo}]
  BY DEF PromotionTyped, PromotionTypeOK
<1> SUFFICES ASSUME NEW q \in Promos, q \notin lowered'  PROVE Counted(q)'
  BY DEF RidesCounted
<1>1. UNCHANGED <<settler, overtaken>>
  BY DEF CreatePromo, OpenPromo, UpdatePromo, SaveBanner, DeletePromo, NewDay
<1>2. q \notin lowered
  BY DEF CreatePromo, OpenPromo, UpdatePromo, SaveBanner, DeletePromo, NewDay
<1>c. Counted(q)
  BY <1>2 DEF RidesCounted
<1>3. Uses(q)' = Uses(q)
  <2>1. CASE usage' = usage
    BY <2>1 DEF Uses
  <2>2. ASSUME NEW a \in Admins, DeletePromo(a)  PROVE Uses(q)' = Uses(q)
    <3>1. usage' = usage \ Uses(admin[a].promo) /\ admin[a].promo # q
      BY <2>2 DEF DeletePromo
    <3> QED  BY <3>1 DEF Uses
  <2> QED  BY <2>1, <2>2 DEF CreatePromo, OpenPromo, UpdatePromo, SaveBanner, NewDay
<1> DEFINE Kept == \/ promo'[q] = promo[q]
                   \/ promo'[q] # NoPromo /\ (promo[q] # NoPromo => promo[q].rides <= promo'[q].rides)
<1>4. ASSUME NEW a \in Admins, NEW p \in Promos, NEW draft \in Drafts, CreatePromo(a, p, draft)
      PROVE  Kept
  <2>1. edits + 1 \in 0 .. MaxEdits
    BY <1>4, PromotionConstants DEF CreatePromo, PromotionTyped, PromotionTypeOK
  <2>2. promo[p] = NoPromo /\ promo' = [promo EXCEPT ![p] = RowOf(draft, edits + 1)]
    BY <1>4 DEF CreatePromo
  <2>3. RowOf(draft, edits + 1) # NoPromo
    BY <2>1, RowOfTyped, PromotionRows
  <2> QED  BY <2>2, <2>3, <1>0
<1>5. ASSUME NEW a \in Admins, NEW edit \in Edits, UpdatePromo(a, edit)  PROVE Kept
  <2> DEFINE p == admin[a].promo
             row == EditedRow(admin[a].row, edit)
  <2>1. p \in Promos /\ admin[a].row \in Promo
    BY <1>5 DEF UpdatePromo, PromotionTyped, RequestsHoldRows
  <2>2. promo' = [promo EXCEPT ![p] = row] /\ row.rides = edit.rides
    BY <1>5, <2>1, EditedRowTyped DEF UpdatePromo, EditedRow
  <2>3. q = p => promo[p] # NoPromo /\ edit.rides >= promo[p].rides
    BY <1>5 DEF UpdatePromo
  <2>5. row # NoPromo /\ edit.rides \in Nat
    BY <2>1, EditedRowTyped, PromotionRows
  <2>4. promo[p] # NoPromo => promo[p].rides \in Nat
    BY <2>1 DEF PromotionTyped, PromotionTypeOK, Promo
  <2> HIDE DEF row
  <2> QED  BY <1>0, <2>1, <2>2, <2>3, <2>4, <2>5
<1>6. ASSUME NEW a \in Admins, SaveBanner(a)  PROVE Kept
  <2>1. CASE promo' # promo
    <3>1. PICK row \in Promo :
            LET p == admin[a].promo
            IN p \in Promos /\ promo[p] \in Promo /\ promo' = [promo EXCEPT ![p] = row] /\ row.rides = promo[p].rides
      BY <1>6, <2>1, BannerRow
    <3>2. promo[admin[a].promo].rides \in Nat
      BY <3>1 DEF Promo
    <3> QED  BY <1>0, <3>1, <3>2, PromotionRows
  <2> QED  BY <2>1
<1>7. ASSUME NEW p \in Promos, NewDay(p)  PROVE Kept
  <2>1. PICK row \in Promo :
          promo[p] \in Promo /\ promo' = [promo EXCEPT ![p] = row] /\ row.rides = promo[p].rides
    BY <1>7, DayRow
  <2>2. promo[p].rides \in Nat
    BY <2>1 DEF Promo
  <2> QED  BY <1>0, <2>1, <2>2, PromotionRows
<1>8. ASSUME NEW a \in Admins, DeletePromo(a)  PROVE Kept
  <2>1. admin[a].promo # q /\ promo' = [promo EXCEPT ![admin[a].promo] = NoPromo]
    BY <1>8 DEF DeletePromo
  <2> QED  BY <2>1, <1>0
<1>9. ASSUME NEW a \in Admins, NEW p \in Promos, OpenPromo(a, p)  PROVE Kept
  BY <1>9 DEF OpenPromo
<1>10. Kept
  BY <1>4, <1>5, <1>6, <1>7, <1>8, <1>9
<1> QED  BY <1>1, <1>3, <1>10, <1>c, CountedKept

LEMMA SettlerStepsCounted ==
  ASSUME PromotionTyped, PromotionTyped', RidesCounted, NEW s \in Settlers,
         \/ \E bill \in Bills : SettleTrip(s, bill[1], bill[2])
         \/ CountUses(s)
         \/ PostTrip(s)
  PROVE  RidesCounted'
<1> SUFFICES ASSUME NEW p \in Promos, p \notin lowered'  PROVE Counted(p)'
  BY DEF RidesCounted
<1> USE DEF PromotionTyped
<1>u. UNCHANGED <<promo, limited, admin, edits, lowered>>
  BY DEF SettleTrip, CountUses, PostTrip
<1>c. Counted(p)
  BY <1>u DEF RidesCounted
<1>n. /\ Used(p) \in Nat /\ Cardinality(LateUses(p)) \in Nat /\ settler[s] \in SettlerJob
      /\ \A r \in Settlers : settler[r].number \in Nat /\ settler[r].limit \in Nat
      /\ promo[p] # NoPromo => promo[p].rides \in Nat
  BY UsesFinite, LateFinite DEF PromotionTypeOK, SettlerJob, Promo
<1>1. ASSUME NEW bill \in Bills, SettleTrip(s, bill[1], bill[2])  PROVE Counted(p)'
  <2>u. UNCHANGED <<usage, overtaken>>
    BY <1>1 DEF SettleTrip
  <2>1. Uses(p)' = Uses(p) /\ Used(p)' = Used(p) /\ LateUses(p)' = LateUses(p)
    BY <2>u DEF Uses, Used, LateUses
  <2>2. /\ \A r \in Settlers \ {s} : settler'[r] = settler[r]
        /\ settler'[s].promo = CurrentPromo /\ settler'[s].number = 0
        /\ CurrentPromo # NoPromo => settler'[s].limit = promo[CurrentPromo].rides
    BY <1>1 DEF SettleTrip, PromotionTypeOK
  <2>3. CurrentPromo = p => p \in InForce /\ promo[p] # NoPromo
    <3>1. InForce = {} => CurrentPromo = NoPromo
      BY DEF CurrentPromo
    <3> QED  BY <3>1, CurrentPromoExists, PromotionConstants DEF InForce
  <2>4. SettlersCounted(p)'
    BY <1>c, <1>n, <1>u, <2>1, <2>2, <2>3, <2>u, PromotionConstants DEF Counted, SettlersCounted
  <2>5. UsesCounted(p)'
    BY <1>c, <1>u, <2>1 DEF Counted, UsesCounted
  <2>6. Unused(p)'
    BY <1>c, <1>u, <2>1, <2>2, <2>3 DEF Counted, Unused
  <2> QED  BY <2>4, <2>5, <2>6 DEF Counted
<1>2. CASE CountUses(s)
  <2>u. UNCHANGED <<usage, overtaken>> /\ settler[s].at = "count"
    BY <1>2 DEF CountUses
  <2>1. Uses(p)' = Uses(p) /\ Used(p)' = Used(p) /\ LateUses(p)' = LateUses(p)
    BY <2>u DEF Uses, Used, LateUses
  <2>2. /\ \A r \in Settlers \ {s} : settler'[r] = settler[r]
        /\ settler'[s].promo = settler[s].promo /\ settler'[s].number = RideNumber(settler[s])
        /\ settler'[s].at = "post"
    BY <1>2, <1>n DEF CountUses, PromotionTypeOK, SettlerJob
  <2>3. settler[s].promo = p =>
          RideNumber(settler[s]) = 0 \/ (RideNumber(settler[s]) = Used(p) + 1 /\ Used(p) < settler[s].limit)
    BY DEF RideNumber
  <2>4. SettlersCounted(p)'
    <3> SUFFICES ASSUME NEW r \in Settlers, settler'[r].promo = p
                 PROVE  /\ settler'[r].at = "count" => settler'[r].limit <= promo[p].rides
                        /\ settler'[r].number > 0 => settler'[r].number <= Used(p) + 1
                        /\ settler'[r].number > 0 /\ settler'[r].trip \notin overtaken =>
                             settler'[r].number = Used(p) + 1 /\ settler'[r].number <= promo[p].rides
      BY <1>u, <2>u, <2>1 DEF SettlersCounted
    <3>1. CASE r # s
      BY <3>1, <2>2, <1>c DEF Counted, SettlersCounted
    <3>2. CASE r = s
      <4>1. settler[s].limit <= promo[p].rides /\ promo[p] # NoPromo
        BY <3>2, <2>2, <2>u, <1>c DEF Counted, SettlersCounted, Unused
      <4> QED  BY <4>1, <3>2, <2>2, <2>3, <1>n
    <3> QED  BY <3>1, <3>2
  <2>5. UsesCounted(p)' /\ Unused(p)'
    BY <1>c, <1>u, <2>1, <2>2 DEF Counted, UsesCounted, Unused
  <2> QED  BY <2>4, <2>5 DEF Counted
<1>3. CASE PostTrip(s)
  <2> DEFINE j == settler[s]
             use == [promo |-> j.promo, trip |-> j.trip, number |-> j.number]
  <2>1. /\ \A r \in Settlers \ {s} : settler'[r] = settler[r]
        /\ settler'[s].promo = NoPromo
    BY <1>3 DEF PostTrip, PromotionTypeOK, Resting
  <2>2. CASE UNCHANGED <<usage, overtaken>>
    <3>1. Uses(p)' = Uses(p) /\ Used(p)' = Used(p) /\ LateUses(p)' = LateUses(p)
      BY <2>2 DEF Uses, Used, LateUses
    <3> QED  BY <2>1, <2>2, <3>1, <1>c, <1>u, PromotionConstants
             DEF Counted, SettlersCounted, UsesCounted, Unused
  <2>3. CASE ~UNCHANGED <<usage, overtaken>>
    <3>1. /\ j.number > 0 => promo[j.promo] # NoPromo
          /\ usage' = Taken(j)
          /\ overtaken' = IF usage' = usage THEN overtaken
                          ELSE overtaken \cup
                            {settler[r].trip : r \in {q \in Settlers \ {s} :
                               settler[q].promo = j.promo /\ settler[q].number > 0}}
      BY <1>3, <2>3 DEF PostTrip
    <3>2. usage' # usage
      BY <2>3, <3>1
    <3>3. /\ j.number > 0 /\ usage' = usage \cup {use}
          /\ \A u \in Uses(j.promo) : u.trip # j.trip
      BY <3>1, <3>2 DEF Taken
    <3>4. j.promo \in Promos /\ promo[j.promo] # NoPromo
      BY <3>1, <3>3 DEF SettlersHoldBills
    <3>5. CASE j.promo # p
      <4>1. Uses(p)' = Uses(p) /\ Used(p)' = Used(p)
        <5>1. use.promo # p
          BY <3>5
        <5> HIDE DEF use
        <5>2. Uses(p)' = Uses(p)
          BY <3>3, <5>1 DEF Uses
        <5> QED  BY <5>2 DEF Used
      <4>2. overtaken \subseteq overtaken'
        BY <3>1
      <4>3. SettlersCounted(p)'
        BY <1>c, <1>u, <2>1, <4>1, <4>2, PromotionConstants DEF Counted, SettlersCounted
      <4>4. LateUses(p) \subseteq LateUses(p)'
        BY <4>1, <4>2 DEF LateUses
      <4>5. IsFiniteSet(LateUses(p)') /\ Cardinality(LateUses(p)') \in Nat
        <5>1. LateUses(p)' \subseteq Uses(p)
          BY <4>1 DEF LateUses
        <5>2. IsFiniteSet(LateUses(p)')
          BY <5>1, UsesFinite, FS_Subset
        <5> QED  BY <5>2, FS_CardinalityType
      <4>6. Cardinality(LateUses(p)) <= Cardinality(LateUses(p)')
        BY <4>4, <4>5, FS_Subset
      <4>7. UsesCounted(p)'
        BY <1>c, <1>n, <1>u, <4>1, <4>4, <4>5, <4>6 DEF Counted, UsesCounted
      <4>8. Unused(p)'
        BY <1>c, <1>u, <2>1, <4>1, PromotionConstants DEF Counted, Unused
      <4> QED  BY <4>3, <4>7, <4>8 DEF Counted
    <3>6. CASE j.promo = p
      <4>1. Uses(p)' = Uses(p) \cup {use} /\ use \notin Uses(p)
        BY <3>3, <3>6 DEF Uses
      <4>2. Used(p)' = Used(p) + 1
        BY <4>1, UsesFinite, FS_AddElement DEF Used
      <4>3. overtaken \subseteq overtaken'
        BY <3>1
      <4>4. \A r \in Settlers \ {s} : settler[r].promo = p /\ settler[r].number > 0 => settler[r].trip \in overtaken'
        BY <3>1, <3>2, <3>6
      <4>5. SettlersCounted(p)'
        <5> SUFFICES ASSUME NEW r \in Settlers, settler'[r].promo = p
                     PROVE  /\ settler'[r].at = "count" => settler'[r].limit <= promo[p].rides
                            /\ settler'[r].number > 0 => settler'[r].number <= Used(p) + 2
                            /\ settler'[r].number > 0 => settler'[r].trip \in overtaken'
          BY <1>n, <1>u, <4>2 DEF SettlersCounted
        <5>1. r # s
          BY <2>1, PromotionConstants
        <5>2. settler'[r] = settler[r]
          BY <5>1, <2>1
        <5> QED  BY <5>1, <5>2, <4>4, <1>c, <1>n DEF Counted, SettlersCounted
      <4>6. Unused(p)'
        BY <1>u, <3>4, <3>6 DEF Unused
      <4>7. /\ j.number <= Used(p) + 1 /\ use.number = j.number
            /\ j.trip \notin overtaken => j.number = Used(p) + 1 /\ j.number <= promo[p].rides
        BY <3>3, <3>6, <1>c DEF Counted, SettlersCounted
      <4>8. LateUses(p)' \subseteq Uses(p) \cup {use} /\ LateUses(p) \subseteq LateUses(p)'
            /\ (use \in LateUses(p)' <=> j.trip \in overtaken')
        BY <4>1, <4>3 DEF LateUses
      <4> HIDE DEF use
      <4>9. IsFiniteSet(LateUses(p)') /\ Cardinality(LateUses(p)') \in Nat
        <5>1. IsFiniteSet(Uses(p) \cup {use})
          BY UsesFinite, FS_AddElement
        <5>2. IsFiniteSet(LateUses(p)')
          BY <5>1, <4>8, FS_Subset
        <5> QED  BY <5>2, FS_CardinalityType
      <4>10. Cardinality(LateUses(p)) <= Cardinality(LateUses(p)')
        BY <4>8, <4>9, FS_Subset
      <4>11. use \in LateUses(p)' => Cardinality(LateUses(p)) + 1 <= Cardinality(LateUses(p)')
        <5> SUFFICES ASSUME use \in LateUses(p)'
                     PROVE  Cardinality(LateUses(p)) + 1 <= Cardinality(LateUses(p)')
          OBVIOUS
        <5>1. use \notin LateUses(p)
          BY <4>1 DEF LateUses
        <5>2. Cardinality(LateUses(p) \cup {use}) = Cardinality(LateUses(p)) + 1
          BY <5>1, LateFinite, FS_AddElement
        <5>3. LateUses(p) \cup {use} \subseteq LateUses(p)'
          BY <4>8
        <5>4. Cardinality(LateUses(p) \cup {use}) <= Cardinality(LateUses(p)')
          BY <5>3, <4>9, FS_Subset
        <5> QED  BY <5>2, <5>4
      <4>12. \A u \in Uses(p) : u.number \in Nat /\ u.number <= Used(p)
        BY <1>c DEF Counted, UsesCounted, Uses, PromotionTypeOK
      <4>13. \A u \in Uses(p)' : u.number <= Used(p)'
        BY <4>1, <4>2, <4>7, <4>12, <1>n
      <4>14. ASSUME NEW u \in Uses(p)' \ LateUses(p)', NEW w \in Uses(p)' \ LateUses(p)', u.number = w.number
             PROVE  u = w
        <5>1. CASE u # use /\ w # use
          BY <5>1, <4>14, <4>1, <4>8, <1>c DEF Counted, UsesCounted
        <5>2. CASE u = use \/ w = use
          <6>1. j.trip \notin overtaken' /\ j.trip \notin overtaken
            BY <5>2, <4>14, <4>8, <4>3
          <6>2. use.number = Used(p) + 1
            BY <6>1, <4>7
          <6> QED  BY <6>2, <5>2, <4>14, <4>1, <4>12, <1>n
        <5> QED  BY <5>1, <5>2
      <4>15. Used(p)' <= promo[p].rides + Cardinality(LateUses(p)')
        <5>0. Used(p) <= promo[p].rides + Cardinality(LateUses(p)) /\ promo[p].rides \in Nat
          BY <1>c, <1>n, <3>4, <3>6 DEF Counted, UsesCounted
        <5>1. CASE j.trip \in overtaken'
          BY <5>0, <5>1, <4>2, <4>8, <4>9, <4>11, <1>n
        <5>2. CASE j.trip \notin overtaken'
          <6>1. j.trip \notin overtaken
            BY <5>2, <4>3
          <6> QED  BY <6>1, <5>0, <4>2, <4>7, <4>9, <1>n
        <5> QED  BY <5>1, <5>2
      <4>16. UsesCounted(p)'
        BY <4>13, <4>14, <4>15, <1>u DEF UsesCounted
      <4> QED  BY <4>5, <4>6, <4>16 DEF Counted
    <3> QED  BY <3>5, <3>6
  <2> QED  BY <2>2, <2>3
<1> QED  BY <1>1, <1>2, <1>3

LEMMA RidesCountedNext ==
  PromotionTyped /\ RidesCounted /\ [PromotionNext]_promoVars => RidesCounted'
<1>1. ASSUME PromotionTyped, RidesCounted, UNCHANGED promoVars  PROVE RidesCounted'
  <2>1. \A p : Uses(p)' = Uses(p) /\ Used(p)' = Used(p) /\ LateUses(p)' = LateUses(p)
    BY <1>1 DEF promoVars, Uses, Used, LateUses
  <2> QED  BY <1>1, <2>1 DEF promoVars, RidesCounted, Counted, SettlersCounted, UsesCounted, Unused
<1>2. ASSUME PromotionTyped, RidesCounted, PromotionNext  PROVE RidesCounted'
  <2>1. PromotionTyped'
    BY <1>2, PromotionTypedNext
  <2> QED  BY <1>2, <2>1, SettlerStepsCounted, AdminStepsCounted DEF PromotionNext
<1> QED  BY <1>1, <1>2

(* Free rides are taken in order and within the offer, but for those of    *)
(* settlements that another overtook, and what is shown as left adds up;   *)
(* and no banner's endpoint sends its caller to itself.                    *)
THEOREM PromotionsAlwaysAddUp == PromotionSpec => []PromotionsAddUp
<1>1. PromotionTyped /\ RowsServe /\ RidesCounted => PromotionsAddUp
  <2> SUFFICES ASSUME PromotionTyped, RowsServe, RidesCounted, NEW p \in Promos \ lowered
               PROVE  /\ \A u, w \in Uses(p) \ LateUses(p) : u.number = w.number => u = w
                      /\ promo[p] # NoPromo =>
                           /\ Used(p) <= promo[p].rides + Cardinality(LateUses(p))
                           /\ LateUses(p) = {} => Shown(p).left + Shown(p).completed = promo[p].rides
    BY DEF PromotionsAddUp, FreeRidesAddUp, RowsServe, LateUses
  <2>1. UsesCounted(p)
    BY DEF RidesCounted, Counted
  <2>2. ASSUME promo[p] # NoPromo, LateUses(p) = {}
        PROVE  Shown(p).left + Shown(p).completed = promo[p].rides
    <3>1. Used(p) \in Nat /\ promo[p].rides \in Nat
      BY <2>2, UsesFinite DEF PromotionTyped, PromotionTypeOK, Promo
    <3>2. Used(p) <= promo[p].rides
      BY <2>1, <2>2, <3>1, FS_EmptySet DEF UsesCounted
    <3> QED  BY <3>1, <3>2 DEF Shown
  <2> QED  BY <2>1, <2>2 DEF UsesCounted
<1>2. PromotionTyped /\ RowsServe /\ RidesCounted /\ [PromotionNext]_promoVars
        => PromotionTyped' /\ RowsServe' /\ RidesCounted'
  BY PromotionTypedNext, RowsServeNext, RidesCountedNext
<1> QED  BY <1>1, <1>2, PromotionTypedInit, RowsServeInit, RidesCountedInit, PTL DEF PromotionSpec

=============================================================================
