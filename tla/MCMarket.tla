------------------------------ MODULE MCMarket ------------------------------
(* Small instances of Quotes, Delivery, RideDemo and Promotions.  They     *)
(* share no state, so a behaviour is one of one of them, and Promotions'   *)
(* are of two kinds: settlements at once and one edit, or a settlement of  *)
(* one trip and edits at once.  Distances are in kilometres, fares in      *)
(* paise: a price list with percentage steps, a deadhead factor and a      *)
(* floor; one with flat steps and no floor, a threshold of its own and a   *)
(* negative base fare; two slabs that overlap; and a category that is no   *)
(* customer truck.  A name stands for something else in each part, so that *)
(* one small set of permutations serves all.                               *)
EXTENDS Quotes, Delivery, RideDemo, Promotions, TLC

CONSTANT Parts  \* those of the parts below that a run is about

CONSTANTS h1, h2, pa, pb, c1, c2, r1, o1, o2, v1, v2, n1, n2, g1, t1, t2, k1

VARIABLE part

NoOutstation ==
  [base |-> 0, baseKm |-> 0, perKm |-> 0, minimum |-> 0, surge |-> 100,
   deadhead |-> 0, stepStart |-> 0, stepKm |-> 0, stepOff |-> 0, stepPct |-> 0,
   floor |-> 0]
Percent ==
  [base |-> 30, baseKm |-> 1, perKm |-> 9, minimum |-> 40, surge |-> 100,
   deadhead |-> 125, stepStart |-> 0, stepKm |-> 2, stepOff |-> 0, stepPct |-> 15,
   floor |-> 5]
Flat == [Percent EXCEPT !.stepPct = 0, !.stepOff = 4, !.floor = 0]
Category(truck, threshold, out) ==
  [truck |-> truck, threshold |-> threshold, base |-> 20, baseKm |-> 2,
   perKm |-> 7, minimum |-> 25, out |-> out]
TwoSlabs ==
  {[lo |-> 3, hi |-> 6, base |-> 35, perKm |-> 8, minimum |-> 60, surge |-> 150,
    edited |-> 1],
   [lo |-> 5, hi |-> NoBound, base |-> 45, perKm |-> 6, minimum |-> 60, surge |-> 100,
    edited |-> 2]}

PricesMC ==
  {[category |-> Category(TRUE, 0, Percent), zone |-> 3, slabs |-> {}],
   [category |-> [Category(TRUE, 5, Flat) EXCEPT !.base = -10, !.minimum = -10],
    zone |-> NoZone, slabs |-> {}],
   [category |-> Category(TRUE, 0, NoOutstation), zone |-> 0, slabs |-> TwoSlabs],
   [category |-> Category(FALSE, 0, NoOutstation), zone |-> 3, slabs |-> {}]}

DistancesMC ==
  [r \in {pa, pb} \X {pa, pb} |-> IF r = <<pa, pa>> THEN {2} ELSE IF r = <<pa, pb>> THEN {5} ELSE {}]

(* A trip that may be settled both ways, and one of no vehicle category.   *)
BillsMC == {<<t1, "online">>, <<t1, "cash">>, <<t2, "cash">>}
VehicleOfMC == (t1 :> k1) @@ (t2 :> NoVehicle)
DraftsMC ==
  {[rides |-> 2, rank |-> 1, window |-> "now", banner |-> "text", file |-> FALSE],
   [rides |-> 1, rank |-> 1, window |-> "now", banner |-> "", file |-> TRUE]}
EditsMC ==
  {[rides |-> 2, active |-> TRUE, banner |-> "", file |-> FALSE],
   [rides |-> 1, active |-> TRUE, banner |-> "kept", file |-> TRUE],
   [rides |-> 0, active |-> TRUE, banner |-> "typed", file |-> FALSE]}

MarketInit ==
  /\ QuoteInit /\ DeliveryInit /\ DemoInit /\ PromotionInit
  /\ part \in Parts
  /\ part \notin {"rides", "edits"} =>
       promo = [p \in Promos |-> NoPromo]
  /\ part = "rides" => \E p \in Promos : promo[p] # NoPromo
  /\ part # "fares" => prices = CHOOSE p \in Prices : TRUE

MarketNext ==
  \/ part = "fares"  /\ QuoteNext    /\ UNCHANGED <<part, deliveryVars, demoVars, promoVars>>
  \/ part = "offers" /\ DeliveryNext /\ UNCHANGED <<part, quoteVars, demoVars, promoVars>>
  \/ part = "demo"   /\ DemoNext     /\ UNCHANGED <<part, quoteVars, deliveryVars, promoVars>>
  \/ /\ part \in {"rides", "edits"}
     /\ PromotionNext
     /\ part = "rides" => edits' <= 1 /\ Cardinality({d \in Admins : admin'[d] # Away}) <= 1
     /\ part = "edits" => Cardinality({s \in Settlers : settler'[s] # Resting}) <= 1
                          /\ \A s \in Settlers : settler'[s].trip \in {NoPromo, t2}
     /\ UNCHANGED <<part, quoteVars, deliveryVars, demoVars>>

MarketSpec ==
  MarketInit /\ [][MarketNext]_<<part, quoteVars, deliveryVars, demoVars, promoVars>>

Alike ==
  Permutations({h1, h2}) \cup Permutations({c1, c2}) \cup Permutations({o1, o2})

=============================================================================
