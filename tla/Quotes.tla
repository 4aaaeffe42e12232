------------------------------- MODULE Quotes -------------------------------
(***************************************************************************)
(* A booking's fare over its life: the estimate, the booking, edits of its *)
(* route and the toll the driver claims at the end (fare_estimate and      *)
(* update_destination of apps/bookings/api.py, BookingSerializer.create,   *)
(* the end of transition_booking_state), over the operators of Fares and   *)
(* the toll rows of Tolls.                                                 *)
(*                                                                         *)
(* A handler prices its trip, waits for the toll service if it must, and   *)
(* saves; an edit saves every column of the row it read before.            *)
(* Administrators change prices and tolls meanwhile.                       *)
(***************************************************************************)
EXTENDS Fares, Tolls

CONSTANTS
  Handlers,     \* requests that can be in progress at once
  Places,       \* where a trip begins or ends
  Distances,    \* of a route: what the router or the straight line may say
  Prices,       \* what the price tables may hold: category, zone and slabs
  Helpers,      \* what customers say of requires_helper
  Claims,       \* tolls a driver may claim at completion
  NoBooking, NoPlace, NoQuote,
  MaxChanges,   \* bound: changes of prices and tolls in a behaviour
  MaxKm         \* bound: how far the properties of the fare look

Route == Places \X Places

ASSUME QuoteConstants ==
  /\ Distances \in [Route -> SUBSET Nat] /\ Claims \subseteq Nat
  /\ Helpers \subseteq BOOLEAN
  /\ MaxChanges \in Nat /\ MaxKm \in Nat /\ NoPlace \notin Places
ASSUME PriceTables ==
  \A p \in Prices :
    /\ p.category \in CategoryRow /\ p.zone \in Int \cup {NoZone}
    /\ p.slabs \subseteq SlabRow /\ IsFiniteSet(p.slabs)

VARIABLES
  prices,    \* VehicleCategory, ServiceZone and PricingRule rows
  booking,   \* the Booking row, if there is one
  handler,   \* what each request is doing, and what it has read
  changes    \* changes of prices and tolls so far

quoteVars == <<rows, prices, booking, handler, changes>>

Stage == {"booked", "moving", "done"}

(* A quote: the columns of the row, and its pricing_breakdown.             *)
Idle == [op |-> "idle", at |-> "save", row |-> NoBooking, quote |-> NoQuote,
         found |-> NoRow, late |-> {}]

(* fare_breakdown_payload: what the fare was made of.                      *)
Breakdown(type, rates, d, fare) ==
  [dist |-> d, type |-> type, rates |-> rates, base |-> fare, toll |-> 0]

(* What a request asks a price for: a route, the ends the row is to have   *)
(* with it, and whether only half of an end (a latitude, a longitude) was  *)
(* given, so that it counts for the price and is not saved.                *)
Whole(route, helper) == [route |-> route, ends |-> route, half |-> FALSE, helper |-> helper]

(* compute_fare_quote, with no toll so far.                                *)
Priced(trip, d) ==
  LET p == prices
      type == TypeOf(p.category, p.zone, d)
      rates == RatesOf(p.category, p.zone, p.slabs, d)
      fare == EstimatedFare(rates, d, trip.helper)
  IN  [route |-> trip.ends, half |-> trip.half, dist |-> d, type |-> type,
       helper |-> trip.helper, fare |-> fare,
       breakdown |-> Breakdown(type, rates, d, fare)]

Tolled(q, toll) ==
  [q EXCEPT !.fare = q.breakdown.base + toll.amount, !.breakdown.toll = toll.amount]

(* Pricing a trip: refused without a change, or priced and, if it leaves   *)
(* the city and no valid toll is stored, off to the toll service.          *)
StartQuote(g, op, row, trip, d, requested) ==
  LET q == Priced(trip, d)
      away == q.type = "outstation"
  IN  /\ handler[g] = Idle
      /\ d \in Distances[trip.route]
      /\ ~Refused(prices.category, prices.zone, prices.slabs, d, requested)
      /\ handler' = [handler EXCEPT ![g] =
           [op |-> op, row |-> row, late |-> {},
            at |-> IF away /\ ~Needless THEN "fetch" ELSE "save",
            quote |-> IF away /\ Needless THEN Tolled(q, KnownToll) ELSE q,
            found |-> IF away /\ ~Needless THEN Found ELSE NoRow]]
      /\ UNCHANGED <<rows, prices, booking, changes>>

Estimate(g, route, d, helper, requested) ==
  StartQuote(g, "estimate", NoBooking, Whole(route, helper), d, requested)

Create(g, route, d, helper, requested) ==
  StartQuote(g, "create", NoBooking, Whole(route, helper), d, requested)

(* update_destination: of what the row held; a finished trip is refused,   *)
(* and so is another pickup once the parcel is on its way.  from and to    *)
(* are the points that are priced; the ends in halves (1 and 2) come of    *)
(* one coordinate of the request and one of the row, which keeps both.     *)
Given(place, old) == IF place = NoPlace THEN old ELSE place

Edit(g, from, to, halves, d) ==
  /\ booking # NoBooking
  /\ booking.stage # "done"
  /\ from # NoPlace => booking.stage # "moving"
  /\ 1 \in halves => from \notin {NoPlace, booking.route[1]}
  /\ 2 \in halves => to \notin {NoPlace, booking.route[2]}
  /\ LET old == booking.route
         trip == [route |-> <<Given(from, old[1]), Given(to, old[2])>>,
                  ends  |-> <<IF 1 \in halves THEN old[1] ELSE Given(from, old[1]),
                              IF 2 \in halves THEN old[2] ELSE Given(to, old[2])>>,
                  half  |-> halves # {}, helper |-> booking.helper]
     IN  StartQuote(g, "edit", booking, trip, d, booking.type)

(* The toll service answers, or does not within its time.                  *)
Fetched(g, answer) ==
  /\ handler[g].at = "fetch"
  /\ handler' = [handler EXCEPT
       ![g].quote = Tolled(@, FetchedToll(answer, handler[g].found)),
       ![g].at = "save", ![g].found = NoRow, ![g].late = {}]
  /\ StoreToll(answer)
  /\ UNCHANGED <<prices, booking, changes>>

(* mutants: the quote is saved for the row; the breakdown is forgotten     *)
QuoteForRow(row, q) == q
StaleBreakdown(row, q) ==
  [row EXCEPT !.route = q.route, !.half = q.half, !.dist = q.dist, !.fare = q.fare]

(* booking.save() writes the row that was read, with the new quote in it,  *)
(* unless booking_estimated_fare_gte_zero refuses it.  half is history.    *)
Edited(row, q) ==
  [row EXCEPT !.route = q.route, !.half = q.half, !.dist = q.dist, !.fare = q.fare,
              !.breakdown = q.breakdown]

Booked(q) ==
  [route |-> q.route, half |-> q.half, dist |-> q.dist, type |-> q.type, helper |-> q.helper,
   fare |-> q.fare, breakdown |-> q.breakdown, stage |-> "booked", final |-> 0]

Saves(g) ==
  \/ handler[g].op = "edit"
  \/ handler[g].op = "create" /\ booking = NoBooking

Save(g) ==
  LET q == handler[g].quote IN
  /\ handler[g].at = "save"
  /\ handler[g].op \in {"estimate", "create", "edit"}
  /\ \/ /\ Saves(g) /\ q.fare >= 0
        /\ booking' = IF handler[g].op = "edit" THEN Edited(handler[g].row, q) ELSE Booked(q)
     \/ /\ ~ (Saves(g) /\ q.fare >= 0)
        /\ booking' = booking
  /\ handler' = [handler EXCEPT ![g] = Idle]
  /\ UNCHANGED <<rows, prices, changes>>

-----------------------------------------------------------------------------
(* The driver's side of the fare: state transitions that save the state    *)
(* column only, checked against a row read earlier.                        *)

Transition(g, to) ==
  /\ handler[g] = Idle
  /\ booking # NoBooking
  /\ <<booking.stage, to>> \in {<<"booked", "moving">>, <<"moving", "done">>}
  /\ handler' = [handler EXCEPT ![g] = [Idle EXCEPT !.op = to, !.row = booking]]
  /\ UNCHANGED <<rows, prices, booking, changes>>

Depart(g) ==
  /\ handler[g].op = "moving"
  /\ booking' = [booking EXCEPT !.stage = "moving"]
  /\ handler' = [handler EXCEPT ![g] = Idle]
  /\ UNCHANGED <<rows, prices, changes>>

(* A claimed toll replaces the one of the breakdown that was read, unless  *)
(* booking_final_fare_gte_zero refuses the sum; without a claim an unset   *)
(* final fare becomes the estimate that was read.                          *)
Claimed(row, toll) ==
  IF row.breakdown.base + toll < 0 THEN [booking EXCEPT !.stage = "done"]
  ELSE [booking EXCEPT !.stage = "done",
                       !.breakdown = [row.breakdown EXCEPT !.toll = toll],
                       !.final = row.breakdown.base + toll]
Unclaimed(row) ==
  [booking EXCEPT !.stage = "done", !.final = IF row.final = 0 THEN row.fare ELSE @]

Complete(g, claim) ==
  /\ handler[g].op = "done"
  /\ booking' = IF claim = NoRow THEN Unclaimed(handler[g].row)
                                 ELSE Claimed(handler[g].row, claim)
  /\ handler' = [handler EXCEPT ![g] = Idle]
  /\ UNCHANGED <<rows, prices, changes>>

-----------------------------------------------------------------------------
(* Administrators and time.  A handler waiting for the toll service learns *)
(* nothing of it: late names the rows touched while it waits.              *)

Changing == changes < MaxChanges /\ changes' = changes + 1

EditPrices(p) ==
  /\ Changing
  /\ prices' = p
  /\ UNCHANGED <<rows, booking, handler>>

Touched(s) ==
  handler' = [g \in Handlers |->
    IF handler[g].at = "fetch" THEN [handler[g] EXCEPT !.late = @ \cup {s}] ELSE handler[g]]

EditToll(s) ==
  /\ Changing
  /\ \/ \E amount \in TollAmounts, live \in BOOLEAN : Override(s, amount, live)
     \/ Switch(s)
     \/ Delete(s)
  /\ Touched(s)
  /\ UNCHANGED <<prices, booking>>

AgeTolls ==
  /\ Changing
  /\ Flush \/ \E s \in Slug : Expire(s)
  /\ UNCHANGED <<prices, booking, handler>>

-----------------------------------------------------------------------------
QuoteInit ==
  /\ rows = [s \in Slug |-> NoRow]
  /\ prices \in Prices
  /\ booking = NoBooking
  /\ handler = [g \in Handlers |-> Idle]
  /\ changes = 0

QuoteNext ==
  \/ \E g \in Handlers, route \in Route, helper \in Helpers,
        requested \in TripType \cup {NoBound} :
       \E d \in Distances[route] :
         \/ Estimate(g, route, d, helper, requested)
         \/ booking = NoBooking /\ Create(g, route, d, helper, requested)
  \/ \E g \in Handlers, from, to \in Places \cup {NoPlace}, halves \in SUBSET {1, 2},
        d \in UNION {Distances[route] : route \in Route} : Edit(g, from, to, halves, d)
  \/ \E g \in Handlers, answer \in TollAmounts \cup {NoRow} : Fetched(g, answer)
  \/ \E g \in Handlers : Save(g)
  \/ \E g \in Handlers, to \in {"moving", "done"} : Transition(g, to)
  \/ \E g \in Handlers : Depart(g)
  \/ \E g \in Handlers, claim \in Claims \cup {NoRow} : Complete(g, claim)
  \/ \E p \in Prices : EditPrices(p)
  \/ \E s \in Slug : EditToll(s)
  \/ AgeTolls

QuoteSpec == QuoteInit /\ [][QuoteNext]_quoteVars


-----------------------------------------------------------------------------
(* Type invariant.                                                         *)

Quote ==
  [route : Route, half : BOOLEAN, dist : Nat, type : TripType, helper : BOOLEAN, fare : Int,
   breakdown : [dist : Nat, type : TripType, rates : Rates, base : Int, toll : Nat]]

Row ==
  [route : Route, half : BOOLEAN, dist : Nat, type : TripType, helper : BOOLEAN, fare : Nat,
   breakdown : [dist : Nat, type : TripType, rates : Rates, base : Int, toll : Nat],
   stage : Stage, final : Nat]

QuoteTypeOK ==
  /\ rows \in [Slug -> TollRow \cup {NoRow}]
  /\ prices \in Prices
  /\ booking \in Row \cup {NoBooking}
  /\ handler \in [Handlers ->
       [op : {"idle", "estimate", "create", "edit", "moving", "done"},
        at : {"fetch", "save"}, row : Row \cup {NoBooking},
        quote : Quote \cup {NoQuote}, found : TollRow \cup {NoRow},
        late : SUBSET Slug]]
  /\ changes \in 0 .. MaxChanges

-----------------------------------------------------------------------------
(* Where nothing is free, a final fare of zero stands for none.            *)
NothingIsFree ==
  \A p \in Prices, route \in Route, helper \in BOOLEAN,
     toll \in TollAmounts \cup Claims \cup {0} :
    \A d \in Distances[route] :
      LET rates == RatesOf(p.category, p.zone, p.slabs, d)
      IN  \/ Refused(p.category, p.zone, p.slabs, d, NoBound)
          \/ EstimatedFare(rates, d, helper) + toll # 0

(* Until a trip has its final fare its row adds up: the breakdown is of    *)
(* the row's distance, its fare is what those rates charge, the estimate  *)
(* is that fare and the breakdown's toll.  Whatever handlers overtake each *)
(* other, update_destination writes distance, fare and breakdown together  *)
(* with the row they were computed from.  It leaves trip_type alone, and   *)
(* yet no trip within the city is ever charged as one that leaves it.  The *)
(* distance is one of the row's own route, unless the last edit gave half  *)
(* of an end: that is priced and not saved (bookings/api.py:358-386).      *)
BreakdownExplainsFare ==
  NothingIsFree /\ booking # NoBooking /\ booking.final = 0 =>
    LET b == booking.breakdown
    IN  /\ booking.dist = b.dist
        /\ booking.half \/ booking.dist \in Distances[booking.route]
        /\ b.type = "outstation" => booking.type = "outstation"
        /\ b.base = EstimatedFare(b.rates, b.dist, booking.helper)
        /\ booking.fare = b.base + b.toll

(* A manual override of a corridor's toll outlives every quote priced      *)
(* after it: only administrators end it, or a quote that has been waiting  *)
(* for the toll service since before (get_or_fetch_route_toll stores the   *)
(* answer over whatever the row holds by then).                            *)
OverrideOutlivesLaterQuotes ==
  [][\A s \in Slug :
       Overridden(s) /\ rows'[s] # rows[s] =>
         \/ changes' # changes
         \/ \E g \in Handlers : s \in handler[g].late /\ handler'[g].at = "save"]_quoteVars

(* Every rate the price tables hold, beside that of today's trips.         *)
Charged ==
  {CityRates(prices.category), OutstationRates(prices.category)}
    \cup {SlabRates(s) : s \in prices.slabs}

(* The loop of distance_charge bills every kilometre after those of the    *)
(* base fare once, at the rate that per_km_rate_at gives for it: of two    *)
(* trips the longer one pays for the kilometres it has more and for no     *)
(* other, wherever their loops stop on the way.                            *)
EveryKmBilledOnce ==
  [][prices' # prices =>
       \A r \in Charged' :
         /\ Billed(r, r.baseKm) = 0
         /\ \A d \in r.baseKm .. MaxKm : Billed(r, d + 1) = Billed(r, d) + RateAt(d, r)]_quoteVars

(* Unless its list rate is below zero, a longer trip never costs less by   *)
(* distance_charge, and along the way the telescopic rate never rises nor, *)
(* once reduced, leaves its floor, where the floor is below the list rate. *)
LongerNeverCheaper ==
  [][prices' # prices =>
       \A r \in {x \in Charged' : x.perKm >= 0}, d \in 0 .. MaxKm :
         /\ DistanceCharge(r, d) <= DistanceCharge(r, d + 1)
         /\ r.floor <= r.perKm =>
              Hundred * r.floor <= RateAt(d + 1, r) /\ RateAt(d + 1, r) <= RateAt(d, r)]_quoteVars

=============================================================================
