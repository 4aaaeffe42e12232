------------------------------- MODULE Fares -------------------------------
(***************************************************************************)
(* The fare of a trip (apps/pricing/services.py, trip_pricing.py and the   *)
(* trip type of apps/service_zones/services.py): pure operators over a     *)
(* category row, the radius of the city's zone and the outstation slabs.   *)
(*                                                                         *)
(* Money is in paise, distance in the unit of its last decimal and a rate  *)
(* is per that unit.  Percentages and multipliers are in hundredths, so a  *)
(* charge is exact in units of 1/Scale paise until it is quantized.        *)
(***************************************************************************)
EXTENDS Integers, FiniteSets

CONSTANTS
  StepStartKm,     \* OUTSTATION_STEP_START_KM
  DefaultRadius,   \* service radius of a city without a configured zone
  HelperCharge,    \* HELPER_CHARGE
  NoZone,          \* resolve_service_zone found nothing
  NoBound,         \* a slab's open end, and a field that is not set
  NoSlab           \* no slab of the category holds the distance

TripType == {"within_city", "outstation"}

ASSUME FareConstants ==
  /\ StepStartKm \in Nat \ {0} /\ DefaultRadius \in Nat \ {0}
  /\ HelperCharge \in Nat
  /\ NoZone \notin Int /\ NoBound \notin Int \cup TripType

AtLeast0(x) == IF x > 0 THEN x ELSE 0
Higher(x, y) == IF x > y THEN x ELSE y
Lower(x, y)  == IF x < y THEN x ELSE y

Hundred == 100
Scale   == Hundred * Hundred

(* ResolvedRates: what a category or a slab charges.  Nothing refuses a    *)
(* negative figure of a category; the table of slabs has two constraints.  *)
Rates ==
  [base : Int, baseKm : Int, perKm : Int, minimum : Int,
   surge : Int, deadhead : Int, stepStart : Int, stepKm : Int,
   stepOff : Int, stepPct : Int, floor : Int]

CategoryRow ==
  [truck : BOOLEAN, threshold : Int, base : Int, baseKm : Int, perKm : Int,
   minimum : Int, out : Rates]
SlabRow ==
  [lo : Int \cup {NoBound}, hi : Int \cup {NoBound}, base : Nat, perKm : Int,
   minimum : Int, surge : Nat, edited : Nat]

(* _step_enabled: the rate falls along the way.                            *)
StepEnabled(r) == r.stepKm > 0 /\ (r.stepOff > 0 \/ r.stepPct > 0)

(* Where it begins to fall: never within the kilometres of the base fare.  *)
StepFrom(r) ==
  Higher(IF r.stepStart > 0 THEN r.stepStart ELSE StepStartKm, r.baseKm)

(* The first reduction applies at StepFrom itself.                         *)
StepsAt(p, r) == (p - StepFrom(r)) \div r.stepKm + 1

(* A percentage of the list rate goes before a flat amount.                *)
Reduced(p, r) ==
  IF r.stepPct > 0
    THEN r.perKm * AtLeast0(Hundred - r.stepPct * StepsAt(p, r))
    ELSE Hundred * (r.perKm - r.stepOff * StepsAt(p, r))

(* mutants: a rate below zero is charged; the first step is overlooked     *)
RateUnbounded(p, r) ==
  IF ~StepEnabled(r) \/ p < StepFrom(r) THEN Hundred * r.perKm
  ELSE IF r.floor > 0 THEN Higher(Hundred * r.floor, Reduced(p, r)) ELSE Reduced(p, r)
LateBoundary(p, end, r) ==
  IF ~StepEnabled(r) THEN end
  ELSE IF p < StepFrom(r) THEN Lower(StepFrom(r) + r.stepKm, end)
  ELSE Lower(StepFrom(r) + StepsAt(p, r) * r.stepKm, end)

(* per_km_rate_at, in hundredths of a paisa.                               *)
RateAt(p, r) ==
  IF ~StepEnabled(r) \/ p < StepFrom(r)
    THEN Hundred * r.perKm
    ELSE AtLeast0(IF r.floor > 0 THEN Higher(Hundred * r.floor, Reduced(p, r))
                                 ELSE Reduced(p, r))

(* _next_rate_boundary: as far as the rate at p holds.                     *)
NextBoundary(p, end, r) ==
  IF ~StepEnabled(r) THEN end
  ELSE IF p < StepFrom(r) THEN Lower(StepFrom(r), end)
  ELSE Lower(StepFrom(r) + StepsAt(p, r) * r.stepKm, end)

(* The loop of distance_charge, from one boundary to the next.             *)
Billed(r, d) ==
  LET from[p \in r.baseKm .. d] ==
        IF p = d THEN 0
        ELSE LET next == NextBoundary(p, d, r)
             IN  (next - p) * RateAt(p, r) + from[next]
  IN  from[r.baseKm]

Deadhead(r) == IF r.deadhead > 0 THEN r.deadhead ELSE Hundred

(* distance_charge, in units of 1/Scale.                                   *)
DistanceCharge(r, d) ==
  Scale * r.base + IF d <= r.baseKm THEN 0 ELSE Billed(r, d) * Deadhead(r)

(* Decimal.quantize: to the nearest, and to the even one from the middle.  *)
Quantize(x, unit) ==
  LET q == x \div unit
      rest == 2 * (x % unit)
  IN  IF rest > unit \/ (rest = unit /\ q % 2 = 1) THEN q + 1 ELSE q

(* calculate_estimated_fare, in paise.                                     *)
EstimatedFare(r, d, helper) ==
  LET subtotal == DistanceCharge(r, d) + Scale * (IF helper THEN HelperCharge ELSE 0)
  IN  Quantize(Higher(Scale * r.minimum, subtotal) * r.surge, Scale * Hundred)

-----------------------------------------------------------------------------
(* Which rates a trip has.                                                 *)

CityRates(c) ==
  [base |-> c.base, baseKm |-> c.baseKm, perKm |-> c.perKm,
   minimum |-> c.minimum, surge |-> Hundred, deadhead |-> Hundred,
   stepStart |-> StepStartKm, stepKm |-> 0, stepOff |-> 0, stepPct |-> 0,
   floor |-> 0]

(* The category's own outstation rates: where its per-km rate is set.      *)
HasOutstationRates(c) == c.out.perKm > 0
OutstationRates(c) ==
  [c.out EXCEPT !.surge = Hundred, !.stepStart = Higher(StepStartKm, c.out.baseKm)]

(* resolve_outstation_slab: the narrowest slab that holds the distance; of *)
(* two as wide, the one that begins first, then the one edited last.       *)
Holds(s, d) ==
  /\ s.lo = NoBound \/ s.lo <= d
  /\ s.hi = NoBound \/ d <= s.hi
Narrower(s, t) ==
  LET lo(x) == IF x.lo = NoBound THEN 0 ELSE x.lo
      first(x, y) == \/ x.lo # NoBound /\ y.lo = NoBound
                     \/ x.lo # NoBound /\ y.lo # NoBound /\ x.lo < y.lo
      width(x) == x.hi - lo(x)
      tied == /\ s.hi = NoBound <=> t.hi = NoBound
              /\ s.hi = NoBound \/ width(s) = width(t)
  IN  \/ s.hi # NoBound /\ (t.hi = NoBound \/ width(s) < width(t))
      \/ tied /\ (first(s, t) \/ (~first(t, s) /\ s.edited >= t.edited))
Slab(slabs, d) ==
  LET held == {s \in slabs : Holds(s, d)}
  IN  IF held = {} THEN NoSlab
      ELSE CHOOSE s \in held : \A t \in held : Narrower(s, t)

SlabRates(s) ==
  [base |-> s.base, baseKm |-> 0, perKm |-> s.perKm, minimum |-> s.minimum,
   surge |-> s.surge, deadhead |-> Hundred, stepStart |-> StepStartKm,
   stepKm |-> 0, stepOff |-> 0, stepPct |-> 0, floor |-> 0]

(* service_radius_km_for_city and the threshold a category may set.        *)
CityRadius(zone) == IF zone = NoZone \/ zone <= 0 THEN DefaultRadius ELSE zone
Radius(c, zone)  == IF c.threshold > 0 THEN c.threshold ELSE CityRadius(zone)

(* classify_trip_type: the radius itself is still within the city.         *)
Classify(c, zone, d) ==
  IF d <= Radius(c, zone) THEN "within_city" ELSE "outstation"

(* validate_trip_type_selection: a truck's customer picks the type that    *)
(* the distance has, or none; for other categories nothing is asked.       *)
TypeRefused(c, zone, d, requested) ==
  /\ c.truck /\ requested # NoBound
  /\ requested # Classify(c, zone, d)
TypeOf(c, zone, d) == IF c.truck THEN Classify(c, zone, d) ELSE "within_city"

(* compute_fare_quote up to the toll.                                      *)
Refused(c, zone, slabs, d, requested) ==
  \/ d <= 0
  \/ TypeRefused(c, zone, d, requested)
  \/ /\ TypeOf(c, zone, d) = "outstation"
     /\ ~HasOutstationRates(c) /\ Slab(slabs, d) = NoSlab
RatesOf(c, zone, slabs, d) ==
  IF TypeOf(c, zone, d) = "within_city" THEN CityRates(c)
  ELSE IF HasOutstationRates(c) THEN OutstationRates(c)
  ELSE SlabRates(Slab(slabs, d))

=============================================================================
