------------------------------- MODULE Zones -------------------------------
(***************************************************************************)
(* The four sections of a service zone and who is counted in them          *)
(* (apps/service_zones/services.py): pure operators over points with       *)
(* integer coordinates.                                                    *)
(***************************************************************************)
EXTENDS Integers, FiniteSets, Sequences

Least(S) == CHOOSE x \in S : \A y \in S : x <= y
Most(S)  == CHOOSE x \in S : \A y \in S : x >= y

(* mutant: both ends of an edge count *)
Inclusive(x, p, q) == Least({p.lng, q.lng}) <= x /\ x <= Most({p.lng, q.lng})

(* Points are [lat, lng]; a ring is a sequence of them.                    *)
Corners == [lat : Int, lng : Int]

Between(x, p, q) == Least({p.lng, q.lng}) < x /\ x <= Most({p.lng, q.lng})

(* The ray from pt crosses the edge p q: division by the edge's run is a   *)
(* product here.                                                           *)
Crosses(pt, p, q) ==
  /\ Between(pt.lng, p, q)
  /\ LET run == q.lng - p.lng
         rise == (pt.lng - p.lng) * (q.lat - p.lat)
     IN  IF run > 0 THEN (pt.lat - p.lat) * run <= rise
                    ELSE (pt.lat - p.lat) * run >= rise

(* point_in_polygon: inside, if an odd number of edges is crossed.         *)
InPolygon(pt, ring) ==
  /\ Len(ring) >= 3
  /\ Cardinality({i \in 1 .. Len(ring) : Crosses(pt, ring[i], ring[(i % Len(ring)) + 1])}) % 2 = 1

Direction == {"north", "east", "south", "west"}

(* extract_polygon_coords: the centre of the box around the ring.  Its     *)
(* sides are even here, as the centre is exact to six decimals there.      *)
Box(ring) ==
  LET lats == {ring[i].lat : i \in DOMAIN ring}
      lngs == {ring[i].lng : i \in DOMAIN ring}
  IN  [minLat |-> Least(lats), maxLat |-> Most(lats),
       minLng |-> Least(lngs), maxLng |-> Most(lngs)]
Middle(b) == [lat |-> (b.minLat + b.maxLat) \div 2, lng |-> (b.minLng + b.maxLng) \div 2]

(* generate_default_directional_sections: a triangle from the centre to    *)
(* each side of the box.                                                   *)
Corner(lat, lng) == [lat |-> lat, lng |-> lng]
Side(b, dir) ==
  CASE dir = "north" -> <<Corner(b.maxLat, b.minLng), Corner(b.maxLat, b.maxLng)>>
    [] dir = "east"  -> <<Corner(b.maxLat, b.maxLng), Corner(b.minLat, b.maxLng)>>
    [] dir = "south" -> <<Corner(b.minLat, b.maxLng), Corner(b.minLat, b.minLng)>>
    [] dir = "west"  -> <<Corner(b.minLat, b.minLng), Corner(b.maxLat, b.minLng)>>
Wedge(b, dir) == <<Middle(b), Side(b, dir)[1], Side(b, dir)[2], Middle(b)>>
DefaultSections(ring) == [dir \in Direction |-> Wedge(Box(ring), dir)]

(* What the zone holds, unless it has fewer than four sections.            *)
Sections(configured, ring) ==
  IF Cardinality(DOMAIN configured) < 4 THEN DefaultSections(ring) ELSE configured
SectionRing(sections, dir) == IF dir \in DOMAIN sections THEN sections[dir] ELSE <<>>

(* calculate_zone_availability: a driver counts in every section that      *)
(* holds his point; the zone's total is the sum of those.                  *)
CountIn(ring, point, D) == Cardinality({d \in D : InPolygon(point[d], ring)})
ZoneTotal(sections, point, D) ==
  LET count(dir) == CountIn(SectionRing(sections, dir), point, D)
  IN  count("north") + count("south") + count("east") + count("west")

(* mutant: the quota is overwritten by every section                       *)
QuotaOfLast(targets) == targets["west"]

(* The level of so many available drivers for a target: 2 is "optimal", 1  *)
(* "moderate" and 0 "critical".  The zone's is that of the sums.           *)
Level(available, target) ==
  LET wanted == Most({target, 1})
  IN  IF 100 * available >= 70 * wanted THEN 2
      ELSE IF 100 * available >= 35 * wanted THEN 1 ELSE 0
Quota(targets) == targets["north"] + targets["south"] + targets["east"] + targets["west"]

=============================================================================
