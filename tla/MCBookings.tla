----------------------------- MODULE MCBookings -----------------------------
(* Small instances of Bookings.  A run consists of parts, each with bounds *)
(* of its own, and a behaviour is one of one of them.                      *)
EXTENDS Bookings, TLC

CONSTANTS b1, b2, d1, d2, w1, w2, w3
CONSTANT Parts  \* those of the parts below that a run is about

VARIABLE part

(* At most two handlers work at once in every part but "race"; a part has  *)
(* no new request on a booking whose timeline is as long as this says:     *)
(*   race:   one booking, the races for its timeline                       *)
(*   award:  one booking, a search that is won, and again after a          *)
(*           reassignment                                                  *)
(*   life:   one booking, from its creation to its end                     *)
(*   repeat: two bookings, the second of which ends the first              *)
(*   pair:   two bookings, which race for a driver                         *)
(*   cancel: one booking, as far as a cancellation                         *)
Length ==
  [race |-> b1 :> 2, award |-> b1 :> 6, life |-> (b1 :> 10) @@ (b2 :> 0),
   repeat |-> (b1 :> 2) @@ (b2 :> 1), pair |-> (b1 :> 3) @@ (b2 :> 3), cancel |-> b1 :> 5]
Busy == {w \in Workers : ~ Free(w)}

BookingsInit == Init /\ part \in Parts
BookingsNext ==
  /\ \/ \E w \in Workers : Handler(w)
     \/ \E w \in Workers, b \in Bookings :
          /\ Len(timeline[b]) < Length[part][b]
          /\ part # "race" => Cardinality(Busy) < 2
          /\ Request(w, b)
     \/ \E b \in Bookings, kind \in PhotoKind : UploadPhoto(b, kind)
  /\ UNCHANGED part
BookingsSpec == BookingsInit /\ [][BookingsNext]_<<vars, part>>

Alike2 == Permutations({w1, w2})
Alike3 == Permutations({d1, d2}) \cup Permutations({w1, w2, w3})

Longest == [b \in Bookings |-> 10]
OwnCustomer == [b \in Bookings |-> b]
OneCustomer == [b \in Bookings |-> "customer"]
=============================================================================
