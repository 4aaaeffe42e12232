----------------------------- MODULE Promotions -----------------------------
(***************************************************************************)
(* Offers of commission-free rides (apps/incentives): administrators       *)
(* create, edit and delete them and their banners, the driver's app shows  *)
(* the current one with the rides left, and settlements of trips           *)
(* (wallets/services.py) take rides of it.  One driver; his wallet's lock  *)
(* makes the end of a settlement one step, and nothing else is locked.     *)
(***************************************************************************)
EXTENDS Naturals, FiniteSets

CONSTANTS
  Promos,     \* DriverOffer ids
  Trips,      \* the driver's bookings
  Bills,      \* the ways in which a trip can come to be settled
  Vehicles,   \* vehicle categories
  NoVehicle,
  VehicleOf,  \* each trip's, if it has one
  Settlers,   \* settlements that can be in progress at once
  Admins,     \* administrators' requests that can be in progress at once
  Drafts,     \* what the requests that create an offer say
  Edits,      \* and those that edit one
  NoPromo,
  MaxEdits    \* bound: administrators' requests in a behaviour

ASSUME PromotionConstants ==
  /\ NoPromo \notin Promos /\ Bills \subseteq Trips \X {"online", "cash"}
  /\ MaxEdits \in Nat
  /\ NoVehicle \notin Vehicles /\ VehicleOf \in [Trips -> Vehicles \cup {NoVehicle}]

(* A rides_count of 0 passes for the default, or for the row's; a banner   *)
(* is mandatory: a text or a file, for which a place is kept.              *)
ASSUME PromotionRequests ==
  /\ Drafts \subseteq [rides : Nat, rank : Nat, window : {"ahead", "now"},
                       banner : {"", "text"}, file : BOOLEAN]
  /\ \A draft \in Drafts : draft.banner = "" => draft.file
  /\ Edits \subseteq [rides : Nat, active : BOOLEAN,
                      banner : {"kept", "", "text", "typed"}, file : BOOLEAN]

VARIABLES
  promo,      \* DriverOffer rows
  limited,    \* vehicle_categories of each; empty, if it is for all
  usage,      \* DriverOfferUsage rows of the driver
  settled,    \* the ledger's references: a trip and the way it was settled
  settler,    \* what each settlement has read
  admin,      \* what each administrator's request has read
  edits,
  overtaken,  \* history: trips settled by a count that another has used up
  lowered     \* history: offers whose rides_count was lowered, or which came back

promoVars == <<promo, limited, usage, settled, settler, admin, edits, overtaken, lowered>>

(* window: where today is between start_date and end_date; url: what       *)
(* banner_url names, a stored object or the endpoint of the offer itself,  *)
(* put there by an upload ("own") or by an administrator's text ("typed"), *)
(* or else some other text; image: banner_image is there.                  *)
Url == {"", "text", "typed", "pending", "own", "store"}
Promo == [rides : Nat, active : BOOLEAN, window : {"ahead", "now", "past"},
          rank : Nat, made : 0 .. MaxEdits, url : Url, image : BOOLEAN]

ASSUME PromotionRows == NoPromo \notin Promo

Resting == [at |-> "idle", trip |-> NoPromo, way |-> NoPromo, promo |-> NoPromo,
            limit |-> 0, number |-> 0]
Away == [at |-> "idle", promo |-> NoPromo, row |-> NoPromo]

PromotionTypeOK ==
  /\ promo \in [Promos -> Promo \cup {NoPromo}]
  /\ limited \in [Promos -> SUBSET Vehicles]
  /\ usage \subseteq [promo : Promos, trip : Trips, number : Nat \ {0}]
  /\ settled \subseteq Bills
  /\ settler \in [Settlers ->
       [at : {"idle", "count", "post"}, trip : Trips \cup {NoPromo}, way : {"online", "cash", NoPromo},
        promo : Promos \cup {NoPromo}, limit : Nat, number : Nat]]
  /\ admin \in [Admins ->
       [at : {"idle", "opened", "banner"}, promo : Promos \cup {NoPromo},
        row : Promo \cup {NoPromo}]]
  /\ edits \in 0 .. MaxEdits
  /\ overtaken \subseteq Trips /\ lowered \subseteq Promos

(* An offer as it is created.                                              *)
RowOf(draft, when) ==
  [rides |-> draft.rides, active |-> TRUE, window |-> draft.window, rank |-> draft.rank,
   made |-> when, url |-> IF draft.banner = "" THEN "pending" ELSE draft.banner, image |-> FALSE]

(* At first there is no offer, or one whose upload, if any, did not work.  *)
PromotionInit ==
  /\ \E p \in Promos \cup {NoPromo}, draft \in Drafts :
       promo = [q \in Promos |-> IF q = p THEN RowOf(draft, 0) ELSE NoPromo]
  /\ limited = [p \in Promos |-> {}]
  /\ usage = {} /\ settled = {}
  /\ settler = [s \in Settlers |-> Resting]
  /\ admin = [a \in Admins |-> Away]
  /\ edits = 0 /\ overtaken = {} /\ lowered = {}

-----------------------------------------------------------------------------
(* The offer in force: active, of today, by priority, the newest first.    *)
InForce == {p \in Promos : promo[p] # NoPromo /\ promo[p].active /\ promo[p].window = "now"}
Outranks(p, q) ==
  \/ promo[p].rank > promo[q].rank
  \/ promo[p].rank = promo[q].rank /\ promo[p].made > promo[q].made
CurrentPromo == IF InForce = {} THEN NoPromo
           ELSE CHOOSE p \in InForce : \A q \in InForce \ {p} : ~Outranks(q, p)

Uses(p) == {u \in usage : u.promo = p}
Used(p) == Cardinality(Uses(p))

(* What the driver's app shows of it, for whatever he drives.              *)
Shown(p) ==
  [completed |-> Used(p),
   left |-> IF Used(p) < promo[p].rides THEN promo[p].rides - Used(p) ELSE 0,
   exhausted |-> Used(p) >= promo[p].rides]

-----------------------------------------------------------------------------
(* record_trip_wallet_settlement reads the offer (one that begins after    *)
(* the trip was settled this way changes nothing, and is left out),        *)
SettleTrip(s, t, way) ==
  /\ settler[s].at = "idle" /\ <<t, way>> \notin settled
  /\ settler' = [settler EXCEPT ![s] =
       [at |-> IF CurrentPromo = NoPromo THEN "post" ELSE "count", trip |-> t, way |-> way,
        promo |-> CurrentPromo, number |-> 0,
        limit |-> IF CurrentPromo = NoPromo THEN 0 ELSE promo[CurrentPromo].rides]]
  /\ UNCHANGED <<promo, limited, usage, settled, admin, edits, overtaken, lowered>>

(* then whether it is for the trip's vehicle and how often it was used,    *)
Eligible(p, t) == limited[p] = {} \/ VehicleOf[t] \in limited[p]
NumberAtLimit(j) ==  \* mutant: the last free ride does not count
  IF Eligible(j.promo, j.trip) /\ Used(j.promo) <= j.limit THEN Used(j.promo) + 1 ELSE 0
RideNumber(j) ==
  IF Eligible(j.promo, j.trip) /\ Used(j.promo) < j.limit THEN Used(j.promo) + 1 ELSE 0

CountUses(s) ==
  LET j == settler[s]
  IN  /\ j.at = "count"
      /\ settler' = [settler EXCEPT ![s] = 
           [j EXCEPT !.at = "post", !.limit = 0, !.number = RideNumber(j)]]
      /\ UNCHANGED <<promo, limited, usage, settled, admin, edits, overtaken, lowered>>

(* and posts under the wallet's lock: the reference decides whether the    *)
(* trip has been settled this way.  A use of an offer that was deleted     *)
(* fails and takes the settlement with it.                                 *)
Taken(j) ==
  IF j.number > 0 /\ ~\E u \in Uses(j.promo) : u.trip = j.trip
  THEN usage \cup {[promo |-> j.promo, trip |-> j.trip, number |-> j.number]} ELSE usage

PostTrip(s) ==
  LET j == settler[s]
  IN  /\ j.at = "post"
      /\ IF \/ <<j.trip, j.way>> \in settled
            \/ j.number > 0 /\ promo[j.promo] = NoPromo
         THEN UNCHANGED <<usage, settled, overtaken>>
         ELSE /\ settled' = settled \cup {<<j.trip, j.way>>}
              /\ usage' = Taken(j)
              /\ overtaken' = IF usage' = usage THEN overtaken
                              ELSE overtaken \cup
                                {settler[r].trip : r \in {q \in Settlers \ {s} :
                                   settler[q].promo = j.promo /\ settler[q].number > 0}}
      /\ settler' = [settler EXCEPT ![s] = Resting]
      /\ UNCHANGED <<promo, limited, admin, edits, lowered>>

-----------------------------------------------------------------------------
(* Administrators.  A request that edits an offer saves every column of    *)
(* the row it read, and inserts the row again if it was deleted meanwhile; *)
(* its vehicles are kept apart.                                            *)
Requested(a, at, p, row) ==
  admin' = [admin EXCEPT ![a] = IF at = "idle" THEN Away
                                ELSE [at |-> at, promo |-> p, row |-> row]]

CreatePromo(a, p, draft) ==
  LET row == RowOf(draft, edits + 1)
  IN  /\ admin[a].at = "idle" /\ edits < MaxEdits
      /\ promo[p] = NoPromo /\ p \notin lowered
      /\ \A b \in Admins : admin[b].promo # p
      /\ edits' = edits + 1
      /\ promo' = [promo EXCEPT ![p] = row]
      /\ \E some \in SUBSET Vehicles : limited' = [limited EXCEPT ![p] = some]
      /\ Requested(a, IF draft.file THEN "banner" ELSE "idle", p, row)
      /\ UNCHANGED <<usage, settled, settler, overtaken, lowered>>

OpenPromo(a, p) ==
  /\ admin[a].at = "idle" /\ edits < MaxEdits
  /\ promo[p] # NoPromo
  /\ edits' = edits + 1
  /\ Requested(a, "opened", p, promo[p])
  /\ UNCHANGED <<promo, limited, usage, settled, settler, overtaken, lowered>>

(* A banner_url that is not empty is taken as it is; without one a place   *)
(* is kept if there was none and a file comes; a PUT without one, or an    *)
(* edit with an empty one, empties it; a PATCH without one leaves it.      *)
UrlAfter(url, banner, file) ==
  CASE banner \in {"text", "typed"} -> banner
    [] banner \notin {"text", "typed"} /\ url = "" -> IF file THEN "pending" ELSE ""
    [] banner = "kept" /\ url # "" -> url
    [] banner = "" /\ url # "" -> ""

(* A rides_count of 0 passes for the row's, and is stored.                 *)
RidesPass(edit, row) == edit.rides # 0 \/ row.rides # 0

UpdatePromo(a, edit) ==
  LET p == admin[a].promo
      row == [admin[a].row EXCEPT !.rides = edit.rides, !.active = edit.active,
                                    !.url = UrlAfter(@, edit.banner, edit.file)]
  IN  /\ admin[a].at = "opened" /\ RidesPass(edit, admin[a].row)
      /\ promo' = [promo EXCEPT ![p] = row]
      /\ \E some \in SUBSET Vehicles : limited' = [limited EXCEPT ![p] = some]
      /\ lowered' = IF promo[p] # NoPromo /\ edit.rides >= promo[p].rides THEN lowered
                    ELSE lowered \cup {p}
      /\ Requested(a, IF edit.file THEN "banner" ELSE "idle", p, row)
      /\ UNCHANGED <<usage, settled, settler, edits, overtaken>>

(* process_and_save_banner: to the object store or, if that is not there   *)
(* or fails, to the row; three columns, of a row that must be there.       *)
BannerSaved(p, row) == [promo EXCEPT ![p].url = row.url, ![p].image = row.image]

SaveBanner(a) ==
  LET p == admin[a].promo
      row == admin[a].row
  IN  /\ admin[a].at \in {"opened", "banner"}
      /\ \/ promo[p] # NoPromo /\ promo' = BannerSaved(p, [row EXCEPT !.url = "store"])
         \/ promo[p] # NoPromo /\ promo' = BannerSaved(p, [row EXCEPT !.url = "own", !.image = TRUE])
         \/ UNCHANGED promo
      /\ Requested(a, "idle", p, row)
      /\ UNCHANGED <<limited, usage, settled, settler, edits, overtaken, lowered>>

(* DELETE takes the uses and the vehicles of the offer with it.            *)
DeletePromo(a) ==
  LET p == admin[a].promo
  IN  /\ admin[a].at = "opened"
      /\ promo' = [promo EXCEPT ![p] = NoPromo]
      /\ limited' = [limited EXCEPT ![p] = {}]
      /\ usage' = usage \ Uses(p)
      /\ lowered' = lowered \cup {p}
      /\ Requested(a, "idle", p, NoPromo)
      /\ UNCHANGED <<settled, settler, edits, overtaken>>

(* start_date comes, end_date passes: for the rows that were read, too.    *)
NewDay(p) ==
  LET next == IF promo[p].window = "ahead" THEN "now" ELSE "past"
  IN  /\ promo[p] # NoPromo /\ promo[p].window # "past"
      /\ promo' = [promo EXCEPT ![p].window = next]
      /\ admin' = [a \in Admins |-> IF admin[a].promo = p
                                     THEN [admin[a] EXCEPT !.row.window = next] ELSE admin[a]]
      /\ UNCHANGED <<limited, usage, settled, settler, edits, overtaken, lowered>>

PromotionNext ==
  \/ \E s \in Settlers, bill \in Bills : SettleTrip(s, bill[1], bill[2])
  \/ \E s \in Settlers : CountUses(s)
  \/ \E s \in Settlers : PostTrip(s)
  \/ \E a \in Admins, p \in Promos, draft \in Drafts : CreatePromo(a, p, draft)
  \/ \E a \in Admins, p \in Promos : OpenPromo(a, p)
  \/ \E a \in Admins, edit \in Edits : UpdatePromo(a, edit)
  \/ \E a \in Admins : SaveBanner(a)
  \/ \E a \in Admins : DeletePromo(a)
  \/ \E p \in Promos : NewDay(p)

-----------------------------------------------------------------------------
(* A driver takes an offer's free rides in order and no more of them than  *)
(* it gives, except by settlements that counted before another took its    *)
(* ride (record_trip_wallet_settlement counts before it locks the wallet): *)
(* each of these takes one too many at most, and shares its number.  What  *)
(* the app shows as taken and left then adds up to the offer.  An offer    *)
(* with fewer rides than it once had, or deleted, is another matter.       *)
FreeRidesAddUp ==
  \A p \in Promos \ lowered :
    LET late == {u \in Uses(p) : u.trip \in overtaken}
    IN  /\ \A u, w \in Uses(p) \ late : u.number = w.number => u = w
        /\ promo[p] # NoPromo =>
             /\ Used(p) <= promo[p].rides + Cardinality(late)
             /\ late = {} => Shown(p).left + Shown(p).completed = promo[p].rides

(* However uploads and edits of stale rows follow each other, the banner's *)
(* endpoint has an image when an upload has made the row name that         *)
(* endpoint: it does not send the caller to itself                         *)
(* (process_and_save_banner, DriverOfferViewSet.banner), unless an         *)
(* administrator has typed its address for the banner's.                   *)
BannerServes ==
  \A p \in Promos : promo[p] # NoPromo /\ promo[p].url = "own" => promo[p].image

(* FreeRidesAddUp and BannerServes together, of an administrator's edits   *)
(* that run among settlements and uploads.                                 *)
PromotionsAddUp == FreeRidesAddUp /\ BannerServes

PromotionSpec == PromotionInit /\ [][PromotionNext]_promoVars

=============================================================================
