------------------------------- MODULE Tolls -------------------------------
(***************************************************************************)
(* The toll of a corridor (apps/pricing/toll_service.py): one RouteToll-   *)
(* Cache row for the vehicle category and one for every category, what a   *)
(* lookup finds in them, what it stores when Google answers, and what an   *)
(* administrator does to them.                                             *)
(*                                                                         *)
(* There is no Redis here: _get_redis_client imports a name that           *)
(* tracking/redis_geo.py does not define, and returns None on every call.  *)
(***************************************************************************)
EXTENDS Integers

CONSTANTS
  TollAmounts,   \* what Google may answer and an administrator may enter
  NoRow,         \* no row, and no answer of Google
  TollsEnabled   \* ENABLE_TOLL_CALCULATION

ASSUME TollConstants ==
  /\ TollAmounts \subseteq Nat /\ NoRow \notin Int /\ TollsEnabled \in BOOLEAN

VARIABLE rows   \* RouteTollCache of one corridor

Slug == {"own", "all"}   \* the category's slug, and the empty one
Source == {"google_routes", "manual_override"}

(* live: expires_at lies ahead.                                            *)
TollRow == [amount : TollAmounts, source : Source, live : BOOLEAN, active : BOOLEAN]

Cached(s) == rows[s] # NoRow /\ rows[s].active

(* The category's own row hides the generic one, expired or not.           *)
Found ==
  IF Cached("own") THEN rows["own"]
  ELSE IF Cached("all") THEN rows["all"] ELSE NoRow

LiveOnly(row) == row # NoRow /\ row.live   \* mutant: an override may expire

Valid(row) ==
  /\ row # NoRow
  /\ row.live \/ row.source = "manual_override"

Overridden(s) == Cached(s) /\ rows[s].source = "manual_override"

(* The answer of a lookup that needs no call: a toll and its source.       *)
TollSource == Source \cup {"expired_cache_fallback", "none", "disabled"}
Toll == [amount : TollAmounts \cup {0}, source : TollSource]

Needless == ~TollsEnabled \/ Valid(Found)
KnownToll ==
  IF TollsEnabled THEN [amount |-> Found.amount, source |-> Found.source]
                  ELSE [amount |-> 0, source |-> "disabled"]

(* What is answered after the call, row being what was found before it.    *)
FetchedToll(answer, row) ==
  IF answer # NoRow THEN [amount |-> answer, source |-> "google_routes"]
  ELSE IF row # NoRow THEN [amount |-> row.amount, source |-> "expired_cache_fallback"]
  ELSE [amount |-> 0, source |-> "none"]

(* update_or_create: whatever the category's row holds by now.             *)
Stored(answer) ==
  [rows EXCEPT !["own"] = [amount |-> answer, source |-> "google_routes",
                           live |-> TRUE, active |-> TRUE]]

(* The write may fail: that is logged and the answer is used all the same. *)
StoreToll(answer) ==
  \/ answer # NoRow /\ rows' = Stored(answer)
  \/ rows' = rows

-----------------------------------------------------------------------------
(* RouteTollViewSet: the administrator creates or edits a row, or deletes  *)
(* it, and flush-cache lets every active row expire.  Time does the same   *)
(* to one.                                                                 *)

Override(s, amount, live) ==
  rows' = [rows EXCEPT ![s] = [amount |-> amount, source |-> "manual_override",
                               live |-> live, active |-> TRUE]]

Switch(s) ==
  /\ rows[s] # NoRow
  /\ rows' = [rows EXCEPT ![s].active = ~@]

Delete(s) ==
  /\ rows[s] # NoRow
  /\ rows' = [rows EXCEPT ![s] = NoRow]

Flushed == [s \in Slug |-> IF Cached(s) THEN [rows[s] EXCEPT !.live = FALSE] ELSE rows[s]]
Flush == rows' = Flushed

Expire(s) ==
  /\ rows[s] # NoRow /\ rows[s].live
  /\ rows' = [rows EXCEPT ![s].live = FALSE]

=============================================================================
