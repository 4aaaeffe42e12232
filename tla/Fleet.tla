------------------------------- MODULE Fleet -------------------------------
(***************************************************************************)
(* A driver's memberships of fleets: OwnerDriversView.post and OwnerDriver-*)
(* DetailView.patch of fleet/api.py, and add_driver_to_fleet of            *)
(* fleet/services.py, for one driver and several owners.                   *)
(*                                                                         *)
(* Each request looks up its idempotency key, takes the key's lock, reads  *)
(* and writes memberships, and stores its answer.  Nothing locks rows.     *)
(***************************************************************************)
EXTENDS Idempotency

CONSTANTS
  Owners,   \* fleets
  Asks,     \* requests that can be in progress at once
  Nobody,   \* no owner
  MaxAsks,  \* bound: requests in a behaviour
  MaxRows   \* bound: rows of one owner and the driver

ASSUME FleetConstants ==
  /\ Nobody \notin Owners
  /\ MaxAsks \in Nat /\ MaxRows \in Nat

VARIABLES
  member,   \* FleetDriverMembership rows of each owner, oldest first
  ask,      \* what each request does next and what it has read
  asked,    \* requests so far
  blamed    \* history: the driver became active where no check saw it

fleetVars == <<member, ask, asked, blamed, cache>>

Status == {"invited", "active", "suspended", "removed"}
AskStep == {"idle", "lookup", "lock", "check", "own", "write", "store", "release"}

(* what: "add", or the status a PATCH sets, or "same" if it sets none;     *)
(* row, seen: the row read, 0 if there was none, and its status then;      *)
(* target: the status an added driver gets.                                *)
Ask == [at : AskStep, what : Status \cup {"add", "same"}, owner : Owners \cup {Nobody},
        key : Keys \cup {Nobody}, row : 0 .. MaxRows, seen : Status, target : Status]
NoAsk == [at |-> "idle", what |-> "same", owner |-> Nobody, key |-> Nobody,
          row |-> 0, seen |-> "removed", target |-> "removed"]

FleetTypeOK ==
  /\ member \in [Owners -> Seq(Status)]
  /\ \A o \in Owners : Len(member[o]) <= MaxRows
  /\ ask \in [Asks -> Ask]
  /\ asked \in 0 .. MaxAsks
  /\ blamed \in BOOLEAN
  /\ CacheTypeOK

FleetInit ==
  /\ member = [o \in Owners |-> <<>>]
  /\ ask = [r \in Asks |-> NoAsk]
  /\ asked = 0
  /\ blamed = FALSE
  /\ CacheInit

(* is_deleted is set with REMOVED and cleared with any other status.       *)
Live(o, i) == member[o][i] # "removed"
ActiveIn(o) == \E i \in DOMAIN member[o] : member[o][i] = "active"

Become(r, at) ==
  ask' = [ask EXCEPT ![r] = IF at = "idle" THEN NoAsk ELSE [@ EXCEPT !.at = at]]

-----------------------------------------------------------------------------
(* POST: the request begins with its key.                                  *)
ArriveAdd(r, o, k) ==
  /\ ask[r].at = "idle" /\ asked < MaxAsks
  /\ asked' = asked + 1
  /\ ask' = [ask EXCEPT ![r] = [NoAsk EXCEPT !.at = "lookup", !.what = "add",
                                             !.owner = o, !.key = k]]
  /\ UNCHANGED <<member, blamed, cache>>

(* PATCH: the row is read first of all.                                    *)
ArrivePatch(r, o, i, what, k) ==
  /\ ask[r].at = "idle" /\ asked < MaxAsks
  /\ i \in DOMAIN member[o] /\ Live(o, i)
  /\ asked' = asked + 1
  /\ ask' = [ask EXCEPT ![r] = [NoAsk EXCEPT !.at = "lookup", !.what = what, !.owner = o,
                                             !.key = k, !.row = i, !.seen = member[o][i]]]
  /\ UNCHANGED <<member, blamed, cache>>

(* The answer of an earlier request with the key is this one's, if found.  *)
Lookup(r) ==
  /\ ask[r].at = "lookup"
  /\ \/ Answered(ask[r].key) /\ Become(r, "idle")
     \/ NotAnswered(ask[r].key) /\ Become(r, "lock")
  /\ UNCHANGED <<member, asked, blamed>>

Lock(r) ==
  /\ ask[r].at = "lock"
  /\ \/ LockTaken(ask[r].key) /\ Become(r, IF ask[r].what = "add" THEN "check" ELSE "write")
     \/ LockFailed(ask[r].key) /\ Become(r, IF ask[r].what = "add" THEN "check" ELSE "write")
     \/ LockRefused(ask[r].key) /\ Become(r, "idle")
  /\ UNCHANGED <<member, asked, blamed>>

(* mutant: the owner's own memberships are looked at                       *)
CheckOwn(r) ==
  /\ ask[r].at = "check"
  /\ IF ActiveIn(ask[r].owner)
     THEN Become(r, "release")
     ELSE \E target \in {"invited", "active"} :
            ask' = [ask EXCEPT ![r] = [@ EXCEPT !.at = "own", !.target = target]]
  /\ UNCHANGED <<member, asked, blamed, cache>>

(* add_driver_to_fleet refuses a driver who is active elsewhere.  Its      *)
(* target depends on his KYC, which others decide.                         *)
Check(r) ==
  /\ ask[r].at = "check"
  /\ IF \E o \in Owners \ {ask[r].owner} : ActiveIn(o)
     THEN Become(r, "release")
     ELSE \E target \in {"invited", "active"} :
            ask' = [ask EXCEPT ![r] = [@ EXCEPT !.at = "own", !.target = target]]
  /\ UNCHANGED <<member, asked, blamed, cache>>

(* The newest row is taken, removed or not; one that is active or invited  *)
(* is returned as it is.                                                   *)
Own(r) ==
  LET rows == member[ask[r].owner]
  IN  /\ ask[r].at = "own"
      /\ ask' = [ask EXCEPT ![r] =
           [@ EXCEPT !.at = IF Len(rows) > 0 /\ rows[Len(rows)] \in {"active", "invited"}
                            THEN "store" ELSE "write",
                     !.row = Len(rows),
                     !.seen = IF Len(rows) > 0 THEN rows[Len(rows)] ELSE "removed"]]
      /\ UNCHANGED <<member, asked, blamed, cache>>

-----------------------------------------------------------------------------
(* What a request saves: every column of the row it read.                  *)
Saved(r) ==
  CASE ask[r].what = "add"  -> ask[r].target
    [] ask[r].what = "same" -> ask[r].seen
    [] OTHER                -> ask[r].what

(* uniq_active_fleet_owner_driver: one row that is not deleted.            *)
Clashes(o, i, status) ==
  status # "removed" /\ \E j \in DOMAIN member[o] \ {i} : Live(o, j)

(* A PATCH that makes the driver active, or an addition that does while    *)
(* another owner's is past its check.                                      *)
Unchecked(r) ==
  \/ ask[r].what # "add"
  \/ \E q \in Asks \ {r} : /\ ask[q].what = "add" /\ ask[q].owner # ask[r].owner
                           /\ ask[q].at \in {"own", "write"}

(* mutant: the row is created whatever was read                            *)
WriteNew(r) ==
  LET o == ask[r].owner
      i == Len(member[o]) + 1
      rows == Append(member[o], Saved(r))
  IN  /\ ask[r].at = "write"
      /\ member' = [member EXCEPT ![o] = rows]
      /\ blamed' = (blamed \/ (rows[i] = "active" /\ Unchecked(r)))
      /\ Become(r, "store")
      /\ UNCHANGED <<asked, cache>>

(* The row is created, or saved; or the constraint ends the request.       *)
Write(r) ==
  LET o == ask[r].owner
      i == IF ask[r].row = 0 THEN Len(member[o]) + 1 ELSE ask[r].row
      rows == IF ask[r].row = 0 THEN Append(member[o], Saved(r))
                                ELSE [member[o] EXCEPT ![i] = Saved(r)]
  IN  /\ ask[r].at = "write"
      /\ IF Clashes(o, i, Saved(r))
         THEN Become(r, "release") /\ UNCHANGED <<member, blamed>>
         ELSE /\ Len(rows) <= MaxRows
              /\ member' = [member EXCEPT ![o] = rows]
              /\ blamed' = (blamed \/ (rows[i] = "active" /\ Unchecked(r)))
              /\ Become(r, "store")
      /\ UNCHANGED <<asked, cache>>

Store(r) ==
  /\ ask[r].at = "store"
  /\ StoreAnswer(ask[r].key)
  /\ Become(r, "idle")
  /\ UNCHANGED <<member, asked, blamed>>

(* A ValueError or any other exception.                                    *)
ReleaseKey(r) ==
  /\ ask[r].at = "release"
  /\ Release(ask[r].key)
  /\ Become(r, "idle")
  /\ UNCHANGED <<member, asked, blamed>>

(* The process dies: what it did not commit is undone.                     *)
Crash(r) ==
  /\ ask[r].at # "idle"
  /\ Become(r, "idle")
  /\ UNCHANGED <<member, asked, blamed, cache>>

Pass(k) ==
  /\ LockLapses(k) \/ AnswerLapses(k)
  /\ UNCHANGED <<member, ask, asked, blamed>>

FleetNext ==
  \/ \E r \in Asks, o \in Owners, k \in Keys : ArriveAdd(r, o, k)
  \/ \E r \in Asks, o \in Owners, k \in Keys, i \in 1 .. MaxRows,
        what \in {"active", "suspended", "removed", "same"} :
       ArrivePatch(r, o, i, what, k)
  \/ \E r \in Asks : Lookup(r)
  \/ \E r \in Asks : Lock(r)
  \/ \E r \in Asks : Check(r)
  \/ \E r \in Asks : Own(r)
  \/ \E r \in Asks : Write(r)
  \/ \E r \in Asks : Store(r)
  \/ \E r \in Asks : ReleaseKey(r)
  \/ \E r \in Asks : Crash(r)
  \/ \E k \in Keys : Pass(k)

FleetSpec == FleetInit /\ [][FleetNext]_fleetVars

-----------------------------------------------------------------------------
(* The driver is active in two fleets only if a PATCH made him active,     *)
(* which asks no other fleet, or two owners added him while neither had    *)
(* written: additions that do not overlap leave him in one, whatever is    *)
(* removed, suspended, repeated or lost between them.                      *)
TwoFleetsHaveACause ==
  \A o, p \in Owners : o # p /\ ActiveIn(o) /\ ActiveIn(p) => blamed

(* Of the requests with one key, one at most is between its lock and its   *)
(* answer, unless the lock lapsed meanwhile or the cache failed.           *)
Guarded(r, k) == ask[r].key = k /\ ask[r].at \in {"check", "own", "write", "store", "release"}
NoTwinWrites ==
  \A q, r \in Asks, k \in Keys :
    q # r /\ Guarded(q, k) /\ Guarded(r, k) => k \in unguarded

=============================================================================
