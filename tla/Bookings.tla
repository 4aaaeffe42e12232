------------------------------ MODULE Bookings ------------------------------
(***************************************************************************)
(* The booking row, its timeline of trip events and the request handlers   *)
(* that write them: apps/bookings, apps/trip_events, the entry points of   *)
(* apps/dispatch that write a booking, and the WebSocket handlers of       *)
(* apps/tracking that do.                                                  *)
(*                                                                         *)
(* Handlers run concurrently (web workers, Celery workers, daemon threads),*)
(* each statement in its own transaction unless the code opens one, under  *)
(* READ COMMITTED.  A handler is a worker's job: the reads it bases a later*)
(* write on are kept in the job, and other handlers may run in between.    *)
(* Reads and writes that no other handler can tell apart are one step.     *)
(***************************************************************************)
EXTENDS Naturals, FiniteSets, Sequences

CONSTANTS
  Bookings,      \* booking rows, created by customers' requests
  Drivers,       \* driver profiles
  Workers,       \* threads that run handlers
  CustomerOf,    \* the customer who makes each booking
  NoDriver,      \* booking.driver IS NULL
  NoBooking,
  NoWorker,      \* nobody holds the row lock
  RouteEdited,   \* bookings whose customer calls update-destination
  SocketDriven,  \* bookings whose app pushes booking_status_update
  Pushed,        \* the states it pushes
  MaxEvents      \* per booking: no new request once its timeline is this long

BookingState ==
  {"draft", "pending_quote", "searching_driver", "driver_assigned",
   "driver_accepted", "driver_arriving", "driver_arrived",
   "pickup_otp_pending", "trip_started", "in_transit", "nearing_drop",
   "completed", "cancelled_by_customer", "cancelled_by_driver",
   "cancelled_by_admin", "payment_pending", "refunded", "failed"}

(* What the state column can hold: the socket handler stores the client's   *)
(* string unchecked, "other" is any that is not a BookingState.            *)
RowState == BookingState \cup {"none", "other"}

ASSUME NullsAssumption ==
  NoDriver \notin Drivers /\ NoBooking \notin Bookings /\ NoWorker \notin Workers
ASSUME HandlersAssumption ==
  RouteEdited \subseteq Bookings /\ SocketDriven \subseteq Bookings
ASSUME PushedAssumption == Pushed \subseteq RowState \ {"none"}
ASSUME MaxEventsAssumption == MaxEvents \in [Bookings -> Nat]

VARIABLES
  state,     \* Booking.state ("none": the row does not exist yet)
  driver,    \* Booking.driver
  offered,   \* drivers with a ride_request_sent event, per booking
  timeline,  \* TripEvent.sequence of each event, in the order of insertion
  photos,    \* kinds of BookingParcelPhoto stored
  lock,      \* the worker holding SELECT ... FOR UPDATE on the row
  job,       \* what each worker is doing, and what it has read so far
  won,       \* drivers answered "accepted" since the last reassignment
  named      \* the driver the create request itself put on the row (history)

vars == <<state, driver, offered, timeline, photos, lock, job, won, named>>
row  == <<state, driver>>
log  == <<offered, timeline>>

VALID_TRANSITIONS ==
  [draft              |-> {"pending_quote", "cancelled_by_customer"},
   pending_quote      |-> {"searching_driver", "cancelled_by_customer"},
   searching_driver   |-> {"driver_assigned", "driver_accepted",
                           "cancelled_by_customer", "failed"},
   driver_assigned    |-> {"driver_accepted", "searching_driver",
                           "cancelled_by_customer"},
   driver_accepted    |-> {"driver_arriving", "cancelled_by_driver",
                           "cancelled_by_customer"},
   driver_arriving    |-> {"driver_arrived", "cancelled_by_driver",
                           "cancelled_by_customer"},
   driver_arrived     |-> {"pickup_otp_pending", "cancelled_by_customer",
                           "cancelled_by_driver"},
   pickup_otp_pending |-> {"trip_started"},
   trip_started       |-> {"in_transit"},
   in_transit         |-> {"nearing_drop"},
   nearing_drop       |-> {"completed", "payment_pending"},
   payment_pending    |-> {"completed", "refunded"}]

Allowed(s) == IF s \in DOMAIN VALID_TRANSITIONS THEN VALID_TRANSITIONS[s] ELSE {}

(* The states in which a driver is on a trip: the busy set of the accept   *)
(* check and the release set of a repeat booking are the same nine.        *)
OnTrip ==
  {"driver_assigned", "driver_accepted", "driver_arriving", "driver_arrived",
   "pickup_otp_pending", "trip_started", "in_transit", "nearing_drop",
   "payment_pending"}

(* update_destination refuses these. *)
Finished ==
  {"completed", "cancelled_by_customer", "cancelled_by_driver",
   "cancelled_by_admin", "failed", "refunded"}

PhotoKind == {"pickup", "drop"}

Op == {"idle", "release", "dispatch", "offer", "record", "insert",
       "transition", "commit", "accept", "accepting", "route"}

(***************************************************************************)
(* A job: the booking b it works on, the state it will write (to), the     *)
(* driver it carries (drv), the sequence number it has read (seq), the     *)
(* trips still to close (close) for the booking just made (new), the       *)
(* drivers still to be offered (batch), and what follows the recording of  *)
(* an event (then).                                                        *)
(***************************************************************************)
Job == [op : Op, b : Bookings \cup {NoBooking}, to : RowState,
        drv : Drivers \cup {NoDriver}, seq : Nat, close : SUBSET Bookings,
        new : Bookings \cup {NoBooking}, batch : SUBSET Drivers,
        then : {"idle", "release", "offer"}]

Idle == [op |-> "idle", b |-> NoBooking, to |-> "none", drv |-> NoDriver,
         seq |-> 0, close |-> {}, new |-> NoBooking, batch |-> {},
         then |-> "idle"]

TypeOK ==
  /\ state \in [Bookings -> RowState]
  /\ driver \in [Bookings -> Drivers \cup {NoDriver}]
  /\ offered \in [Bookings -> SUBSET Drivers]
  /\ timeline \in [Bookings -> Seq(Nat)]
  /\ photos \in [Bookings -> SUBSET PhotoKind]
  /\ lock \in [Bookings -> Workers \cup {NoWorker}]
  /\ job \in [Workers -> Job]
  /\ won \in [Bookings -> SUBSET Drivers]
  /\ named \in [Bookings -> Drivers \cup {NoDriver}]

Init ==
  /\ state = [b \in Bookings |-> "none"]
  /\ driver = [b \in Bookings |-> NoDriver]
  /\ offered = [b \in Bookings |-> {}]
  /\ timeline = [b \in Bookings |-> <<>>]
  /\ photos = [b \in Bookings |-> {}]
  /\ lock = [b \in Bookings |-> NoWorker]
  /\ job = [w \in Workers |-> Idle]
  /\ won = [b \in Bookings |-> {}]
  /\ named = [b \in Bookings |-> NoDriver]

-----------------------------------------------------------------------------
(* Reads and writes shared by the handlers.                                *)

Exists(b) == state[b] # "none"
Free(w)   == job[w].op = "idle"
Room(b)   == Len(timeline[b]) < MaxEvents[b]

(* order_by("-sequence").first() or 0 *)
Latest(b) ==
  LET used == {timeline[b][i] : i \in 1 .. Len(timeline[b])}
  IN  CHOOSE n \in used \cup {0} : \A m \in used : m <= n
NextSequence(b) == Latest(b) + 1

AnySequence(b, n) == TRUE  \* mutant: no unique_together

(* unique_together = ("booking", "sequence") *)
SequenceFree(b, n) == \A i \in 1 .. Len(timeline[b]) : timeline[b][i] # n

IgnoresLock(b) == TRUE     \* mutant: select_for_update dropped

(* A writer of the row, and an insert that references it, wait for the     *)
(* holder of the row lock.                                                 *)
Unlocked(b) == lock[b] = NoWorker

Append1(b, n) == timeline' = [timeline EXCEPT ![b] = Append(@, n)]
Become(w, j)  == job' = [job EXCEPT ![w] = j]
Finish(w)     == Become(w, Idle)

(* The start of record_trip_event on b, about driver d; "then" follows it. *)
Record(w, b, d, then) ==
  Become(w, [job[w] EXCEPT !.op = "record", !.b = b, !.drv = d, !.then = then])

(* What a handler does once its event is stored. *)
AfterRecord(j) ==
  IF j.then = "idle" THEN Idle
  ELSE [j EXCEPT !.op = j.then, !.drv = NoDriver, !.seq = 0, !.then = "idle"]

(* IntegrityError: it ends the handler, except that perform_create goes on *)
(* to dispatch when release_customer_previous_active_trips raised.         *)
AfterCollision(j) ==
  IF j.then = "release" THEN [AfterRecord(j) EXCEPT !.close = {}] ELSE Idle

-----------------------------------------------------------------------------
(* record_trip_event: read the latest sequence number, insert the next.    *)

(* Any worker at the start of recording an event reads the latest number.  *)
RecordRead(w) ==
  /\ job[w].op = "record"
  /\ Become(w, [job[w] EXCEPT !.op = "insert", !.seq = NextSequence(job[w].b)])
  /\ UNCHANGED <<row, log, photos, named, lock, won>>

RecordInsert(w) ==
  LET j == job[w] IN
  /\ j.op = "insert"
  /\ Unlocked(j.b)
  /\ \/ /\ SequenceFree(j.b, j.seq)
        /\ Append1(j.b, j.seq)
        /\ offered' = [offered EXCEPT ![j.b] = @ \cup ({j.drv} \ {NoDriver})]
        /\ Become(w, AfterRecord(j))
     \/ /\ ~ SequenceFree(j.b, j.seq)
        /\ Become(w, AfterCollision(j))
        /\ UNCHANGED log
  /\ UNCHANGED <<row, photos, named, lock, won>>

(* A driver's decline, or an ETA event of a location update: an event that *)
(* touches nothing else and takes a number of the same sequence.           *)
Note(w, b) ==
  /\ Free(w) /\ Exists(b) /\ Room(b)
  /\ Record(w, b, NoDriver, "idle")
  /\ UNCHANGED <<row, log, photos, named, lock, won>>

-----------------------------------------------------------------------------
(* Creation, repeat booking and the start of dispatch.                     *)

(* perform_create saves the row: the customer and the state are its own,   *)
(* the driver whatever the request says, as the serializer does not make   *)
(* that column read-only.  Then release_customer_previous_active_trips     *)
(* reads the customer's other trips that have a driver and are not over.   *)
Create(w, b, d) ==
  /\ Free(w) /\ ~ Exists(b)
  /\ state' = [state EXCEPT ![b] = "pending_quote"]
  /\ driver' = [driver EXCEPT ![b] = d]
  /\ named' = [named EXCEPT ![b] = d]
  /\ Become(w, [Idle EXCEPT
       !.op = "release", !.new = b,
       !.close = {x \in Bookings \ {b} : /\ CustomerOf[x] = CustomerOf[b]
                                        /\ driver[x] # NoDriver
                                        /\ state[x] \in OnTrip}])
  /\ UNCHANGED <<log, photos, lock, won>>

ReleasedTypo  == "complete"  \* mutant: not one of the choices
ReleasedState == "completed"

ReleaseSave(w, x) ==
  /\ job[w].op = "release" /\ x \in job[w].close
  /\ Unlocked(x)
  /\ state' = [state EXCEPT ![x] = ReleasedState]
  /\ Become(w, [job[w] EXCEPT !.op = "record", !.b = x, !.close = @ \ {x},
                              !.then = "release"])
  /\ UNCHANGED <<driver, log, photos, named, lock, won>>

Dispatchable == {"pending_quote", "searching_driver"}

(* dispatch_booking returns unless the row it reads awaits a driver.       *)
DispatchRead(w, b) ==
  Become(w, IF state[b] \in Dispatchable THEN [Idle EXCEPT !.op = "dispatch", !.b = b]
            ELSE Idle)

ReleaseDone(w) ==
  /\ job[w].op = "release" /\ job[w].close = {}
  /\ DispatchRead(w, job[w].new)
  /\ UNCHANGED <<row, log, photos, named, lock, won>>

(* The admin's trigger, or the Celery fallback of perform_create. *)
Trigger(w, b) ==
  /\ Free(w) /\ state[b] \in Dispatchable /\ Room(b)
  /\ DispatchRead(w, b)
  /\ UNCHANGED <<row, log, photos, named, lock, won>>

DispatchSave(w) ==
  LET b == job[w].b IN
  /\ job[w].op = "dispatch" /\ Unlocked(b)
  /\ state' = [state EXCEPT ![b] = "searching_driver"]
  /\ Record(w, b, NoDriver, "idle")
  /\ UNCHANGED <<driver, log, photos, named, lock, won>>

(***************************************************************************)
(* One round of offers by any thread of the search: the row is read once,  *)
(* then every driver of the batch gets an event, and the round one more.   *)
(* Which drivers a round offers is the subject of module Dispatch.         *)
(***************************************************************************)
StartOffers(w, b, batch) ==
  /\ Free(w) /\ state[b] = "searching_driver" /\ driver[b] = NoDriver /\ Room(b)
  /\ Become(w, [Idle EXCEPT !.op = "offer", !.b = b, !.batch = batch])
  /\ UNCHANGED <<row, log, photos, named, lock, won>>

Offer(w, d) ==
  /\ job[w].op = "offer" /\ d \in job[w].batch
  /\ Become(w, [job[w] EXCEPT !.op = "record", !.drv = d, !.batch = @ \ {d},
                              !.then = "offer"])
  /\ UNCHANGED <<row, log, photos, named, lock, won>>

OfferRound(w) ==
  /\ job[w].op = "offer" /\ job[w].batch = {}
  /\ Record(w, job[w].b, NoDriver, "idle")
  /\ UNCHANGED <<row, log, photos, named, lock, won>>

-----------------------------------------------------------------------------
(* transition_booking_state.                                               *)

(* The booking was read by get_object: "to" is checked against that state. *)
StartTransition(w, b, to) ==
  /\ Free(w) /\ Exists(b) /\ Room(b)
  /\ to \in Allowed(state[b])
  /\ ~ (state[b] = "searching_driver" /\ to = "driver_assigned" /\ driver[b] = NoDriver)
  /\ Become(w, [Idle EXCEPT !.op = "transition", !.b = b, !.to = to])
  /\ UNCHANGED <<row, log, photos, named, lock, won>>

(* mutant: the pickup photo is asked for only at the end *)
PhotoAtEnd(b, to) == to = "completed" => {"pickup", "drop"} \subseteq photos[b]

(* assert_parcel_photo_for_transition *)
PhotoTaken(b, to) ==
  /\ to = "trip_started" => "pickup" \in photos[b]
  /\ to = "completed" => "drop" \in photos[b]

TransitionRead(w) ==
  LET j == job[w] IN
  /\ j.op = "transition"
  /\ Become(w, IF PhotoTaken(j.b, j.to)
               THEN [j EXCEPT !.op = "commit", !.seq = NextSequence(j.b)]
               ELSE Idle)
  /\ UNCHANGED <<row, log, photos, named, lock, won>>

(* One transaction: the state is saved and the event inserted, or neither. *)
TransitionCommit(w) ==
  LET j == job[w] IN
  /\ j.op = "commit" /\ Unlocked(j.b)
  /\ Finish(w)
  /\ \/ /\ SequenceFree(j.b, j.seq)
        /\ state' = [state EXCEPT ![j.b] = j.to]
        /\ Append1(j.b, j.seq)
     \/ /\ ~ SequenceFree(j.b, j.seq)
        /\ UNCHANGED <<state, timeline>>
  /\ UNCHANGED <<driver, offered, photos, named, lock, won>>

-----------------------------------------------------------------------------
(* _accept_ride_while_searching.                                           *)

(* A driver's request whose get_object found the booking searching. *)
StartAccept(w, b, d) ==
  /\ Free(w) /\ state[b] = "searching_driver" /\ Room(b)
  /\ Become(w, [Idle EXCEPT !.op = "accept", !.b = b, !.drv = d])
  /\ UNCHANGED <<row, log, photos, named, lock, won>>

(* _driver_is_busy_on_another_trip *)
BusyElsewhere(d, b) ==
  \E x \in Bookings \ {b} : driver[x] = d /\ state[x] \in OnTrip

AlreadyMine(b, d) == state[b] = "driver_accepted" /\ driver[b] = d

(* mutants: one of the checks is missing *)
AcceptUninvited(b, d) ==
  state[b] = "searching_driver" /\ driver[b] = NoDriver /\ ~ BusyElsewhere(d, b)
AcceptTaken(b, d) ==
  state[b] = "searching_driver" /\ d \in offered[b] /\ ~ BusyElsewhere(d, b)
AcceptAnyState(b, d) ==
  driver[b] = NoDriver /\ d \in offered[b] /\ ~ BusyElsewhere(d, b)

CanAccept(b, d) ==
  /\ state[b] = "searching_driver"
  /\ driver[b] = NoDriver
  /\ d \in offered[b]
  /\ ~ BusyElsewhere(d, b)

(***************************************************************************)
(* The checks run under the row lock.  A refused or repeated request ends  *)
(* its transaction at once, so only one that goes on keeps the lock.       *)
(***************************************************************************)
AcceptLock(w) ==
  LET b == job[w].b
      d == job[w].drv
  IN
  /\ job[w].op = "accept" /\ Unlocked(b)
  /\ \/ /\ CanAccept(b, d)
        /\ lock' = [lock EXCEPT ![b] = w]
        /\ Become(w, [job[w] EXCEPT !.op = "accepting", !.seq = NextSequence(b)])
        /\ UNCHANGED won
     \/ /\ AlreadyMine(b, d)
        /\ won' = [won EXCEPT ![b] = @ \cup {d}]
        /\ Finish(w)
        /\ UNCHANGED lock
     \/ /\ ~ CanAccept(b, d) /\ ~ AlreadyMine(b, d)
        /\ Finish(w)
        /\ UNCHANGED <<lock, won>>
  /\ UNCHANGED <<row, log, photos, named>>

AcceptCommit(w) ==
  LET j == job[w] IN
  /\ j.op = "accepting"
  /\ lock' = [lock EXCEPT ![j.b] = NoWorker]
  /\ Finish(w)
  /\ \/ /\ SequenceFree(j.b, j.seq)
        /\ driver' = [driver EXCEPT ![j.b] = j.drv]
        /\ state' = [state EXCEPT ![j.b] = "driver_accepted"]
        /\ Append1(j.b, j.seq)
        /\ won' = [won EXCEPT ![j.b] = @ \cup {j.drv}]
     \/ /\ ~ SequenceFree(j.b, j.seq)
        /\ UNCHANGED <<row, timeline, won>>
  /\ UNCHANGED <<offered, photos, named>>

-----------------------------------------------------------------------------
(* The other writers of a booking row.                                     *)

(* DispatchViewSet.reassign, up to the search it starts. *)
Reassign(w, b) ==
  /\ Free(w) /\ Exists(b) /\ Unlocked(b) /\ Room(b)
  /\ driver' = [driver EXCEPT ![b] = NoDriver]
  /\ state' = [state EXCEPT ![b] = "searching_driver"]
  /\ won' = [won EXCEPT ![b] = {}]
  /\ UNCHANGED <<log, photos, named, lock, job>>

(* update_destination reads the whole row, asks the map service for a new  *)
(* fare, and saves the whole row: state and driver as it read them.        *)
StartRouteEdit(w, b) ==
  /\ Free(w) /\ b \in RouteEdited /\ Exists(b) /\ Room(b)
  /\ state[b] \notin Finished
  /\ Become(w, [Idle EXCEPT !.op = "route", !.b = b, !.to = state[b],
                            !.drv = driver[b]])
  /\ UNCHANGED <<row, log, photos, named, lock, won>>

RouteSave(w) ==
  LET j == job[w] IN
  /\ j.op = "route" /\ Unlocked(j.b)
  /\ state' = [state EXCEPT ![j.b] = j.to]
  /\ driver' = [driver EXCEPT ![j.b] = j.drv]
  /\ Finish(w)
  /\ UNCHANGED <<log, photos, named, lock, won>>

(* RealtimeConsumer._update_booking_status: any state, no table, no gate.  *)
SocketPush(w, b, to) ==
  /\ Free(w) /\ b \in SocketDriven /\ Exists(b) /\ Unlocked(b) /\ Room(b)
  /\ state' = [state EXCEPT ![b] = to]
  /\ Record(w, b, NoDriver, "idle")
  /\ UNCHANGED <<driver, log, photos, named, lock, won>>

(* The parcel_photo upload by the driver on the row. *)
UploadPhoto(b, kind) ==
  /\ driver[b] # NoDriver
  /\ photos' = [photos EXCEPT ![b] = @ \cup {kind}]
  /\ UNCHANGED <<row, log, lock, job, won, named>>

-----------------------------------------------------------------------------
Handler(w) ==
  \/ RecordRead(w) \/ RecordInsert(w)
  \/ ReleaseDone(w) \/ DispatchSave(w) \/ OfferRound(w)
  \/ \E x \in Bookings : ReleaseSave(w, x)
  \/ \E d \in Drivers : Offer(w, d)
  \/ TransitionRead(w) \/ TransitionCommit(w)
  \/ AcceptLock(w) \/ AcceptCommit(w) \/ RouteSave(w)

Request(w, b) ==
  \/ Note(w, b) \/ Trigger(w, b)
  \/ Reassign(w, b) \/ StartRouteEdit(w, b)
  \/ \E d \in Drivers \cup {NoDriver} : Create(w, b, d)
  \/ \E batch \in SUBSET Drivers \ {{}} : StartOffers(w, b, batch)
  \/ \E to \in BookingState : StartTransition(w, b, to)
  \/ \E to \in Pushed : SocketPush(w, b, to)
  \/ \E d \in Drivers : StartAccept(w, b, d)

Next ==
  \/ \E w \in Workers : Handler(w)
  \/ \E w \in Workers, b \in Bookings : Request(w, b)
  \/ \E b \in Bookings, kind \in PhotoKind : UploadPhoto(b, kind)

Spec == Init /\ [][Next]_vars

-----------------------------------------------------------------------------
(* Properties.                                                             *)

(* The timeline of a booking has the numbers 1, 2, 3 ... in the order its  *)
(* events happened, without gap or repetition, although handlers read the  *)
(* latest number and insert the next one in separate statements            *)
(* (trip_events/services.py, bookings/services.py:256-272).                *)
TimelineGapless ==
  \A b \in Bookings : \A i \in 1 .. Len(timeline[b]) : timeline[b][i] = i

(* An accept that has passed its checks is never refused by the unique     *)
(* constraint: the row lock keeps every other event of the booking out     *)
(* until the accept's own event is stored (bookings/services.py:85-121).   *)
AcceptNeverCollides ==
  \A w \in Workers : job[w].op = "accepting" => SequenceFree(job[w].b, job[w].seq)

(* The driver on a booking was sent an offer for it, whoever else wrote    *)
(* the row meanwhile (bookings/services.py:98), or is the one its create   *)
(* request named (bookings/serializers.py:64-73).                          *)
AssignedWasOffered ==
  \A b \in Bookings : driver[b] \in offered[b] \cup {named[b], NoDriver}

(* A driver who was told the trip is theirs is the driver on the row until *)
(* an admin reassigns it; so at most one driver is told so per search.  Of *)
(* bookings whose route is not edited: see RouteSave.                      *)
WinnerKeepsTrip ==
  \A b \in Bookings \ RouteEdited : \A d \in won[b] : driver[b] = d

(* A trip that is under way, or has left the road unpaid, has the photo of *)
(* its parcel at pickup (bookings/services.py:385-393).  Of bookings whose *)
(* state is not pushed over the socket, which passes the check by.         *)
PhotoStates ==
  {"trip_started", "in_transit", "nearing_drop", "payment_pending", "refunded"}
StartedHasPhoto ==
  \A b \in Bookings \ SocketDriven :
    state[b] \in PhotoStates => "pickup" \in photos[b]

(* A driver comes onto a row by the request that creates it, or by an      *)
(* accept: of a driver sent an offer, on a row that still searches and has *)
(* no driver.  No handler replaces a driver by another.  Of bookings whose *)
(* route is not edited: see RouteSave.                                     *)
OpenTo(b, d) ==
  \/ state[b] = "none"
  \/ state[b] = "searching_driver" /\ driver[b] = NoDriver /\ d \in offered[b]
DriverSetOnlyWhileOpen ==
  [][\A b \in Bookings \ RouteEdited :
       driver'[b] \notin {driver[b], NoDriver} => OpenTo(b, driver'[b])]_vars

(* The whole of it: on bookings whose route is not edited, drivers, offers *)
(* and answers behave as module Award says.                                *)
Unedited == Bookings \ RouteEdited
A == INSTANCE Award WITH
       Trips  <- Unedited,
       made   <- {b \in Unedited : Exists(b)},
       pool   <- [b \in Unedited |-> offered[b]],
       winner <- [b \in Unedited |-> driver[b]],
       told   <- [b \in Unedited |-> won[b]]
AwardsTrips == A!Spec

(* What services.py:251 refuses: a state with no way out of it in          *)
(* VALID_TRANSITIONS, such as a cancellation, is not overwritten by a      *)
(* transition.                                                             *)
FinalIsFinal ==
  [][\A w \in Workers :
       (job[w].op = "commit" /\ job'[w].op = "idle" /\ state' # state) =>
         Allowed(state[job[w].b]) # {}]_vars


=============================================================================
