------------------------------ MODULE RideDemo ------------------------------
(***************************************************************************)
(* The demonstration server of ride_socket_demo: drivers register from     *)
(* sockets, a customer's booking is offered to those nearby, and the first *)
(* to accept it has it.  Everything is in the memory of one process; each  *)
(* operation of state.py holds the one lock, and the handlers of           *)
(* socket_server.py await between them, so their steps interleave.         *)
(*                                                                         *)
(* A driver's status is left out: every assignment to it says "available", *)
(* the one for an accepted ride too.  So are the customer's connection and *)
(* what only goes there.                                                   *)
(***************************************************************************)
EXTENDS Naturals, FiniteSets

CONSTANTS
  DemoDrivers, \* the drivers that are seeded
  Sockets,     \* connections; one that closed never opens again
  Rides,
  NoSocket, NoRider,
  MaxRegistrations \* bound: registerDriver calls

VARIABLES
  conn,     \* each socket: "new", "open" or "closed"
  socketOf, \* a driver's socket_id
  entering, \* registrations that have yet to enter the driver's room
  room,     \* the sockets in the room "driver:<id>"
  ride,     \* a ride's status, driver_id and notified_driver_ids
  booker,   \* where bookRide is, whom it found and whom it still has to ask
  teller,   \* where the acceptRide that won is, and whom it still has to tell
  asked,    \* history: which sockets of which drivers a rideRequest reached
  told,     \* history: the sockets rideNoLongerAvailable reached
  registrations, \* registerDriver calls
  late      \* history: what was not done yet when a ride was accepted

demoVars == <<conn, socketOf, entering, room, ride, booker, teller, asked, told,
             registrations, late>>

NoBooker == [at |-> "idle", found |-> {}, left |-> {}]

(* seed_drivers_if_empty                                                   *)
DemoInit ==
  /\ conn = [s \in Sockets |-> "new"]
  /\ socketOf = [d \in DemoDrivers |-> NoSocket]
  /\ entering = {}
  /\ room = [d \in DemoDrivers |-> {}]
  /\ ride = [r \in Rides |-> [status |-> "none", driver |-> NoRider, notified |-> {}]]
  /\ booker = [r \in Rides |-> NoBooker]
  /\ teller = [r \in Rides |-> [at |-> "idle", left |-> {}]]
  /\ asked = [r \in Rides |-> {}]
  /\ told = [r \in Rides |-> {}]
  /\ registrations = 0
  /\ late = [r \in Rides |-> [notified |-> FALSE, rooms |-> {}]]

-----------------------------------------------------------------------------
Connect(s) ==
  /\ conn[s] = "new"
  /\ conn' = [conn EXCEPT ![s] = "open"]
  /\ UNCHANGED <<socketOf, entering, room, ride, booker, teller, asked, told, registrations, late>>

(* unregister_socket: only drivers whose latest socket this is go offline. *)
Disconnect(s) ==
  /\ conn[s] = "open"
  /\ conn' = [conn EXCEPT ![s] = "closed"]
  /\ socketOf' = [d \in DemoDrivers |-> IF socketOf[d] = s THEN NoSocket ELSE socketOf[d]]
  /\ room' = [d \in DemoDrivers |-> room[d] \ {s}]
  /\ entering' = {e \in entering : e[2] # s}
  /\ UNCHANGED <<ride, booker, teller, asked, told, registrations, late>>

(* registerDriver: the driver's socket is set, whoever had it before, and  *)
(* the room is entered in a step of its own.                               *)
SetDriverSocket(s, d) ==
  /\ conn[s] = "open" /\ registrations < MaxRegistrations
  /\ registrations' = registrations + 1
  /\ socketOf' = [socketOf EXCEPT ![d] = s]
  /\ entering' = entering \cup {<<d, s>>}
  /\ UNCHANGED <<conn, room, ride, booker, teller, asked, told, late>>
EnterRoom(e) ==
  /\ room' = [room EXCEPT ![e[1]] = @ \cup {e[2]}]
  /\ entering' = entering \ {e}
  /\ UNCHANGED <<conn, socketOf, ride, booker, teller, asked, told, registrations, late>>

-----------------------------------------------------------------------------
(* bookRide: the ride is made, then the drivers are looked up: those near  *)
(* the pickup, or everybody online if none is near.  A pickup that is no   *)
(* pair of numbers ends it there, with the ride made.                      *)
CreateRide(r) ==
  /\ ride[r].status = "none"
  /\ ride' = [ride EXCEPT ![r].status = "pending"]
  /\ booker' = [booker EXCEPT ![r].at = "look"]
  /\ UNCHANGED <<conn, socketOf, entering, room, teller, asked, told, registrations, late>>

NearbyAvailableOnline(near) ==
  LET online == {d \in DemoDrivers : socketOf[d] # NoSocket}
  IN  IF online \cap near # {} THEN online \cap near ELSE online

Look(r, near) ==
  LET found == {<<d, socketOf[d]>> : d \in NearbyAvailableOnline(near)}
  IN  /\ booker[r].at = "look"
      /\ booker' = [booker EXCEPT ![r] = [at |-> IF found = {} THEN "idle" ELSE "ask",
                                          found |-> found, left |-> found]]
      /\ UNCHANGED <<conn, socketOf, entering, room, ride, teller, asked, told, registrations, late>>
PickupFails(r) ==
  /\ booker[r].at = "look"
  /\ booker' = [booker EXCEPT ![r] = NoBooker]
  /\ UNCHANGED <<conn, socketOf, entering, room, ride, teller, asked, told, registrations, late>>

(* A rideRequest goes to the socket that was read, if it is still there.   *)
AskOne(r, x) ==
  /\ booker[r].at = "ask" /\ x \in booker[r].left
  /\ booker' = [booker EXCEPT ![r].left = @ \ {x}]
  /\ asked' = [asked EXCEPT ![r] = IF conn[x[2]] = "open" THEN @ \cup {x} ELSE @]
  /\ UNCHANGED <<conn, socketOf, entering, room, ride, teller, told, registrations, late>>

(* mutant: who went offline while the others were asked is not kept        *)
SaveNotifiedOnline(r) ==
  /\ booker[r].at = "ask" /\ booker[r].left = {}
  /\ ride' = [ride EXCEPT ![r].notified = {x[1] : x \in {y \in booker[r].found : socketOf[y[1]] = y[2]}}]
  /\ booker' = [booker EXCEPT ![r] = NoBooker]
  /\ UNCHANGED <<conn, socketOf, entering, room, teller, asked, told, registrations, late>>

(* save_ride_notified, once all have been asked.                           *)
SaveNotified(r) ==
  /\ booker[r].at = "ask" /\ booker[r].left = {}
  /\ ride' = [ride EXCEPT ![r].notified = {x[1] : x \in booker[r].found}]
  /\ booker' = [booker EXCEPT ![r] = NoBooker]
  /\ UNCHANGED <<conn, socketOf, entering, room, teller, asked, told, registrations, late>>

-----------------------------------------------------------------------------
(* try_accept_ride: the first takes a ride that is pending, whether it was *)
(* asked or not and whatever it has accepted besides; the ride's id goes   *)
(* out with the first rideRequest.  The handler keeps its copy of whom     *)
(* else to tell.                                                           *)
TryAcceptRide(r, d) ==
  /\ ride[r].status = "pending" /\ asked[r] # {}
  /\ ride' = [ride EXCEPT ![r].status = "accepted", ![r].driver = d]
  /\ teller' = [teller EXCEPT ![r] = [at |-> "customer", left |-> ride[r].notified \ {d}]]
  /\ late' = [late EXCEPT ![r] = [notified |-> booker[r].at # "idle",
                                  rooms |-> {e \in entering : e[2] \notin room[e[1]]}]]
  /\ UNCHANGED <<conn, socketOf, entering, room, booker, asked, told, registrations>>

TellCustomer(r) ==
  /\ teller[r].at = "customer"
  /\ teller' = [teller EXCEPT ![r].at = "others"]
  /\ UNCHANGED <<conn, socketOf, entering, room, ride, booker, asked, told, registrations, late>>
TellOther(r, d) ==
  /\ teller[r].at = "others" /\ d \in teller[r].left
  /\ told' = [told EXCEPT ![r] = @ \cup room[d]]
  /\ teller' = [teller EXCEPT ![r].left = @ \ {d}]
  /\ UNCHANGED <<conn, socketOf, entering, room, ride, booker, asked, registrations, late>>

DemoNext ==
  \/ \E s \in Sockets : Connect(s)
  \/ \E s \in Sockets : Disconnect(s)
  \/ \E s \in Sockets, d \in DemoDrivers : SetDriverSocket(s, d)
  \/ \E e \in entering : EnterRoom(e)
  \/ \E r \in Rides : CreateRide(r)
  \/ \E r \in Rides, near \in SUBSET DemoDrivers : Look(r, near)
  \/ \E r \in Rides : PickupFails(r)
  \/ \E r \in Rides : \E x \in booker[r].left : AskOne(r, x)
  \/ \E r \in Rides : SaveNotified(r)
  \/ \E r \in Rides, d \in DemoDrivers : TryAcceptRide(r, d)
  \/ \E r \in Rides : TellCustomer(r)
  \/ \E r \in Rides, d \in DemoDrivers : TellOther(r, d)

DemoSpec == DemoInit /\ [][DemoNext]_demoVars

-----------------------------------------------------------------------------
(* Once the acceptance of a ride is through, every driver who was asked    *)
(* and did not get it has been told on the connection he was asked on, if  *)
(* that is still open and in his room, unless the ride was accepted before *)
(* those who were asked were kept, or before the connection was in the     *)
(* room.  Nobody else has the ride: it has the driver who was first.       *)
LosersAreTold ==
  \A r \in Rides :
    teller[r].at = "others" /\ teller[r].left = {} /\ ~late[r].notified =>
      \A x \in asked[r] :
        x[1] # ride[r].driver /\ x \notin late[r].rooms /\ x[2] \in room[x[1]]
          => x[2] \in told[r]

=============================================================================
