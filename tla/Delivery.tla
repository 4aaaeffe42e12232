------------------------------ MODULE Delivery ------------------------------
(***************************************************************************)
(* Getting an offer to a driver's phone (apps/dispatch/offer_delivery.py,  *)
(* and its callers in dispatch/services.py, tasks.py and tracking/         *)
(* consumers.py): the offer goes out by WebSocket and by a push at once;   *)
(* then the first booking to lock the driver tracks whether the phone has  *)
(* acknowledged it, and pushes once more, seconds later, if it has not.    *)
(*                                                                         *)
(* Locks and acknowledgements live in Redis and expire there; whoever      *)
(* frees a driver deletes his lock without looking whose it is.            *)
(***************************************************************************)
EXTENDS Naturals, FiniteSets

CONSTANTS
  Callers,       \* offers that can be on their way at once
  Riders,        \* drivers being offered trips
  Offers,        \* bookings that offer themselves
  NoOffer,
  MaxOffers,     \* bound: offers made in a behaviour
  MaxReleases    \* bound: releases of a lock in a behaviour

ASSUME DeliveryConstants ==
  /\ NoOffer \notin Offers
  /\ MaxOffers \in Nat /\ MaxReleases \in Nat

VARIABLES
  lock,      \* dispatch:lock:<driver>, the booking in it
  ack,       \* offer:ack:<booking>:<driver>
  caller,    \* each offer on its way, and the step it takes next
  reached,   \* offers that reached the phone
  fallback,  \* send_fcm_offer_fallback tasks waiting, by booking and driver
  made, released,
  heard,     \* history: acknowledged since it was registered
  pushed,    \* history: pushed by the last fallback task to run
  freed      \* history: drivers some booking has released

deliveryVars == <<lock, ack, caller, reached, fallback, made, released,
                  heard, pushed, freed>>

Pair == Offers \X Riders
NoPair == <<NoOffer, NoOffer>>

DeliveryTypeOK ==
  /\ lock \in [Riders -> Offers \cup {NoOffer}]
  /\ ack \in [Pair -> {"none", "pending", "acked"}]
  /\ caller \in [Callers ->
       [at : {"idle", "lock", "register", "schedule"}, pair : Pair \cup {NoPair}]]
  /\ reached \subseteq Pair
  /\ fallback \in [Pair -> 0 .. MaxOffers]
  /\ made \in 0 .. MaxOffers /\ released \in 0 .. MaxReleases
  /\ heard \subseteq Pair /\ pushed \in Pair \cup {NoPair} /\ freed \subseteq Riders

DeliveryInit ==
  /\ lock = [d \in Riders |-> NoOffer]
  /\ ack = [p \in Pair |-> "none"]
  /\ caller = [c \in Callers |-> [at |-> "idle", pair |-> NoPair]]
  /\ reached = {}
  /\ fallback = [p \in Pair |-> 0]
  /\ made = 0 /\ released = 0
  /\ heard = {} /\ pushed = NoPair /\ freed = {}

-----------------------------------------------------------------------------
Advance(c, at) == caller' = [caller EXCEPT ![c].at = at]
Done(c) == caller' = [caller EXCEPT ![c] = [at |-> "idle", pair |-> NoPair]]

(* The offer goes out on the driver's socket, and by a thread of its own   *)
(* as a push, which needs a token and may fail (send_fcm_offer_immediate): *)
(* it reaches his phone, or does not.                                      *)
SendNow(p) ==
  \/ reached' = reached \cup {p}
  \/ UNCHANGED reached

(* _broadcast_driver_provisional_assign: the offer goes out before its     *)
(* acknowledgement is awaited.                                             *)
Broadcast(c, b, d) ==
  /\ caller[c].at = "idle"
  /\ made < MaxOffers
  /\ made' = made + 1
  /\ SendNow(<<b, d>>)
  /\ caller' = [caller EXCEPT ![c] = [at |-> "lock", pair |-> <<b, d>>]]
  /\ UNCHANGED <<lock, ack, fallback, released, heard, pushed, freed>>

(* mutants: SET without NX; two fallbacks for an offer; a push when Redis  *)
(* knows nothing of the offer                                              *)
AssignAnyway(c) ==
  /\ caller[c].at = "lock"
  /\ lock' = [lock EXCEPT ![caller[c].pair[2]] = caller[c].pair[1]]
  /\ Advance(c, "register")
  /\ UNCHANGED <<ack, reached, fallback, made, released, heard, pushed, freed>>
ScheduleTwice(c) ==
  /\ caller[c].at = "schedule"
  /\ fallback' = [fallback EXCEPT ![caller[c].pair] = @ + 2]
  /\ Done(c)
  /\ UNCHANGED <<lock, ack, reached, made, released, heard, pushed, freed>>
NotAcked(p) == ack[p] # "acked"

(* try_assign_driver: SET NX.  Without the lock the offer is not tracked.  *)
TryAssign(c) ==
  LET d == caller[c].pair[2]
  IN  /\ caller[c].at = "lock"
      /\ IF lock[d] = NoOffer
           THEN /\ lock' = [lock EXCEPT ![d] = caller[c].pair[1]]
                /\ Advance(c, "register")
           ELSE UNCHANGED lock /\ Done(c)
      /\ UNCHANGED <<ack, reached, fallback, made, released, heard, pushed, freed>>

(* register_offer_pending: an acknowledgement that came first is lost.     *)
Register(c) ==
  /\ caller[c].at = "register"
  /\ ack' = [ack EXCEPT ![caller[c].pair] = "pending"]
  /\ heard' = heard \ {caller[c].pair}
  /\ Advance(c, "schedule")
  /\ UNCHANGED <<lock, reached, fallback, made, released, pushed, freed>>

(* schedule_fcm_fallback: failing to enqueue is logged.                    *)
Schedule(c) ==
  /\ caller[c].at = "schedule"
  /\ \/ fallback' = [fallback EXCEPT ![caller[c].pair] = @ + 1]
     \/ UNCHANGED fallback
  /\ Done(c)
  /\ UNCHANGED <<lock, ack, reached, made, released, heard, pushed, freed>>

(* driver_offer_ack -> record_driver_ack, of whatever the phone was sent.  *)
Acknowledge(p) ==
  /\ p \in reached
  /\ ack' = [ack EXCEPT ![p] = "acked"]
  /\ heard' = heard \cup {p}
  /\ UNCHANGED <<lock, caller, reached, fallback, made, released, pushed, freed>>

(* send_fcm_offer_fallback, run late by any delay.                         *)
NeedsPush(p) == ack[p] = "pending"
Fallback(p) ==
  /\ fallback[p] > 0
  /\ fallback' = [fallback EXCEPT ![p] = @ - 1]
  /\ pushed' = IF NeedsPush(p) THEN p ELSE NoPair
  /\ UNCHANGED <<lock, ack, caller, reached, made, released, heard, freed>>

(* release_driver_lock, whichever booking took the lock: another driver    *)
(* wins a booking or its search fails, or the driver declines an offer,    *)
(* which asks no proof that he had one.                                    *)
Released(d) == [lock EXCEPT ![d] = NoOffer]
Release(d) ==
  /\ released < MaxReleases
  /\ released' = released + 1
  /\ lock' = Released(d)
  /\ freed' = freed \cup {d}
  /\ UNCHANGED <<ack, caller, reached, fallback, made, heard, pushed>>

(* Redis forgets an acknowledgement OFFER_ACK_TTL after it was written.    *)
Forget(p) ==
  /\ ack[p] # "none"
  /\ ack' = [ack EXCEPT ![p] = "none"]
  /\ UNCHANGED <<lock, caller, reached, fallback, made, released, heard, pushed, freed>>

(* The lock lives ASSIGN_LOCK_TTL, twice as long: an offer registered as   *)
(* soon as its lock was taken, and not acknowledged since, is forgotten    *)
(* before.                                                                 *)
LockExpires(d) ==
  /\ lock[d] # NoOffer
  /\ ack[<<lock[d], d>>] # "pending"
  /\ \A c \in Callers : caller[c].pair = <<lock[d], d>> => caller[c].at # "register"
  /\ lock' = [lock EXCEPT ![d] = NoOffer]
  /\ UNCHANGED <<ack, caller, reached, fallback, made, released, heard, pushed, freed>>

DeliveryNext ==
  \/ \E c \in Callers, b \in Offers, d \in Riders : Broadcast(c, b, d)
  \/ \E c \in Callers : TryAssign(c)
  \/ \E c \in Callers : Register(c)
  \/ \E c \in Callers : Schedule(c)
  \/ \E p \in Pair : Acknowledge(p)
  \/ \E p \in Pair : Fallback(p)
  \/ \E d \in Riders : Release(d)
  \/ \E p \in Pair : Forget(p)
  \/ \E d \in Riders : LockExpires(d)

DeliverySpec == DeliveryInit /\ [][DeliveryNext]_deliveryVars

-----------------------------------------------------------------------------
(* Until somebody frees a driver, one booking at a time waits for his      *)
(* acknowledgement, however many offer themselves to him at once: the lock *)
(* is taken before an offer is registered and outlives its registration.   *)
OneTrackedOffer ==
  \A d \in Riders : d \notin freed =>
    Cardinality({b \in Offers : ack[<<b, d>>] = "pending"}) <= 1

(* A fallback task pushes nothing to a phone that has acknowledged the     *)
(* offer since it was last registered, however late the task runs and      *)
(* even when Redis has forgotten the acknowledgement.                      *)
AckSilencesFallback ==
  [][\A p \in heard : fallback'[p] < fallback[p] => pushed' # p]_deliveryVars

=============================================================================
