------------------------------ MODULE Dispatch ------------------------------
(***************************************************************************)
(* The search for a driver of one booking: apps/dispatch/tasks.py,         *)
(* services.py and matching.py.  A search looks for drivers ring by ring   *)
(* around the pickup, offers the trip to a batch of them, sleeps, goes on  *)
(* to the next ring, and after the last ring to any driver online.         *)
(*                                                                         *)
(* A search runs in the request or Celery task that starts it and then in  *)
(* daemon threads, each started as the last thing its predecessor does to  *)
(* the search; so a search is one process here.  Several can run at once   *)
(* for one booking: the admin triggers or reassigns while one is waiting.  *)
(* Accepting is module Bookings' subject and one step here.                *)
(***************************************************************************)
EXTENDS Naturals, FiniteSets

CONSTANTS
  Drivers,
  Approved,     \* drivers with KYC, category and vehicle in order
  NoDriver,
  Searches,     \* the searches that can run at once
  NoSearch,
  Rings,        \* number of rings
  MaxBatch,     \* MAX_OFFER_BATCH, FALLBACK_ANY_ONLINE_MAX
  OfferWait,    \* OFFER_WAIT_SECONDS, in ticks
  RetryWait,    \* the five seconds of _retry_dispatch, in ticks
  MaxStarts,    \* bound: searches started in a behaviour
  MaxFailures   \* bound: processes or threads lost in a behaviour

ASSUME NullsAssumption   == NoDriver \notin Drivers /\ NoSearch \notin Searches
ASSUME ApprovedAssumption == Approved \subseteq Drivers
ASSUME NumbersAssumption ==
  /\ Rings \in Nat /\ MaxBatch \in Nat \ {0}
  /\ OfferWait \in Nat \ {0} /\ RetryWait \in Nat
  /\ MaxStarts \in Nat /\ MaxFailures \in Nat

VARIABLES
  state,     \* Booking.state
  driver,    \* Booking.driver
  place,     \* where each driver is: a ring, Beyond or Away
  offered,   \* drivers with a ride_request_sent event
  latest,    \* the search that recorded the last ride_offer_round event
  age,       \* ticks since the last offer or round event, up to OfferWait
  status,    \* of the driver_found message to the customer, since the last
             \* reassignment: "no_driver_found" or "none" yet
  job,       \* what each search does next, and what it remembers
  starts,    \* searches started
  failures,  \* processes and threads lost
  steady     \* history: drivers available ever since the booking was made

vars == <<state, driver, place, offered, latest, age, status, job, starts,
          failures, steady>>
row    == <<state, driver>>
events == <<offered, latest, age, status>>
world  == <<place, steady>>
bounds == <<starts, failures>>

(* A driver's ring number, counted from 0; Beyond: online outside every    *)
(* ring or without a position; Away: offline, busy, suspended, or not      *)
(* taking trips of this type.                                              *)
Beyond == Rings
Away   == Rings + 1
Place  == 0 .. Away

Sleeping == {"wait", "defer", "retry"}
Op == Sleeping \cup {"idle", "save", "assign", "ring", "offer", "mark", "tell", "return"}

(* The step op a search takes next; the ring it is at; the drivers it has  *)
(* picked so far (cumulative_notified) and those of them still to be sent  *)
(* their offer (batch); what follows it: the rest of dispatch_booking      *)
(* ("return") or nothing; and the ticks left asleep.                       *)
Job == [op : Op, ring : 0 .. Rings, cumulative : SUBSET Drivers,
        batch : SUBSET Drivers, then : {"idle", "return"}, sleep : Nat]

Idle == [op |-> "idle", ring |-> 0, cumulative |-> {}, batch |-> {},
         then |-> "idle", sleep |-> 0]

TypeOK ==
  /\ state \in {"pending_quote", "searching_driver", "driver_accepted",
                "cancelled_by_customer"}
  /\ driver \in Drivers \cup {NoDriver}
  /\ place \in [Drivers -> Place]
  /\ offered \in SUBSET Drivers
  /\ latest \in Searches \cup {NoSearch}
  /\ age \in 0 .. OfferWait
  /\ status \in {"none", "no_driver_found"}
  /\ job \in [Searches -> Job]
  /\ starts \in 0 .. MaxStarts
  /\ failures \in 0 .. MaxFailures
  /\ steady \in SUBSET Drivers

Init ==
  /\ state = "pending_quote"
  /\ driver = NoDriver
  /\ place \in [Drivers -> Place]
  /\ offered = {}
  /\ latest = NoSearch
  /\ age = OfferWait
  /\ status = "none"
  /\ job = [s \in Searches |-> Idle]
  /\ starts = 0
  /\ failures = 0
  /\ steady = {d \in Drivers : place[d] # Away}

-----------------------------------------------------------------------------
At(s, op)    == job[s].op = op
Become(s, j) == job' = [job EXCEPT ![s] = j]
Goto(s, op)  == Become(s, [job[s] EXCEPT !.op = op])
Sleep(s, op, ticks) == Become(s, [job[s] EXCEPT !.op = op, !.sleep = ticks])

(* The check every step of a search opens with. *)
Open == state = "searching_driver" /\ driver = NoDriver

(* find_drivers_in_ring, whichever filter they pass. *)
RingMatch(ring, excluded) == {d \in Drivers \ excluded : place[d] = ring}

(* find_any_online_drivers *)
AnyOnline(excluded) == {d \in Drivers \ excluded : place[d] # Away}

(* mutants: a ring excludes nobody; there is no fallback *)
RepeatMatch(j) ==
  IF j.ring = Rings THEN AnyOnline(j.cumulative) ELSE RingMatch(j.ring, {})
NoFallback(j) == IF j.ring = Rings THEN {} ELSE RingMatch(j.ring, j.cumulative)

Matched(j) ==
  IF j.ring = Rings THEN AnyOnline(j.cumulative) ELSE RingMatch(j.ring, j.cumulative)

(* The nearest, at most a batch; Redis, which is asked first, may know     *)
(* only some of them.  In a ring, those who pass the strict filter go      *)
(* alone, and the others only when there are none of those.  Distances     *)
(* within a ring are left out: any of them may be the nearest.             *)
Batches(j) ==
  {batch \in SUBSET Matched(j) :
     /\ batch # {} /\ Cardinality(batch) <= MaxBatch
     /\ j.ring < Rings => batch \subseteq Approved \/ batch \cap Approved = {}}

Ungraced == TRUE   \* mutant: the grace check is dropped

(* _offer_grace_elapsed *)
GraceElapsed == age = OfferWait

-----------------------------------------------------------------------------
(* How a search starts.                                                    *)

(* dispatch_booking: by the booking's creation, the admin's trigger, or a  *)
(* Celery worker.                                                          *)
Trigger(s) ==
  /\ At(s, "idle") /\ starts < MaxStarts
  /\ state \in {"pending_quote", "searching_driver"}
  /\ Become(s, [Idle EXCEPT !.op = "save", !.then = "return"])
  /\ starts' = starts + 1
  /\ UNCHANGED <<row, world, events, failures>>

(* Its save of the state, whatever the row has become since it was read.   *)
Save(s) ==
  /\ At(s, "save")
  /\ state' = "searching_driver"
  /\ Goto(s, "assign")
  /\ UNCHANGED <<driver, world, events, bounds>>

(* DispatchViewSet.reassign *)
Reassign(s) ==
  /\ At(s, "idle") /\ starts < MaxStarts
  /\ state' = "searching_driver"
  /\ driver' = NoDriver
  /\ status' = "none"
  /\ Become(s, [Idle EXCEPT !.op = "assign"])
  /\ starts' = starts + 1
  /\ UNCHANGED <<world, offered, latest, age, failures>>

(* What a search does when there is nothing more to do for now: back in    *)
(* dispatch_booking it looks whether anybody was sent an offer.            *)
Leave(s) ==
  Become(s, IF job[s].then = "return" THEN [job[s] EXCEPT !.op = "return"] ELSE Idle)

(* assign_driver_to_booking, start_expanding_driver_dispatch *)
Assign(s) ==
  /\ At(s, "assign")
  /\ \/ /\ Open
        /\ Become(s, [job[s] EXCEPT !.op = "ring", !.ring = 0, !.cumulative = offered])
     \/ /\ ~ Open
        /\ Leave(s)
  /\ UNCHANGED <<row, world, events, bounds>>

-----------------------------------------------------------------------------
(* A round of offers.                                                      *)

SkipsRing(r) == r + 2  \* mutant: an empty ring skips the next
NextRing(r) == r + 1

(* continue_dispatch_rings: one ring, or past the last one anybody online. *)
Ring(s) ==
  LET j == job[s] IN
  /\ At(s, "ring")
  /\ \/ /\ ~ Open
        /\ Leave(s)
     \/ /\ Open /\ Matched(j) # {}
        /\ \E batch \in Batches(j) :
             Become(s, [j EXCEPT !.op = "offer", !.batch = batch,
                                 !.cumulative = @ \cup batch])
     \/ /\ Open /\ Matched(j) = {} /\ j.ring < Rings
        /\ Become(s, [j EXCEPT !.ring = NextRing(@)])
     \/ /\ Open /\ Matched(j) = {} /\ j.ring = Rings
        /\ Goto(s, "mark")
  /\ UNCHANGED <<row, world, events, bounds>>

(* _broadcast_driver_provisional_assign: the row is not looked at again. *)
Offer(s, d) ==
  /\ At(s, "offer") /\ d \in job[s].batch
  /\ Become(s, [job[s] EXCEPT !.batch = @ \ {d}])
  /\ offered' = offered \cup {d}
  /\ age' = 0
  /\ UNCHANGED <<row, world, latest, status, bounds>>

(* The round's own event, and the thread that sleeps until it is over. *)
OfferRound(s) ==
  /\ At(s, "offer") /\ job[s].batch = {}
  /\ latest' = s
  /\ age' = 0
  /\ Become(s, [job[s] EXCEPT !.op = "wait", !.then = "idle", !.sleep = OfferWait])
  /\ UNCHANGED <<row, world, offered, status, bounds>>

Superseded(s) == latest # s   \* mutant: the check is inverted

(* is_latest_offer_round *)
IsLatest(s) == latest = s

(* mutant: the fallback is tried once only *)
FallbackOnce(j) == [j EXCEPT !.op = IF j.ring = Rings THEN "mark" ELSE "ring",
                             !.ring = IF j.ring = Rings THEN Rings ELSE j.ring + 1]

(* completed_ring_index + 1: the fallback counts as the last ring, so that *)
(* it is followed by the fallback again.                                   *)
Resumed(j) == [j EXCEPT !.op = "ring",
                        !.ring = IF j.ring = Rings THEN Rings ELSE j.ring + 1]

(* wait_after_offer_round *)
WaitOver(s) ==
  /\ At(s, "wait") /\ job[s].sleep = 0
  /\ Become(s, IF Open /\ IsLatest(s) THEN Resumed(job[s]) ELSE Idle)
  /\ UNCHANGED <<row, world, events, bounds>>

-----------------------------------------------------------------------------
(* Giving up, and trying again.                                            *)

(* mark_no_driver_available, up to its checks.  A deferred search has sent *)
(* an offer within the grace time: nothing is left to do in Return.        *)
Mark(s) ==
  /\ At(s, "mark")
  /\ \/ /\ ~ Open
        /\ Leave(s)
     \/ /\ Open /\ ~ GraceElapsed
        /\ Sleep(s, "defer", OfferWait)
     \/ /\ Open /\ GraceElapsed
        /\ Goto(s, "tell")
  /\ UNCHANGED <<row, world, events, bounds>>

(* The no_driver_found event and the messages to the customer.  FAILED is  *)
(* assigned to the Python object only: the row is not saved.               *)
Tell(s) ==
  /\ At(s, "tell")
  /\ status' = "no_driver_found"
  /\ Leave(s)
  /\ UNCHANGED <<row, world, offered, latest, age, bounds>>

(* _fail_later *)
DeferOver(s) ==
  /\ At(s, "defer") /\ job[s].sleep = 0
  /\ Become(s, IF Open /\ GraceElapsed
               THEN [job[s] EXCEPT !.op = "mark", !.then = "idle"] ELSE Idle)
  /\ UNCHANGED <<row, world, events, bounds>>

(* The end of dispatch_booking. *)
Return(s) ==
  /\ At(s, "return")
  /\ Become(s, IF offered = {} THEN [Idle EXCEPT !.op = "retry", !.sleep = RetryWait]
               ELSE Idle)
  /\ UNCHANGED <<row, world, events, bounds>>

(* _retry_dispatch *)
RetryOver(s) ==
  /\ At(s, "retry") /\ job[s].sleep = 0
  /\ Become(s, IF Open /\ offered = {} THEN [Idle EXCEPT !.op = "assign"] ELSE Idle)
  /\ UNCHANGED <<row, world, events, bounds>>

-----------------------------------------------------------------------------
(* Drivers, the customer, the clock, and failures.                         *)

Accept(d) ==
  /\ Open /\ d \in offered
  /\ state' = "driver_accepted"
  /\ driver' = d
  /\ UNCHANGED <<world, events, job, bounds>>

Cancel ==
  /\ state \in {"pending_quote", "searching_driver", "driver_accepted"}
  /\ state' = "cancelled_by_customer"
  /\ UNCHANGED <<driver, world, events, job, bounds>>

Move(d, p) ==
  /\ place' = [place EXCEPT ![d] = p]
  /\ steady' = IF p = Away THEN steady \ {d} ELSE steady
  /\ UNCHANGED <<row, events, job, bounds>>

Asleep == {s \in Searches : job[s].op \in Sleeping /\ job[s].sleep > 0}

(* Sleeps end at the earliest after their ticks: a thread may wake later.  *)
Tick ==
  /\ Asleep # {} \/ age < OfferWait
  /\ age' = IF age < OfferWait THEN age + 1 ELSE age
  /\ job' = [s \in Searches |->
               IF s \in Asleep THEN [job[s] EXCEPT !.sleep = @ - 1] ELSE job[s]]
  /\ UNCHANGED <<row, world, offered, latest, status, bounds>>

(* record_trip_event lost the race for a sequence number to another event  *)
(* of the booking: the exception ends the search.                          *)
Collide(s) ==
  /\ failures < MaxFailures
  /\ At(s, "offer") \/ At(s, "tell") \/ (At(s, "assign") /\ job[s].then = "return")
  /\ Become(s, Idle)
  /\ failures' = failures + 1
  /\ UNCHANGED <<row, world, events, starts>>

(* The web process restarts: its daemon threads are gone. *)
Restart ==
  /\ failures < MaxFailures
  /\ job' = [s \in Searches |-> Idle]
  /\ failures' = failures + 1
  /\ UNCHANGED <<row, world, events, starts>>

-----------------------------------------------------------------------------
Step(s) ==
  \/ Save(s) \/ Assign(s) \/ Ring(s) \/ OfferRound(s) \/ WaitOver(s)
  \/ Mark(s) \/ Tell(s) \/ DeferOver(s) \/ Return(s) \/ RetryOver(s)
  \/ \E d \in Drivers : Offer(s, d)

Next ==
  \/ \E s \in Searches : Step(s)
  \/ \E s \in Searches : Trigger(s) \/ Reassign(s) \/ Collide(s)
  \/ \E d \in Drivers : Accept(d)
  \/ \E d \in Drivers : \E p \in Place \ {place[d]} : Move(d, p)
  \/ Cancel \/ Tick \/ Restart

Spec == Init /\ [][Next]_vars

(* Threads are scheduled and time passes; nobody has to accept, cancel,    *)
(* move or trigger.                                                        *)
FairSpec == Spec /\ WF_vars(Tick) /\ \A s \in Searches : WF_vars(Step(s))

-----------------------------------------------------------------------------
(* Properties.                                                             *)

(* The customer is told that there is no driver only after every driver    *)
(* who was there all along has been sent an offer, wherever they drove     *)
(* meanwhile, whichever filter they pass, however many searches ran and    *)
(* failed: the rings, the batches and the repeated fallback leave nobody   *)
(* out (dispatch/tasks.py:72-121).                                         *)
Told == status = "no_driver_found"
ToldAfterEveryone == Told => steady \subseteq offered

(* With one search at a time, nobody is sent the same offer twice, even    *)
(* when a restart cut the previous search short                            *)
(* (dispatch/services.py:293, tasks.py:74).                                *)
OfferedOnce ==
  [][\A s \in Searches, d \in Drivers : Offer(s, d) => d \notin offered]_vars

(* With one search at a time, the customer is not told so while a driver   *)
(* still has time to accept, even an offer made by a search that was lost  *)
(* (dispatch/services.py:224).                                             *)
NotFailedEarly == [][Told' /\ ~ Told => age = OfferWait]_vars

(* A booking that searches does not stay so for ever: a driver gets it, it *)
(* is cancelled, or the customer is told, unless threads are lost.  Of the *)
(* searches that run at once, the one that goes on is never the one that   *)
(* died of the other's round (dispatch/tasks.py:118, services.py:258).     *)
Resolves == (Open /\ failures = 0) ~> (~ Open \/ Told \/ failures > 0)

(* What the event no_driver_found says (services.py:270-276, to_state      *)
(* FAILED) and VALID_TRANSITIONS makes final: once the search has failed   *)
(* no driver accepts the booking.                                          *)
FailedIsFinal == Told => state # "driver_accepted"
=============================================================================
