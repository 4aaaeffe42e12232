------------------------------- MODULE Money -------------------------------
(***************************************************************************)
(* What a trip does to the driver's wallet: settlement at completion and   *)
(* at payment (apps/wallets, apps/payments, the end of                     *)
(* transition_booking_state), commission-free rides (apps/incentives) and  *)
(* payouts (apps/payouts).                                                 *)
(*                                                                         *)
(* A settlement reads the use of the offer, locks the wallet row, and      *)
(* posts an entry in one transaction; a payout request runs without        *)
(* transaction or lock.  Payment webhooks arrive at any time and any       *)
(* number of times.                                                        *)
(***************************************************************************)
EXTENDS Integers, FiniteSets, Sequences

CONSTANTS
  Trips, Drivers, Workers, Payouts,
  NoDriver, NoTrip, NoPayout, NoWorker,
  Withdrawing,   \* drivers who ask for payouts
  Estimate,      \* estimated_fare of a trip
  Toll,          \* what a driver may claim on top of it
  Commission,    \* the platform's part of a fare, outside the offer
  FreeRides,     \* DriverOffer.rides_count
  Amounts,       \* what drivers ask for in a payout
  MaxWebhooks    \* bound: webhook deliveries in a behaviour

ASSUME NullsAssumption ==
  /\ NoDriver \notin Drivers /\ NoTrip \notin Trips
  /\ NoPayout \notin Payouts /\ NoWorker \notin Workers
ASSUME WithdrawingAssumption == Withdrawing \subseteq Drivers
ASSUME AmountsAssumption ==
  /\ Estimate \in Nat \ {0} /\ Toll \in Nat /\ Commission \in 0 .. Estimate
  /\ FreeRides \in Nat /\ MaxWebhooks \in Nat /\ Amounts \subseteq Nat

VARIABLES
  driver,        \* Booking.driver
  fare,          \* final_fare, or estimated_fare while there is none
  completed,     \* trips a transition has completed; those that the customer's
                 \* next booking releases are never settled
  raised,        \* history: trips whose settlement at completion has raised
  paid,          \* trips with a Payment of status success
  balance,       \* Wallet.current_balance
  withdrawable,  \* Wallet.withdrawable_balance
  ledger,        \* WalletTransaction rows of each wallet, in order
  usage,         \* DriverOfferUsage rows
  payout,        \* Payout rows
  lock,          \* the worker holding SELECT ... FOR UPDATE on a wallet
  job,           \* what each worker does next, and what it has read
  webhooks       \* deliveries so far

vars == <<driver, fare, completed, paid, raised, balance, withdrawable, ledger, usage,
          payout, lock, job, webhooks>>
trip   == <<driver, fare, completed, paid, raised>>
wallet == <<balance, withdrawable>>
books  == <<ledger, usage>>

GatewayMethod == {"upi", "netbanking"}   \* "card" goes the way of "upi"
Method        == GatewayMethod \cup {"online", "cash"}
OnlineMethod  == {"online", "upi"}

(* reference_id: one per trip and kind of settlement; a payout's is new.   *)
Reference == [kind : {"trip_credit", "trip_cod_commission"}, of : Trips]
             \cup [kind : {"payout_req"}, of : Payouts]

Entry == [ref : Reference, before : Int, after : Int, ride : Nat]

(* "decided": approved, rejected or processed, which nobody looks at.      *)
PayoutRow == [d : Drivers \cup {NoDriver}, amount : Nat,
              status : {"none", "requested", "decided"}]

Op == {"idle", "pay", "complete", "fare", "method", "settle", "lock", "post",
       "insert", "entry", "save"}

(* A settlement of trip t for driver d: the fare and method it goes by,    *)
(* the free ride's number (0: none), the balance read under the lock.  A   *)
(* payout p of an amount to d: the balances read at its start.             *)
Job == [op : Op, t : Trips \cup {NoTrip}, d : Drivers \cup {NoDriver},
        fare : Nat, method : Method, ride : Nat, before : Int, left : Int,
        p : Payouts \cup {NoPayout}, amount : Nat]

Idle == [op |-> "idle", t |-> NoTrip, d |-> NoDriver, fare |-> 0, method |-> "cash",
         ride |-> 0, before |-> 0, left |-> 0, p |-> NoPayout, amount |-> 0]

TypeOK ==
  /\ driver \in [Trips -> Drivers \cup {NoDriver}]
  /\ fare \in [Trips -> Nat]
  /\ completed \subseteq Trips
  /\ paid \subseteq Trips
  /\ raised \subseteq Trips
  /\ balance \in [Drivers -> Int]
  /\ withdrawable \in [Drivers -> Int]
  /\ ledger \in [Drivers -> Seq(Entry)]
  /\ usage \subseteq [t : Trips, d : Drivers, number : Nat]
  /\ payout \in [Payouts -> PayoutRow]
  /\ lock \in [Drivers -> Workers \cup {NoWorker}]
  /\ job \in [Workers -> Job]
  /\ webhooks \in 0 .. MaxWebhooks

Init ==
  /\ driver = [t \in Trips |-> NoDriver]
  /\ fare = [t \in Trips |-> Estimate]
  /\ completed = {}
  /\ paid = {}
  /\ raised = {}
  /\ balance = [d \in Drivers |-> 0]
  /\ withdrawable = [d \in Drivers |-> 0]
  /\ ledger = [d \in Drivers |-> <<>>]
  /\ usage = {}
  /\ payout = [p \in Payouts |-> [d |-> NoDriver, amount |-> 0, status |-> "none"]]
  /\ lock = [d \in Drivers |-> NoWorker]
  /\ job = [w \in Workers |-> Idle]
  /\ webhooks = 0

-----------------------------------------------------------------------------
At(w, op)    == job[w].op = op
Become(w, j) == job' = [job EXCEPT ![w] = j]
Finish(w)    == Become(w, Idle)

IgnoresLock(d) == TRUE  \* mutant: select_for_update dropped

(* A writer of the wallet row, and an insert that references it, wait.     *)
Unlocked(d) == lock[d] = NoWorker

Ref(j) ==
  [kind |-> IF j.method \in OnlineMethod THEN "trip_credit" ELSE "trip_cod_commission",
   of   |-> j.t]

FreshReference(r) == TRUE  \* mutant: a new reference for every settlement

RefFree(r) ==
  \A d \in Drivers : \A i \in 1 .. Len(ledger[d]) : ledger[d][i].ref # r

(* The rate of the offer is its default, 0. *)
Due(j)    == IF j.ride > 0 THEN 0 ELSE Commission
Earned(j) == j.fare - Due(j)

-----------------------------------------------------------------------------
(* Where trips come from (module Bookings).                                *)

Accept(t, d) ==
  /\ driver[t] = NoDriver /\ t \notin completed
  /\ driver' = [driver EXCEPT ![t] = d]
  /\ UNCHANGED <<fare, completed, paid, raised, wallet, books, payout, lock, job, webhooks>>

(* The admin's reassign takes back a trip in any state. *)
Reassign(t) ==
  /\ driver' = [driver EXCEPT ![t] = NoDriver]
  /\ completed' = completed \ {t}
  /\ UNCHANGED <<fare, paid, raised, wallet, books, payout, lock, job, webhooks>>

(* RazorpayWebhookView.post reads the booking.                             *)
Webhook(w, t, method) ==
  /\ At(w, "idle") /\ webhooks < MaxWebhooks
  /\ webhooks' = webhooks + 1
  /\ Become(w, [Idle EXCEPT !.op = "pay", !.t = t, !.d = driver[t],
                            !.fare = fare[t], !.method = method])
  /\ UNCHANGED <<trip, wallet, books, payout, lock>>

(* record_successful_booking_payment: the payment is stored under the      *)
(* gateway's id, new or not, then settled.                                 *)
Pay(w) ==
  /\ At(w, "pay")
  /\ paid' = paid \cup {job[w].t}
  /\ Become(w, [job[w] EXCEPT !.op = "settle"])
  /\ UNCHANGED <<driver, fare, completed, raised, wallet, books, payout, lock, webhooks>>

(* transition_booking_state to completed: the row is read, then saved, so  *)
(* that a second request may pass its check meanwhile.  It does not ask    *)
(* for a driver: one may have been taken off the row by a reassignment.    *)
StartComplete(w, t) ==
  /\ At(w, "idle") /\ t \notin completed
  /\ Become(w, [Idle EXCEPT !.op = "complete", !.t = t, !.d = driver[t],
                            !.fare = fare[t]])
  /\ UNCHANGED <<trip, wallet, books, payout, lock, webhooks>>

(* A row read without its driver is completed, and that is all. *)
Complete(w) ==
  /\ At(w, "complete")
  /\ completed' = completed \cup {job[w].t}
  /\ Become(w, IF job[w].d = NoDriver THEN Idle ELSE [job[w] EXCEPT !.op = "fare"])
  /\ UNCHANGED <<driver, fare, paid, raised, wallet, books, payout, lock, webhooks>>

(* The driver may claim a toll on top of the estimate.  Without a claim    *)
(* the fare read at the start is saved as the final one.                   *)
ClaimFare(w) ==
  /\ At(w, "fare")
  /\ \E f \in {job[w].fare, Estimate + Toll} :
       /\ fare' = [fare EXCEPT ![job[w].t] = f]
       /\ Become(w, [job[w] EXCEPT !.op = "method", !.fare = f])
  /\ UNCHANGED <<driver, completed, paid, raised, wallet, books, payout, lock, webhooks>>

Settlement(j, method) == [j EXCEPT !.op = "settle", !.method = method]

(* mutant: a trip that is paid is taken for settled *)
PaidIsSettled(j, method) == IF j.t \in paid THEN Idle ELSE Settlement(j, method)

(* An earlier payment makes it online; else what the driver's app says.    *)
Concluded(j, method) == Settlement(j, IF j.t \in paid THEN "online" ELSE method)

ChooseMethod(w, method) ==
  /\ At(w, "method")
  /\ Become(w, Concluded(job[w], method))
  /\ UNCHANGED <<trip, wallet, books, payout, lock, webhooks>>

-----------------------------------------------------------------------------
(* record_trip_wallet_settlement                                           *)

Settling == {"fare", "method", "settle", "lock", "post"}

(* An error between the saved state, or the stored payment, and the entry  *)
(* rolls the transaction back and is logged; nobody tries again.           *)
SettlementRaises(w) ==
  /\ job[w].op \in Settling
  /\ raised' = IF job[w].method \in GatewayMethod THEN raised ELSE raised \cup {job[w].t}
  /\ lock' = IF At(w, "post") THEN [lock EXCEPT ![job[w].d] = NoWorker] ELSE lock
  /\ Finish(w)
  /\ UNCHANGED <<driver, fare, completed, paid, wallet, books, payout, webhooks>>

Used(d) == Cardinality({u \in usage : u.d = d})

(* The use of the offer is counted before the wallet is locked.            *)
SettleRead(w) ==
  LET d == job[w].d IN
  /\ At(w, "settle")
  /\ Become(w, IF d = NoDriver THEN Idle
               ELSE [job[w] EXCEPT !.op = "lock",
                                   !.ride = IF Used(d) < FreeRides THEN Used(d) + 1 ELSE 0])
  /\ UNCHANGED <<trip, wallet, books, payout, lock, webhooks>>

(* Under the row lock: has the trip been settled this way already? *)
SettleLock(w) ==
  LET j == job[w] IN
  /\ At(w, "lock") /\ Unlocked(j.d)
  /\ \/ /\ RefFree(Ref(j))
        /\ lock' = [lock EXCEPT ![j.d] = w]
        /\ Become(w, [j EXCEPT !.op = "post", !.before = balance[j.d]])
     \/ /\ ~ RefFree(Ref(j))
        /\ Finish(w)
        /\ UNCHANGED lock
  /\ UNCHANGED <<trip, wallet, books, payout, webhooks>>

Change(j) == IF j.method \in OnlineMethod THEN Earned(j) ELSE 0 - Due(j)

NoUsage(j) == usage  \* mutant: the redemption is not recorded

(* DriverOfferUsage.get_or_create: unique per offer and booking. *)
Redeemed(j) ==
  IF j.ride > 0 /\ \A u \in usage : u.t # j.t
  THEN usage \cup {[t |-> j.t, d |-> j.d, number |-> j.ride]}
  ELSE usage

(* One transaction; it is rolled back when another wallet's settlement has *)
(* taken the reference.                                                    *)
SettlePost(w) ==
  LET j == job[w] IN
  /\ At(w, "post")
  /\ lock' = [lock EXCEPT ![j.d] = NoWorker]
  /\ Finish(w)
  /\ \/ /\ RefFree(Ref(j))
        /\ balance' = [balance EXCEPT ![j.d] = j.before + Change(j)]
        /\ withdrawable' = [withdrawable EXCEPT ![j.d] =
                              IF j.method \in OnlineMethod THEN @ + Earned(j) ELSE @]
        /\ ledger' = [ledger EXCEPT ![j.d] =
             Append(@, [ref |-> Ref(j), before |-> j.before,
                        after |-> j.before + Change(j), ride |-> j.ride])]
        /\ usage' = Redeemed(j)
     \/ /\ ~ RefFree(Ref(j))
        /\ UNCHANGED <<wallet, books>>
  /\ UNCHANGED <<trip, payout, webhooks>>

-----------------------------------------------------------------------------
(* PayoutViewSet: four statements, each on its own.                        *)

PayoutRead(w, d, p, amount) ==
  /\ At(w, "idle") /\ d \in Withdrawing /\ payout[p].status = "none"
  /\ \A v \in Workers : job[v].p # p
  /\ amount <= withdrawable[d]
  /\ Become(w, [Idle EXCEPT !.op = "insert", !.d = d, !.p = p, !.amount = amount,
                            !.before = balance[d], !.left = withdrawable[d]])
  /\ UNCHANGED <<trip, wallet, books, payout, lock, webhooks>>

PayoutInsert(w) ==
  LET j == job[w] IN
  /\ At(w, "insert") /\ Unlocked(j.d)
  /\ payout' = [payout EXCEPT ![j.p] =
                  [d |-> j.d, amount |-> j.amount, status |-> "requested"]]
  /\ Become(w, [j EXCEPT !.op = "entry"])
  /\ UNCHANGED <<trip, wallet, books, lock, webhooks>>

PayoutEntry(w) ==
  LET j == job[w] IN
  /\ At(w, "entry") /\ Unlocked(j.d)
  /\ ledger' = [ledger EXCEPT ![j.d] =
       Append(@, [ref |-> [kind |-> "payout_req", of |-> j.p], before |-> j.before,
                  after |-> j.before - j.amount, ride |-> 0])]
  /\ Become(w, [j EXCEPT !.op = "save"])
  /\ UNCHANGED <<trip, wallet, usage, payout, lock, webhooks>>

(* The balances are saved as computed from those read at the start.        *)
PayoutSave(w) ==
  LET j == job[w] IN
  /\ At(w, "save") /\ Unlocked(j.d)
  /\ balance' = [balance EXCEPT ![j.d] = j.before - j.amount]
  /\ withdrawable' = [withdrawable EXCEPT ![j.d] = j.left - j.amount]
  /\ Finish(w)
  /\ UNCHANGED <<trip, books, payout, lock, webhooks>>

(* The admin's update_status: the wallet is not touched. *)
UpdateStatus(p, status) ==
  /\ payout[p].status \notin {"none", status}
  /\ payout' = [payout EXCEPT ![p].status = status]
  /\ UNCHANGED <<trip, wallet, books, lock, job, webhooks>>

-----------------------------------------------------------------------------
Step(w) ==
  \/ Pay(w) \/ Complete(w) \/ ClaimFare(w) \/ SettleRead(w) \/ SettleLock(w) \/ SettlePost(w)
  \/ PayoutInsert(w) \/ PayoutEntry(w) \/ PayoutSave(w)
  \/ \E method \in {"online", "cash"} : ChooseMethod(w, method)

Next ==
  \/ \E w \in Workers : Step(w) \/ SettlementRaises(w)
  \/ \E w \in Workers, t \in Trips : StartComplete(w, t)
  \/ \E w \in Workers, t \in Trips, method \in GatewayMethod : Webhook(w, t, method)
  \/ \E w \in Workers, d \in Drivers, p \in Payouts, amount \in Amounts :
       PayoutRead(w, d, p, amount)
  \/ \E p \in Payouts, status \in {"requested", "decided"} : UpdateStatus(p, status)
  \/ \E t \in Trips : Reassign(t) \/ \E d \in Drivers : Accept(t, d)

Spec == Init /\ [][Next]_vars

(* A handler that has started runs to its end. *)
FairSpec == Spec /\ \A w \in Workers : WF_vars(Step(w))

-----------------------------------------------------------------------------
(* Properties.                                                             *)

(* A trip is credited once and its commission debited once, however often  *)
(* and at once the webhook is delivered, the completion is sent and the    *)
(* trip changes drivers (wallets/services.py:116-133, reference_id unique).*)
OneEntryPerReference ==
  \A d, e \in Drivers :
    \A i \in 1 .. Len(ledger[d]), k \in 1 .. Len(ledger[e]) :
      ledger[d][i].ref = ledger[e][k].ref => d = e /\ i = k

(* The entries of a wallet continue one another, and its balance is what   *)
(* the last one says: no settlement is lost (wallets/services.py:111-163). *)
(* Of drivers who ask for no payouts, which are not under the lock.        *)
Closing(d, i) == IF i = 0 THEN 0 ELSE ledger[d][i].after
LedgerMatches ==
  \A d \in Drivers \ Withdrawing :
    /\ \A i \in 1 .. Len(ledger[d]) : ledger[d][i].before = Closing(d, i - 1)
    /\ balance[d] = Closing(d, Len(ledger[d]))

(* A ride was free of commission if and only if its use of the offer was   *)
(* recorded (wallets/services.py:166-177).                                 *)
FreeIsRecorded ==
  {u.t : u \in usage} =
  UNION {{ledger[d][i].ref.of : i \in {k \in 1 .. Len(ledger[d]) : ledger[d][k].ride > 0}}
           : d \in Drivers}

(* A trip that a handler has completed for a driver is settled in the end, *)
(* one way or the other, in the wallet of a driver it had, whatever        *)
(* payments, other completions and reassignments do meanwhile, unless the  *)
(* settlement of a completion has raised (bookings/services.py:285-316).   *)
(* A completion that read the row without a driver promises nothing.       *)
SettledAs(t, kind) == ~ RefFree([kind |-> kind, of |-> t])
HasCompleted(t) == \E w \in Workers : At(w, "fare") /\ job[w].t = t
CompletedIsSettled ==
  \A t \in Trips :
    HasCompleted(t) ~> \/ SettledAs(t, "trip_credit") \/ SettledAs(t, "trip_cod_commission")
                      \/ t \in raised

(* What wallets/services.py:26-35 tells apart: the money of a trip came to *)
(* the company or to the driver, so a trip is not settled both ways.       *)
SettledOneWay ==
  \A t \in Trips : ~ (SettledAs(t, "trip_credit") /\ SettledAs(t, "trip_cod_commission"))

(* What payouts/api.py:47-52 refuses: a payout is paid from a balance that *)
(* does not cover it.                                                      *)
PayoutCovered ==
  [][\A w \in Workers : PayoutSave(w) => job[w].amount <= withdrawable[job[w].d]]_vars

=============================================================================
