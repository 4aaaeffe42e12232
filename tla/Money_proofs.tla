---------------------------- MODULE Money_proofs ----------------------------
(***************************************************************************)
(* Theorems about module Money, for any number of trips, wallets, workers, *)
(* payouts and webhooks, and any fares and commission.                     *)
(***************************************************************************)
EXTENDS Money, FiniteSetTheorems, TLAPS

(* What a job needs for its operation is set. *)
WellFormed(j) ==
  /\ j \in Job
  /\ j.op \in {"pay", "complete", "fare", "method", "settle", "lock", "post"} => j.t \in Trips
  /\ j.op \in {"fare", "method", "lock", "post"} => j.d \in Drivers
  /\ j.op \in {"insert", "entry", "save"} => j.d \in Withdrawing /\ j.p \in Payouts
  /\ j.op \notin {"insert", "entry", "save"} => j.p = NoPayout

JobsOK == \A w \in Workers : WellFormed(job[w])

BaseInv == TypeOK /\ JobsOK

LEMMA IdleOK == WellFormed(Idle)
BY DEF WellFormed, Idle, Job, Op, Method, GatewayMethod

LEMMA OtherJobs ==
  ASSUME BaseInv, NEW w \in Workers, NEW j, WellFormed(j), Become(w, j)
  PROVE  JobsOK' /\ job' \in [Workers -> Job]
<1>1. job' \in [Workers -> Job]
  BY DEF BaseInv, TypeOK, Become, WellFormed
<1>2. ASSUME NEW v \in Workers  PROVE WellFormed(job'[v])
  <2>1. job'[v] = IF v = w THEN j ELSE job[v]
    BY DEF BaseInv, TypeOK, Become
  <2> QED  BY <2>1 DEF BaseInv, JobsOK
<1> QED  BY <1>1, <1>2 DEF JobsOK

LEMMA BaseInit == Init => BaseInv
<1> SUFFICES ASSUME Init  PROVE BaseInv
  OBVIOUS
<1>1. JobsOK /\ job \in [Workers -> Job]
  BY IdleOK DEF Init, JobsOK, WellFormed
<1>2. payout \in [Payouts -> PayoutRow]
  BY DEF Init, PayoutRow
<1> QED  BY <1>1, <1>2, AmountsAssumption DEF BaseInv, TypeOK, Init

(* The amounts of a settlement are integers. *)
LEMMA ChangeTyped ==
  ASSUME NEW j \in Job
  PROVE  Earned(j) \in Int /\ Change(j) \in Int
BY AmountsAssumption DEF Earned, Change, Due, Job

LEMMA RefTyped ==
  ASSUME NEW j \in Job, j.t \in Trips
  PROVE  Ref(j) \in Reference
BY DEF Ref, Reference

(* Uses of the offer are recorded one at a time, so they can be counted.   *)
LEMMA FiniteNext ==
  ASSUME IsFiniteSet(usage), [Next]_vars
  PROVE  IsFiniteSet(usage')
<1>1. CASE UNCHANGED usage
  BY <1>1
<1>2. ASSUME NEW w \in Workers, SettlePost(w), usage' # usage
      PROVE  IsFiniteSet(usage')
  <2>1. usage' = usage \cup {[t |-> job[w].t, d |-> job[w].d, number |-> job[w].ride]}
    BY <1>2 DEF SettlePost, Redeemed, books
  <2> QED  BY <2>1, FS_AddElement
<1> QED
  BY <1>1, <1>2
  DEF Next, Step, vars, books, Complete, ClaimFare, ChooseMethod, SettleRead, SettleLock,
      PayoutInsert, PayoutEntry, PayoutSave, StartComplete, Webhook, Pay, PayoutRead,
      UpdateStatus, Accept, Reassign, SettlementRaises

LEMMA UsedNat ==
  ASSUME IsFiniteSet(usage), NEW d
  PROVE  Used(d) \in Nat
<1>1. IsFiniteSet({u \in usage : u.d = d})
  BY FS_Subset
<1> QED  BY <1>1, FS_CardinalityType DEF Used

(* What a settlement and a payout write to the ledger. *)
Posting(j) ==
  [ref |-> Ref(j), before |-> j.before, after |-> j.before + Change(j), ride |-> j.ride]

Withdrawal(j) ==
  [ref |-> [kind |-> "payout_req", of |-> j.p], before |-> j.before,
   after |-> j.before - j.amount, ride |-> 0]

LEMMA BaseStep ==
  ASSUME BaseInv, IsFiniteSet(usage), NEW w \in Workers, Step(w)
  PROVE  BaseInv'
<1> USE AmountsAssumption
<1>j. WellFormed(job[w]) /\ job[w] \in Job
  BY DEF BaseInv, JobsOK, TypeOK
<1>1. CASE Complete(w)
  <2>1. job[w].d # NoDriver => WellFormed([job[w] EXCEPT !.op = "fare"])
    BY <1>1, <1>j DEF Complete, At, WellFormed, Job, Op
  <2>2. JobsOK' /\ job' \in [Workers -> Job]
    BY <1>1, <2>1, IdleOK, OtherJobs DEF Complete
  <2> QED  BY <1>1, <1>j, <2>2 DEF Complete, At, WellFormed, BaseInv, TypeOK, wallet, books
<1>2. CASE ClaimFare(w)
  <2>1. PICK f \in {job[w].fare, Estimate + Toll} :
          /\ fare' = [fare EXCEPT ![job[w].t] = f]
          /\ Become(w, [job[w] EXCEPT !.op = "method", !.fare = f])
    BY <1>2 DEF ClaimFare
  <2>2. job[w].t \in Trips /\ f \in Nat
    BY <1>2, <1>j, <2>1 DEF ClaimFare, At, WellFormed, Job
  <2>3. WellFormed([job[w] EXCEPT !.op = "method", !.fare = f])
    BY <1>2, <1>j, <2>2 DEF ClaimFare, At, WellFormed, Job, Op
  <2>4. JobsOK' /\ job' \in [Workers -> Job]
    BY <2>1, <2>3, OtherJobs
  <2> QED  BY <1>2, <2>1, <2>2, <2>4 DEF ClaimFare, BaseInv, TypeOK, wallet, books
<1>3. ASSUME NEW method \in {"online", "cash"}, ChooseMethod(w, method)
      PROVE  BaseInv'
  <2>1. WellFormed(Concluded(job[w], method))
    BY <1>3, <1>j DEF ChooseMethod, Concluded, Settlement, At, WellFormed, Job, Op, Method
  <2>2. JobsOK' /\ job' \in [Workers -> Job]
    BY <1>3, <2>1, OtherJobs DEF ChooseMethod
  <2> QED  BY <1>3, <2>2 DEF ChooseMethod, BaseInv, TypeOK, trip, wallet, books
<1>4. CASE SettleRead(w)
  <2> DEFINE d == job[w].d
             ride == IF Used(d) < FreeRides THEN Used(d) + 1 ELSE 0
  <2>1. CASE d = NoDriver
    <3>1. JobsOK' /\ job' \in [Workers -> Job]
      BY <1>4, <2>1, IdleOK, OtherJobs DEF SettleRead
    <3> QED  BY <1>4, <3>1 DEF SettleRead, BaseInv, TypeOK, trip, wallet, books
  <2>2. CASE d # NoDriver
    <3>1. ride \in Nat
      BY UsedNat
    <3>2. WellFormed([job[w] EXCEPT !.op = "lock", !.ride = ride])
      <4> HIDE DEF ride
      <4> QED  BY <1>4, <1>j, <2>2, <3>1 DEF SettleRead, At, WellFormed, Job, Op
    <3>3. JobsOK' /\ job' \in [Workers -> Job]
      BY <1>4, <2>2, <3>2, OtherJobs DEF SettleRead
    <3> QED  BY <1>4, <3>3 DEF SettleRead, BaseInv, TypeOK, trip, wallet, books
  <2> QED  BY <2>1, <2>2
<1>5. CASE SettleLock(w)
  <2>1. CASE /\ RefFree(Ref(job[w]))
             /\ lock' = [lock EXCEPT ![job[w].d] = w]
             /\ Become(w, [job[w] EXCEPT !.op = "post", !.before = balance[job[w].d]])
    <3>1. WellFormed([job[w] EXCEPT !.op = "post", !.before = balance[job[w].d]])
      <4>1. balance[job[w].d] \in Int
        BY <1>5, <1>j DEF SettleLock, At, WellFormed, BaseInv, TypeOK
      <4> QED  BY <1>5, <1>j, <4>1 DEF SettleLock, At, WellFormed, Job, Op
    <3>2. JobsOK' /\ job' \in [Workers -> Job]
      BY <2>1, <3>1, OtherJobs
    <3> QED  BY <1>5, <2>1, <3>2 DEF SettleLock, BaseInv, TypeOK, trip, wallet, books
  <2>2. CASE Finish(w) /\ UNCHANGED lock
    <3>1. JobsOK' /\ job' \in [Workers -> Job]
      BY <2>2, IdleOK, OtherJobs DEF Finish
    <3> QED  BY <1>5, <2>2, <3>1 DEF SettleLock, BaseInv, TypeOK, trip, wallet, books
  <2> QED  BY <1>5, <2>1, <2>2 DEF SettleLock
<1>6. CASE SettlePost(w)
  <2>1. JobsOK' /\ job' \in [Workers -> Job]
    BY <1>6, IdleOK, OtherJobs DEF SettlePost, Finish
  <2>2. lock' \in [Drivers -> Workers \cup {NoWorker}]
    BY <1>6 DEF SettlePost, BaseInv, TypeOK
  <2>3. PICK j : j = job[w]
    OBVIOUS
  <2>4. j \in Job /\ j.t \in Trips /\ j.d \in Drivers /\ j.before \in Int /\ j.ride \in Nat
    BY <1>6, <1>j, <2>3 DEF SettlePost, At, WellFormed, Job
  <2>5. Earned(j) \in Int /\ Change(j) \in Int /\ Ref(j) \in Reference
    BY <2>4, ChangeTyped, RefTyped
  <2>6. CASE UNCHANGED <<wallet, books>>
    BY <1>6, <2>1, <2>2, <2>6 DEF SettlePost, BaseInv, TypeOK, trip, wallet, books
  <2>7. CASE /\ balance' = [balance EXCEPT ![j.d] = j.before + Change(j)]
             /\ withdrawable' = [withdrawable EXCEPT ![j.d] =
                                   IF j.method \in OnlineMethod THEN @ + Earned(j) ELSE @]
             /\ ledger' = [ledger EXCEPT ![j.d] = Append(@, Posting(j))]
             /\ usage' = Redeemed(j)
    <3>1. balance' \in [Drivers -> Int] /\ withdrawable' \in [Drivers -> Int]
      <4>1. balance \in [Drivers -> Int] /\ withdrawable \in [Drivers -> Int]
        BY DEF BaseInv, TypeOK
      <4>2. j.before + Change(j) \in Int /\ withdrawable[j.d] + Earned(j) \in Int
        BY <2>4, <2>5, <4>1
      <4>3. balance' \in [Drivers -> Int]
        BY <2>7, <4>1, <4>2
      <4>4. withdrawable' \in [Drivers -> Int]
        <5>1. CASE j.method \in OnlineMethod
          BY <2>7, <4>1, <4>2, <5>1
        <5>2. CASE j.method \notin OnlineMethod
          BY <2>7, <4>1, <5>2
        <5> QED  BY <5>1, <5>2
      <4> QED  BY <4>3, <4>4
    <3>2. ledger' \in [Drivers -> Seq(Entry)]
      <4>1. Posting(j) \in Entry
        BY <2>4, <2>5 DEF Posting, Entry
      <4>2. ledger[j.d] \in Seq(Entry)
        BY <2>4 DEF BaseInv, TypeOK
      <4>3. Append(ledger[j.d], Posting(j)) \in Seq(Entry)
        BY <4>1, <4>2
      <4> QED  BY <2>4, <2>7, <4>3 DEF BaseInv, TypeOK
    <3>3. usage' \subseteq [t : Trips, d : Drivers, number : Nat]
      BY <2>4, <2>7 DEF Redeemed, BaseInv, TypeOK
    <3> QED  BY <1>6, <2>1, <2>2, <3>1, <3>2, <3>3 DEF SettlePost, BaseInv, TypeOK, trip
  <2> QED  BY <1>6, <2>3, <2>6, <2>7 DEF SettlePost, Posting
<1>7. CASE PayoutInsert(w)
  <2>1. WellFormed([job[w] EXCEPT !.op = "entry"])
    BY <1>7, <1>j DEF PayoutInsert, At, WellFormed, Job, Op
  <2>2. JobsOK' /\ job' \in [Workers -> Job]
    BY <1>7, <2>1, OtherJobs DEF PayoutInsert
  <2>3. job[w].d \in Drivers /\ job[w].amount \in Nat
    BY <1>7, <1>j, WithdrawingAssumption DEF PayoutInsert, At, WellFormed, Job
  <2>4. [d |-> job[w].d, amount |-> job[w].amount, status |-> "requested"] \in PayoutRow
    BY <2>3 DEF PayoutRow
  <2> QED  BY <1>7, <2>2, <2>4 DEF PayoutInsert, BaseInv, TypeOK, trip, wallet, books
<1>8. CASE PayoutEntry(w)
  <2>1. WellFormed([job[w] EXCEPT !.op = "save"])
    BY <1>8, <1>j DEF PayoutEntry, At, WellFormed, Job, Op
  <2>2. JobsOK' /\ job' \in [Workers -> Job]
    BY <1>8, <2>1, OtherJobs DEF PayoutEntry
  <2>3. PICK j : j = job[w]
    OBVIOUS
  <2>4. j.d \in Drivers /\ j.p \in Payouts /\ j.before \in Int /\ j.amount \in Nat
    BY <1>8, <1>j, <2>3, WithdrawingAssumption DEF PayoutEntry, At, WellFormed, Job
  <2>5. Withdrawal(j) \in Entry
    <3>1. j.before - j.amount \in Int
      BY <2>4
    <3> QED  BY <2>4, <3>1 DEF Withdrawal, Entry, Reference
  <2>6. ledger' \in [Drivers -> Seq(Entry)]
    <3>1. ledger[j.d] \in Seq(Entry)
      BY <2>4 DEF BaseInv, TypeOK
    <3>2. Append(ledger[j.d], Withdrawal(j)) \in Seq(Entry)
      BY <2>5, <3>1
    <3>3. ledger' = [ledger EXCEPT ![j.d] = Append(ledger[j.d], Withdrawal(j))]
      BY <1>8, <2>3 DEF PayoutEntry, Withdrawal
    <3> QED  BY <2>4, <3>2, <3>3 DEF BaseInv, TypeOK
  <2> QED  BY <1>8, <2>2, <2>6 DEF PayoutEntry, BaseInv, TypeOK, trip, wallet
<1>9. CASE PayoutSave(w)
  <2>1. JobsOK' /\ job' \in [Workers -> Job]
    BY <1>9, IdleOK, OtherJobs DEF PayoutSave, Finish
  <2>2. /\ job[w].d \in Drivers /\ job[w].before \in Int
        /\ job[w].left \in Int /\ job[w].amount \in Nat
    BY <1>9, <1>j, WithdrawingAssumption DEF PayoutSave, At, WellFormed, Job
  <2>3. balance' \in [Drivers -> Int] /\ withdrawable' \in [Drivers -> Int]
    BY <1>9, <2>2 DEF PayoutSave, BaseInv, TypeOK
  <2> QED  BY <1>9, <2>1, <2>3 DEF PayoutSave, BaseInv, TypeOK, trip, books
<1>10. CASE Pay(w)
  <2>1. WellFormed([job[w] EXCEPT !.op = "settle"])
    BY <1>10, <1>j DEF Pay, At, WellFormed, Job, Op
  <2>2. JobsOK' /\ job' \in [Workers -> Job]
    BY <1>10, <2>1, OtherJobs DEF Pay
  <2> QED  BY <1>10, <1>j, <2>2 DEF Pay, At, WellFormed, BaseInv, TypeOK, wallet, books
<1> QED
  BY <1>1, <1>2, <1>3, <1>4, <1>5, <1>6, <1>7, <1>8, <1>9, <1>10 DEF Step

LEMMA BaseNext ==
  ASSUME BaseInv, IsFiniteSet(usage), [Next]_vars
  PROVE  BaseInv'
<1>1. ASSUME NEW w \in Workers, Step(w)  PROVE BaseInv'
  BY <1>1, BaseStep
<1>2. ASSUME NEW w \in Workers, NEW t \in Trips, StartComplete(w, t)  PROVE BaseInv'
  <2>1. driver[t] \in Drivers \cup {NoDriver} /\ fare[t] \in Nat
    BY <1>2 DEF BaseInv, TypeOK
  <2>2. WellFormed([Idle EXCEPT !.op = "complete", !.t = t, !.d = driver[t],
                                !.fare = fare[t]])
    BY <2>1, IdleOK DEF WellFormed, Job, Op, Idle
  <2>3. JobsOK' /\ job' \in [Workers -> Job]
    BY <1>2, <2>2, OtherJobs DEF StartComplete
  <2> QED  BY <1>2, <2>3 DEF StartComplete, BaseInv, TypeOK, trip, wallet, books
<1>3. ASSUME NEW w \in Workers, NEW t \in Trips, NEW method \in GatewayMethod,
             Webhook(w, t, method)
      PROVE  BaseInv'
  <2>1. driver[t] \in Drivers \cup {NoDriver} /\ fare[t] \in Nat
    BY DEF BaseInv, TypeOK
  <2>2. WellFormed([Idle EXCEPT !.op = "pay", !.t = t, !.d = driver[t],
                                !.fare = fare[t], !.method = method])
    BY <2>1, IdleOK DEF WellFormed, Job, Op, Idle, Method
  <2>3. JobsOK' /\ job' \in [Workers -> Job]
    BY <1>3, <2>2, OtherJobs DEF Webhook
  <2>4. webhooks' \in 0 .. MaxWebhooks
    BY <1>3, AmountsAssumption DEF Webhook, BaseInv, TypeOK
  <2> QED  BY <1>3, <2>3, <2>4 DEF Webhook, BaseInv, TypeOK, trip, wallet, books
<1>4. ASSUME NEW w \in Workers, NEW d \in Drivers, NEW p \in Payouts,
             NEW amount \in Amounts, PayoutRead(w, d, p, amount)
      PROVE  BaseInv'
  <2>1. /\ balance[d] \in Int /\ withdrawable[d] \in Int
        /\ amount \in Nat /\ d \in Withdrawing
    BY <1>4, AmountsAssumption DEF PayoutRead, BaseInv, TypeOK
  <2>2. WellFormed([Idle EXCEPT !.op = "insert", !.d = d, !.p = p, !.amount = amount,
                                !.before = balance[d], !.left = withdrawable[d]])
    BY <2>1, IdleOK DEF WellFormed, Job, Op, Idle
  <2>3. JobsOK' /\ job' \in [Workers -> Job]
    BY <1>4, <2>2, OtherJobs DEF PayoutRead
  <2> QED  BY <1>4, <2>3 DEF PayoutRead, BaseInv, TypeOK, trip, wallet, books
<1>5. ASSUME NEW p \in Payouts,
             NEW status \in {"requested", "decided"},
             UpdateStatus(p, status)
      PROVE  BaseInv'
  <2>1. payout' \in [Payouts -> PayoutRow]
    BY <1>5 DEF UpdateStatus, BaseInv, TypeOK, PayoutRow
  <2> QED  BY <1>5, <2>1 DEF UpdateStatus, BaseInv, TypeOK, JobsOK, trip, wallet, books
<1>6. ASSUME NEW t \in Trips, Reassign(t) \/ \E d \in Drivers : Accept(t, d)
      PROVE  BaseInv'
  BY <1>6 DEF Reassign, Accept, BaseInv, TypeOK, JobsOK, wallet, books
<1>7. ASSUME NEW w \in Workers, SettlementRaises(w)  PROVE BaseInv'
  <2>1. JobsOK' /\ job' \in [Workers -> Job]
    BY <1>7, IdleOK, OtherJobs DEF SettlementRaises, Finish
  <2>2. raised' \subseteq Trips
    <3>1. raised \subseteq Trips /\ job[w].t \in Trips
      BY <1>7 DEF SettlementRaises, Settling, BaseInv, TypeOK, JobsOK, WellFormed
    <3> QED  BY <1>7, <3>1 DEF SettlementRaises
  <2>3. lock' \in [Drivers -> Workers \cup {NoWorker}]
    BY <1>7 DEF SettlementRaises, BaseInv, TypeOK
  <2> QED  BY <1>7, <2>1, <2>2, <2>3 DEF SettlementRaises, BaseInv, TypeOK, wallet, books
<1>8. CASE UNCHANGED vars
  BY <1>8 DEF vars, BaseInv, TypeOK, JobsOK, trip, wallet, books
<1> QED
  BY <1>1, <1>2, <1>3, <1>4, <1>5, <1>6, <1>7, <1>8 DEF Next

(* Rows, ledgers and jobs keep their types whatever interleaves, so that a *)
(* job that posts or withdraws always has a trip, a driver, a payout.      *)
THEOREM TypeCorrect == Spec => []TypeOK
<1>1. Init => BaseInv /\ IsFiniteSet(usage)
  BY BaseInit, FS_EmptySet DEF Init
<1>2. BaseInv /\ IsFiniteSet(usage) /\ [Next]_vars => (BaseInv /\ IsFiniteSet(usage))'
  BY BaseNext, FiniteNext
<1>3. BaseInv => TypeOK
  BY DEF BaseInv
<1> QED  BY <1>1, <1>2, <1>3, PTL DEF Spec

-----------------------------------------------------------------------------
(* The wallet's row lock.                                                  *)

(* A lock is held by the settlement that posts under it, and the balance   *)
(* that one has read is still the wallet's, unless payouts change it.      *)
Held ==
  /\ \A d \in Drivers :
       lock[d] # NoWorker => job[lock[d]].op = "post" /\ job[lock[d]].d = d
  /\ \A w \in Workers : job[w].op = "post" => lock[job[w].d] = w
  /\ \A w \in Workers :
       job[w].op = "post" /\ job[w].d \notin Withdrawing => job[w].before = balance[job[w].d]

(* A step of a worker that neither posts nor is about to. *)
LEMMA HeldElsewhere ==
  ASSUME BaseInv, Held, NEW w \in Workers, NEW j, Become(w, j), UNCHANGED lock,
         job[w].op # "post", j.op # "post",
         \A d \in Drivers \ Withdrawing : balance'[d] = balance[d]
  PROVE  Held'
<1>1. \A v \in Workers : job'[v] = IF v = w THEN j ELSE job[v]
  BY DEF BaseInv, TypeOK, Become
<1>2. \A d \in Drivers : lock[d] # NoWorker => lock[d] \in Workers /\ lock[d] # w
  BY DEF BaseInv, TypeOK, Held
<1>3. \A v \in Workers : job[v].op = "post" => job[v].d \in Drivers
  BY DEF BaseInv, JobsOK, WellFormed
<1>4. \A d \in Drivers :
        lock'[d] # NoWorker => job'[lock'[d]].op = "post" /\ job'[lock'[d]].d = d
  BY <1>1, <1>2 DEF Held
<1>5. \A v \in Workers : job'[v].op = "post" => lock'[job'[v].d] = v
  BY <1>1 DEF Held
<1>6. ASSUME NEW v \in Workers, job'[v].op = "post", job'[v].d \notin Withdrawing
      PROVE  job'[v].before = balance'[job'[v].d]
  <2>1. v # w /\ job'[v] = job[v]
    BY <1>1, <1>6
  <2> QED  BY <1>3, <1>6, <2>1 DEF Held
<1> QED  BY <1>4, <1>5, <1>6 DEF Held

LEMMA HeldLocked ==
  ASSUME BaseInv, Held, NEW w \in Workers, At(w, "lock"), Unlocked(job[w].d),
         lock' = [lock EXCEPT ![job[w].d] = w],
         Become(w, [job[w] EXCEPT !.op = "post", !.before = balance[job[w].d]]),
         UNCHANGED balance
  PROVE  Held'
<1>1. job[w] \in Job /\ job[w].d \in Drivers
  BY DEF BaseInv, TypeOK, JobsOK, WellFormed, At
<1>2. /\ job'[w].op = "post" /\ job'[w].d = job[w].d
      /\ job'[w].before = balance[job[w].d]
  BY <1>1 DEF BaseInv, TypeOK, Become, Job
<1>3. \A v \in Workers : v # w => job'[v] = job[v]
  BY DEF BaseInv, TypeOK, Become
<1>4. \A d \in Drivers : lock'[d] = IF d = job[w].d THEN w ELSE lock[d]
  BY <1>1 DEF BaseInv, TypeOK
<1>5. ASSUME NEW d \in Drivers, lock'[d] # NoWorker
      PROVE  job'[lock'[d]].op = "post" /\ job'[lock'[d]].d = d
  <2>1. CASE d = job[w].d
    BY <1>2, <1>4, <2>1
  <2>2. CASE d # job[w].d
    <3>1. lock[d] \in Workers /\ lock[d] # w /\ lock'[d] = lock[d]
      BY <1>4, <1>5, <2>2 DEF BaseInv, TypeOK, Held, At
    <3> QED  BY <1>3, <1>5, <3>1 DEF Held
  <2> QED  BY <2>1, <2>2
<1>6. ASSUME NEW v \in Workers, job'[v].op = "post"
      PROVE  /\ lock'[job'[v].d] = v
             /\ job'[v].d \notin Withdrawing => job'[v].before = balance'[job'[v].d]
  <2>1. CASE v = w
    BY <1>1, <1>2, <1>4, <2>1
  <2>2. CASE v # w
    <3>1. job'[v] = job[v] /\ job[v].d \in Drivers /\ lock[job[v].d] = v
      BY <1>3, <1>6, <2>2 DEF BaseInv, JobsOK, WellFormed, Held
    <3>2. job[v].d # job[w].d
      BY <3>1, NullsAssumption DEF Unlocked
    <3> QED  BY <1>4, <1>6, <3>1, <3>2 DEF Held
  <2> QED  BY <2>1, <2>2
<1> QED  BY <1>5, <1>6 DEF Held

(* A posting that ends, done or rolled back. *)
LEMMA HeldReleased ==
  ASSUME BaseInv, Held, NEW w \in Workers, At(w, "post"), Finish(w),
         lock' = [lock EXCEPT ![job[w].d] = NoWorker],
         \A d \in Drivers : d # job[w].d => balance'[d] = balance[d]
  PROVE  Held'
<1>1. job[w].d \in Drivers /\ lock[job[w].d] = w
  BY DEF BaseInv, JobsOK, WellFormed, Held, At
<1>2. \A v \in Workers : job'[v] = IF v = w THEN Idle ELSE job[v]
  BY DEF BaseInv, TypeOK, Finish, Become
<1>3. \A d \in Drivers : lock'[d] = IF d = job[w].d THEN NoWorker ELSE lock[d]
  BY <1>1 DEF BaseInv, TypeOK
<1>4. \A d \in Drivers : d # job[w].d => balance'[d] = balance[d]
  OBVIOUS
<1>5. ASSUME NEW d \in Drivers, lock'[d] # NoWorker
      PROVE  job'[lock'[d]].op = "post" /\ job'[lock'[d]].d = d
  <2>1. d # job[w].d /\ lock'[d] = lock[d] /\ lock[d] \in Workers
    BY <1>3, <1>5 DEF BaseInv, TypeOK
  <2>2. job[lock[d]].op = "post" /\ job[lock[d]].d = d
    BY <1>5, <2>1 DEF Held
  <2>3. lock[d] # w
    BY <2>1, <2>2
  <2> QED  BY <1>2, <2>1, <2>2, <2>3
<1>6. ASSUME NEW v \in Workers, job'[v].op = "post"
      PROVE  /\ lock'[job'[v].d] = v
             /\ job'[v].d \notin Withdrawing => job'[v].before = balance'[job'[v].d]
  <2>1. v # w /\ job'[v] = job[v]
    BY <1>2, <1>6 DEF Idle
  <2>2. job[v].d \in Drivers /\ lock[job[v].d] = v
    BY <1>6, <2>1 DEF BaseInv, JobsOK, WellFormed, Held
  <2>3. job[v].d # job[w].d
    BY <1>1, <2>1, <2>2
  <2> QED  BY <1>3, <1>4, <1>6, <2>1, <2>2, <2>3 DEF Held
<1> QED  BY <1>5, <1>6 DEF Held

LEMMA IdleOp == Idle.op = "idle" /\ Idle.p = NoPayout
BY DEF Idle

LEMMA HeldNext ==
  ASSUME BaseInv, Held, [Next]_vars
  PROVE  Held'
<1>j. \A w \in Workers : job[w] \in Job
  BY DEF BaseInv, TypeOK
<1>1. ASSUME NEW w \in Workers, Complete(w)  PROVE Held'
  <2>1. [job[w] EXCEPT !.op = "fare"].op # "post"
    BY <1>j DEF Job
  <2> QED  BY <1>1, <2>1, IdleOp, HeldElsewhere DEF Complete, At, wallet
<1>2. ASSUME NEW w \in Workers, ClaimFare(w)  PROVE Held'
  <2>1. PICK f : Become(w, [job[w] EXCEPT !.op = "method", !.fare = f])
    BY <1>2 DEF ClaimFare
  <2>2. [job[w] EXCEPT !.op = "method", !.fare = f].op # "post"
    BY <1>j DEF Job
  <2> QED  BY <1>2, <2>1, <2>2, HeldElsewhere DEF ClaimFare, At, wallet
<1>3. ASSUME NEW w \in Workers, NEW method, ChooseMethod(w, method)  PROVE Held'
  <2>1. Concluded(job[w], method).op # "post"
    BY <1>j DEF Job, Concluded, Settlement
  <2> QED  BY <1>3, <2>1, HeldElsewhere DEF ChooseMethod, At, wallet
<1>4. ASSUME NEW w \in Workers, SettleRead(w)  PROVE Held'
  <2>1. PICK ride : \/ Become(w, Idle)
                    \/ Become(w, [job[w] EXCEPT !.op = "lock", !.ride = ride])
    BY <1>4 DEF SettleRead
  <2>2. [job[w] EXCEPT !.op = "lock", !.ride = ride].op # "post"
    BY <1>j DEF Job
  <2> QED  BY <1>4, <2>1, <2>2, IdleOp, HeldElsewhere DEF SettleRead, At, wallet
<1>5. ASSUME NEW w \in Workers, SettleLock(w)  PROVE Held'
  <2>1. CASE Finish(w) /\ UNCHANGED lock
    BY <1>5, <2>1, IdleOp, HeldElsewhere DEF SettleLock, At, Finish, wallet
  <2> QED  BY <1>5, <2>1, HeldLocked DEF SettleLock, wallet
<1>6. ASSUME NEW w \in Workers, SettlePost(w)  PROVE Held'
  <2>1. job[w].d \in Drivers
    BY <1>6 DEF SettlePost, At, BaseInv, JobsOK, WellFormed
  <2>2. \A d \in Drivers : d # job[w].d => balance'[d] = balance[d]
    BY <1>6, <2>1 DEF SettlePost, BaseInv, TypeOK, wallet
  <2> QED  BY <1>6, <2>2, HeldReleased DEF SettlePost
<1>7. ASSUME NEW w \in Workers, PayoutInsert(w)  PROVE Held'
  <2>1. [job[w] EXCEPT !.op = "entry"].op # "post"
    BY <1>j DEF Job
  <2> QED  BY <1>7, <2>1, HeldElsewhere DEF PayoutInsert, At, wallet
<1>8. ASSUME NEW w \in Workers, PayoutEntry(w)  PROVE Held'
  <2>1. [job[w] EXCEPT !.op = "save"].op # "post"
    BY <1>j DEF Job
  <2> QED  BY <1>8, <2>1, HeldElsewhere DEF PayoutEntry, At, wallet
<1>9. ASSUME NEW w \in Workers, PayoutSave(w)  PROVE Held'
  <2>1. job[w].d \in Withdrawing
    BY <1>9 DEF PayoutSave, At, BaseInv, JobsOK, WellFormed
  <2>2. \A d \in Drivers \ Withdrawing : balance'[d] = balance[d]
    BY <1>9, <2>1 DEF PayoutSave, BaseInv, TypeOK
  <2> QED  BY <1>9, <2>2, IdleOp, HeldElsewhere DEF PayoutSave, At, Finish
<1>10. ASSUME NEW w \in Workers, NEW t, StartComplete(w, t)  PROVE Held'
  <2>1. [Idle EXCEPT !.op = "complete", !.t = t, !.d = driver[t], !.fare = fare[t]].op # "post"
    BY DEF Idle
  <2> QED  BY <1>10, <2>1, HeldElsewhere DEF StartComplete, At, wallet
<1>11. ASSUME NEW w \in Workers, NEW t, NEW method, Webhook(w, t, method)  PROVE Held'
  <2>1. [Idle EXCEPT !.op = "pay", !.t = t, !.d = driver[t],
                     !.fare = fare[t], !.method = method].op # "post"
    BY DEF Idle
  <2> QED  BY <1>11, <2>1, HeldElsewhere DEF Webhook, At, wallet
<1>12. ASSUME NEW w \in Workers, NEW d, NEW p, NEW amount, PayoutRead(w, d, p, amount)
       PROVE  Held'
  <2>1. [Idle EXCEPT !.op = "insert", !.d = d, !.p = p, !.amount = amount,
                     !.before = balance[d], !.left = withdrawable[d]].op # "post"
    BY DEF Idle
  <2> QED  BY <1>12, <2>1, HeldElsewhere DEF PayoutRead, At, wallet
<1>13. ASSUME NEW w \in Workers, Pay(w)  PROVE Held'
  <2>1. [job[w] EXCEPT !.op = "settle"].op # "post"
    BY <1>j DEF Job
  <2> QED  BY <1>13, <2>1, HeldElsewhere DEF Pay, At, wallet
<1>14. ASSUME NEW w \in Workers, SettlementRaises(w)  PROVE Held'
  <2>1. CASE At(w, "post")
    BY <1>14, <2>1, HeldReleased DEF SettlementRaises, wallet
  <2>2. CASE ~ At(w, "post")
    BY <1>14, <2>2, IdleOp, HeldElsewhere DEF SettlementRaises, Finish, At, wallet
  <2> QED  BY <2>1, <2>2
<1>15. CASE UNCHANGED <<lock, job, balance>>
  BY <1>15 DEF Held
<1> QED
  BY <1>1, <1>2, <1>3, <1>4, <1>5, <1>6, <1>7, <1>8, <1>9, <1>10, <1>11, <1>12, <1>13, <1>14,
     <1>15
  DEF Next, Step, vars, wallet, UpdateStatus, Accept, Reassign

-----------------------------------------------------------------------------
(* The entries of a wallet.                                                *)

LEMMA Appended ==
  ASSUME NEW es \in Seq(Entry), NEW e \in Entry
  PROVE  /\ Append(es, e) \in Seq(Entry)
         /\ Len(Append(es, e)) = Len(es) + 1
         /\ Append(es, e)[Len(es) + 1] = e
         /\ \A i \in 1 .. Len(es) : Append(es, e)[i] = es[i]
OBVIOUS

(* A settlement posts an entry, or nothing; nothing else touches the books *)
(* but a payout's entry.                                                   *)
Posts(w) ==
  LET j == job[w] IN
  /\ SettlePost(w) /\ RefFree(Ref(j))
  /\ balance' = [balance EXCEPT ![j.d] = j.before + Change(j)]
  /\ ledger' = [ledger EXCEPT ![j.d] = Append(@, Posting(j))]
  /\ usage' = Redeemed(j)

LEMMA BooksMoves ==
  ASSUME [Next]_vars
  PROVE  \/ UNCHANGED <<books, balance>>
         \/ \E w \in Workers : Posts(w) \/ PayoutEntry(w) \/ PayoutSave(w)
<1>1. ASSUME NEW w \in Workers, SettlePost(w)
      PROVE  UNCHANGED <<books, balance>> \/ Posts(w)
  BY <1>1 DEF SettlePost, Posts, Posting, wallet
<1> QED
  BY <1>1
  DEF Next, Step, vars, books, wallet, Complete, ClaimFare, ChooseMethod, SettleRead,
      SettleLock, SettlementRaises, PayoutInsert, StartComplete, Webhook, Pay, PayoutRead,
      UpdateStatus, Accept, Reassign

(* What is posted is an entry, for a driver. *)
LEMMA PostingTyped ==
  ASSUME BaseInv, NEW w \in Workers, Posts(w)
  PROVE  /\ job[w] \in Job /\ job[w].d \in Drivers /\ job[w].t \in Trips
         /\ Posting(job[w]) \in Entry
<1>1. /\ job[w] \in Job /\ job[w].d \in Drivers /\ job[w].t \in Trips
      /\ job[w].before \in Int /\ job[w].ride \in Nat
  BY DEF Posts, SettlePost, At, BaseInv, JobsOK, WellFormed, Job
<1>2. Change(job[w]) \in Int /\ Ref(job[w]) \in Reference
  BY <1>1, ChangeTyped, RefTyped
<1>3. job[w].before + Change(job[w]) \in Int
  BY <1>1, <1>2
<1> QED  BY <1>1, <1>2, <1>3 DEF Posting, Entry

LEMMA WithdrawalTyped ==
  ASSUME BaseInv, NEW w \in Workers, PayoutEntry(w)
  PROVE  /\ job[w].d \in Withdrawing /\ job[w].d \in Drivers /\ job[w].p \in Payouts
         /\ Withdrawal(job[w]) \in Entry
         /\ ledger' = [ledger EXCEPT ![job[w].d] = Append(@, Withdrawal(job[w]))]
<1>1. /\ job[w].d \in Withdrawing /\ job[w].d \in Drivers /\ job[w].p \in Payouts
      /\ job[w].before \in Int /\ job[w].amount \in Nat
  BY WithdrawingAssumption DEF PayoutEntry, At, BaseInv, JobsOK, WellFormed, Job
<1>2. job[w].before - job[w].amount \in Int
  BY <1>1
<1>3. Withdrawal(job[w]) \in Entry
  BY <1>1, <1>2 DEF Withdrawal, Entry, Reference
<1>4. ledger' = [ledger EXCEPT ![job[w].d] = Append(@, Withdrawal(job[w]))]
  BY DEF PayoutEntry, Withdrawal
<1> QED  BY <1>1, <1>3, <1>4

-----------------------------------------------------------------------------
(* LedgerMatches.                                                          *)

LEMMA MatchesNext ==
  ASSUME BaseInv, Held, LedgerMatches, [Next]_vars
  PROVE  LedgerMatches'
<1>l. ledger \in [Drivers -> Seq(Entry)] /\ balance \in [Drivers -> Int]
  BY DEF BaseInv, TypeOK
<1>1. CASE UNCHANGED <<books, balance>>
  BY <1>1 DEF LedgerMatches, Closing, books
<1>2. ASSUME NEW w \in Workers, Posts(w)  PROVE LedgerMatches'
  <2>0. PICK me, e : me = job[w].d /\ e = Posting(job[w])
    OBVIOUS
  <2>1. me \in Drivers /\ e \in Entry /\ e.before = job[w].before /\ e.after = balance'[me]
    BY <1>2, <1>l, <2>0, PostingTyped DEF Posts, Posting
  <2>2. \A d \in Drivers : d # me => ledger'[d] = ledger[d] /\ balance'[d] = balance[d]
    BY <1>2, <1>l, <2>0 DEF Posts
  <2>3. ledger'[me] = Append(ledger[me], e)
    BY <1>2, <1>l, <2>0, <2>1 DEF Posts
  <2>4. me \notin Withdrawing => e.before = balance[me]
    BY <1>2, <2>0, <2>1 DEF Posts, SettlePost, At, Held
  <2>5. ASSUME NEW d \in Drivers \ Withdrawing
        PROVE  /\ \A i \in 1 .. Len(ledger'[d]) : ledger'[d][i].before = Closing(d, i - 1)'
               /\ balance'[d] = Closing(d, Len(ledger[d]))'
    <3>1. CASE d # me
      BY <2>2, <3>1 DEF LedgerMatches, Closing
    <3>2. CASE d = me
      <4> DEFINE n == Len(ledger[me])
      <4>1. /\ n \in Nat /\ Len(ledger'[me]) = n + 1
            /\ ledger'[me][n + 1] = e
            /\ \A i \in 1 .. n : ledger'[me][i] = ledger[me][i]
        BY <1>l, <2>1, <2>3, Appended
      <4>2. \A i \in 0 .. n : Closing(me, i)' = Closing(me, i)
        BY <4>1 DEF Closing
      <4>3. e.before = Closing(me, n)
        BY <2>4, <2>5, <3>2 DEF LedgerMatches
      <4>4. ASSUME NEW i \in 1 .. n + 1
            PROVE  ledger'[me][i].before = Closing(me, i - 1)'
        <5>1. CASE i = n + 1
          BY <4>1, <4>2, <4>3, <5>1
        <5>2. CASE i \in 1 .. n
          BY <2>5, <3>2, <4>1, <4>2, <5>2 DEF LedgerMatches
        <5> QED  BY <4>1, <4>4, <5>1, <5>2
      <4>5. Closing(me, Len(ledger[me]))' = balance'[me]
        BY <2>1, <4>1 DEF Closing
      <4> QED  BY <3>2, <4>1, <4>4, <4>5
    <3> QED  BY <3>1, <3>2
  <2> QED  BY <2>5 DEF LedgerMatches
<1>3. ASSUME NEW w \in Workers, PayoutEntry(w) \/ PayoutSave(w)  PROVE LedgerMatches'
  <2>1. job[w].d \in Withdrawing
    BY <1>3 DEF PayoutEntry, PayoutSave, At, BaseInv, JobsOK, WellFormed
  <2>2. \A d \in Drivers \ Withdrawing : ledger'[d] = ledger[d] /\ balance'[d] = balance[d]
    BY <1>3, <1>l, <2>1 DEF PayoutEntry, PayoutSave, wallet, books
  <2> QED  BY <2>2 DEF LedgerMatches, Closing
<1> QED  BY <1>1, <1>2, <1>3, BooksMoves

LEMMA Start ==
  Init => BaseInv /\ IsFiniteSet(usage) /\ Held /\ LedgerMatches
<1> SUFFICES ASSUME Init  PROVE Held /\ LedgerMatches
  BY BaseInit, FS_EmptySet DEF Init
<1>1. Held
  BY DEF Init, Held, Idle
<1>2. LedgerMatches
  BY DEF Init, LedgerMatches, Closing
<1> QED  BY <1>1, <1>2

(* No settlement is lost: the row lock makes every entry continue from the *)
(* one before it, and the balance is the last one's.                       *)
THEOREM BalanceCorrect == Spec => []LedgerMatches
<1> DEFINE Inv == BaseInv /\ IsFiniteSet(usage) /\ Held /\ LedgerMatches
<1>1. Init => Inv
  BY Start
<1>2. Inv /\ [Next]_vars => Inv'
  BY BaseNext, FiniteNext, HeldNext, MatchesNext
<1>3. Inv => LedgerMatches
  OBVIOUS
<1> QED  BY <1>1, <1>2, <1>3, PTL DEF Spec

-----------------------------------------------------------------------------
(* OneEntryPerReference.                                                   *)

LEMMA FreshAppended ==
  ASSUME BaseInv, OneEntryPerReference, NEW me \in Drivers, NEW e \in Entry,
         RefFree(e.ref), ledger' = [ledger EXCEPT ![me] = Append(@, e)]
  PROVE  OneEntryPerReference'
<1>l. ledger \in [Drivers -> Seq(Entry)]
  BY DEF BaseInv, TypeOK
<1>1. \A d \in Drivers : d # me => ledger'[d] = ledger[d]
  BY <1>l
<1>2. /\ Len(ledger[me]) \in Nat /\ Len(ledger'[me]) = Len(ledger[me]) + 1
      /\ ledger'[me][Len(ledger[me]) + 1] = e
      /\ \A i \in 1 .. Len(ledger[me]) : ledger'[me][i] = ledger[me][i]
  BY <1>l, Appended
<1> DEFINE Old(d, i) == i \in 1 .. Len(ledger[d]) /\ ledger'[d][i] = ledger[d][i]
           New(d, i) == d = me /\ i = Len(ledger[me]) + 1 /\ ledger'[d][i] = e
<1>3. \A d \in Drivers : \A i \in 1 .. Len(ledger'[d]) : Old(d, i) \/ New(d, i)
  BY <1>1, <1>2
<1>4. ASSUME NEW d \in Drivers, NEW c \in Drivers,
             NEW i \in 1 .. Len(ledger'[d]), NEW k \in 1 .. Len(ledger'[c]),
             ledger'[d][i].ref = ledger'[c][k].ref
      PROVE  d = c /\ i = k
  <2>1. CASE Old(d, i) /\ Old(c, k)
    BY <1>4, <2>1 DEF OneEntryPerReference
  <2>2. CASE Old(d, i) /\ New(c, k)
    BY <1>4, <2>2 DEF RefFree
  <2>3. CASE New(d, i) /\ Old(c, k)
    BY <1>4, <2>3 DEF RefFree
  <2>4. CASE New(d, i) /\ New(c, k)
    BY <2>4
  <2> QED  BY <1>3, <2>1, <2>2, <2>3, <2>4
<1> QED  BY <1>4 DEF OneEntryPerReference

(* Has the payout been entered in some ledger? *)
Entered(p) == ~ RefFree([kind |-> "payout_req", of |-> p])

(* A payout belongs to one request, which inserts, enters and saves it in  *)
(* this order, each once.                                                  *)
OneRequest ==
  /\ \A v, w \in Workers : job[v].p = job[w].p /\ job[w].p # NoPayout => v = w
  /\ \A w \in Workers : job[w].op = "insert" => payout[job[w].p].status = "none"
  /\ \A w \in Workers :
       job[w].op \in {"entry", "save"} => payout[job[w].p].status # "none"
  /\ \A p \in Payouts : Entered(p) => payout[p].status # "none"
  /\ \A w \in Workers : job[w].op = "entry" => ~ Entered(job[w].p)

(* A step of a worker with no payout before it and none after it. *)
LEMMA OtherRequests ==
  ASSUME BaseInv, OneRequest, NEW w \in Workers, NEW j, Become(w, j), UNCHANGED payout,
         j.p = NoPayout, j.op \notin {"insert", "entry", "save"},
         \A p \in Payouts : Entered(p)' => Entered(p)
  PROVE  OneRequest'
<1>1. \A v \in Workers : job'[v] = IF v = w THEN j ELSE job[v]
  BY DEF BaseInv, TypeOK, Become
<1>2. \A v \in Workers : job[v].op \in {"insert", "entry", "save"} => job[v].p \in Payouts
  BY DEF BaseInv, JobsOK, WellFormed
<1>3. \A v, x \in Workers : job'[v].p = job'[x].p /\ job'[x].p # NoPayout => v = x
  BY <1>1 DEF OneRequest
<1>4. \A v \in Workers : job'[v].op = "insert" => payout'[job'[v].p].status = "none"
  BY <1>1 DEF OneRequest
<1>5. \A v \in Workers :
        job'[v].op \in {"entry", "save"} => payout'[job'[v].p].status # "none"
  BY <1>1 DEF OneRequest
<1>6. \A p \in Payouts : Entered(p)' => payout'[p].status # "none"
  BY DEF OneRequest
<1>7. ASSUME NEW v \in Workers, job'[v].op = "entry"  PROVE ~ Entered(job[v].p)'
  <2>1. job'[v] = job[v] /\ job[v].op = "entry" /\ v # w
    BY <1>1, <1>7
  <2>2. PICK p \in Payouts : p = job[v].p
    BY <1>2, <2>1
  <2>3. ~ Entered(p)'
    BY <2>1, <2>2 DEF OneRequest
  <2> QED  BY <2>1, <2>2, <2>3 DEF Entered, RefFree
<1> QED  BY <1>1, <1>3, <1>4, <1>5, <1>6, <1>7 DEF OneRequest, Entered, RefFree

LEMMA RequestRead ==
  ASSUME BaseInv, OneRequest, NEW w \in Workers, NEW d \in Drivers, NEW p \in Payouts,
         NEW amount, PayoutRead(w, d, p, amount)
  PROVE  OneRequest'
<1>1. \A v \in Workers : v # w => job'[v] = job[v]
  BY DEF BaseInv, TypeOK, PayoutRead, Become
<1>2. job'[w].op = "insert" /\ job'[w].p = p
  BY DEF BaseInv, TypeOK, PayoutRead, Become, Idle
<1>3. /\ payout' = payout /\ ledger' = ledger /\ payout[p].status = "none"
      /\ \A v \in Workers : job[v].p # p
  BY DEF PayoutRead, books
<1>4. \A v, x \in Workers : job'[v].p = job'[x].p /\ job'[x].p # NoPayout => v = x
  BY <1>1, <1>2, <1>3 DEF OneRequest
<1>5. \A v \in Workers : job'[v].op = "insert" => payout'[job'[v].p].status = "none"
  BY <1>1, <1>2, <1>3 DEF OneRequest
<1>6. \A v \in Workers :
        job'[v].op \in {"entry", "save"} => payout'[job'[v].p].status # "none"
  BY <1>1, <1>2, <1>3 DEF OneRequest
<1>7. \A q \in Payouts : Entered(q)' => payout'[q].status # "none"
  BY <1>3 DEF OneRequest, Entered, RefFree
<1>8. \A v \in Workers : job'[v].op = "entry" => ~ Entered(job[v].p)'
  BY <1>1, <1>2, <1>3 DEF OneRequest, Entered, RefFree
<1> QED  BY <1>4, <1>5, <1>6, <1>7, <1>8 DEF OneRequest

(* The next step of a request: what changes for its own payout p. *)
LEMMA RequestStep ==
  ASSUME BaseInv, OneRequest, NEW w \in Workers, NEW p \in Payouts, job[w].p = p,
         NEW op \in {"entry", "save"}, Become(w, [job[w] EXCEPT !.op = op]),
         \A q \in Payouts : q # p => payout'[q] = payout[q] /\ (Entered(q)' => Entered(q)),
         payout'[p].status # "none",
         op = "entry" => ~ Entered(p)'
  PROVE  OneRequest'
<1>1. \A v \in Workers : v # w => job'[v] = job[v] /\ job[v].p # p
  <2>1. \A v \in Workers : v # w => job'[v] = job[v]
    BY DEF BaseInv, TypeOK, Become
  <2>2. \A v \in Workers : v # w => job[v].p # p
    BY NullsAssumption DEF OneRequest
  <2> QED  BY <2>1, <2>2
<1>2. job'[w].op = op /\ job'[w].p = p
  BY DEF BaseInv, TypeOK, Become, Job
<1>3. \A v \in Workers : job[v].op \in {"insert", "entry", "save"} => job[v].p \in Payouts
  BY DEF BaseInv, JobsOK, WellFormed
<1>4. ASSUME NEW v \in Workers, NEW x \in Workers,
             job'[v].p = job'[x].p, job'[x].p # NoPayout
      PROVE  v = x
  <2>1. CASE v = w \/ x = w
    BY <1>1, <1>2, <1>4, <2>1
  <2>2. CASE v # w /\ x # w
    BY <1>1, <1>4, <2>2 DEF OneRequest
  <2> QED  BY <2>1, <2>2
<1>5. \A v \in Workers : job'[v].op = "insert" => payout'[job'[v].p].status = "none"
  BY <1>1, <1>2, <1>3 DEF OneRequest
<1>6. \A v \in Workers :
        job'[v].op \in {"entry", "save"} => payout'[job'[v].p].status # "none"
  BY <1>1, <1>2, <1>3 DEF OneRequest
<1>7. \A q \in Payouts : Entered(q)' => payout'[q].status # "none"
  BY DEF OneRequest
<1>8. ASSUME NEW v \in Workers, job'[v].op = "entry"  PROVE ~ Entered(job[v].p)'
  <2>1. CASE v = w
    BY <1>2, <1>8, <2>1 DEF Entered, RefFree
  <2>2. CASE v # w
    <3>1. job'[v] = job[v] /\ job[v].op = "entry"
      BY <1>1, <1>8, <2>2
    <3>2. PICK q \in Payouts : q = job[v].p
      BY <1>3, <3>1
    <3>3. ~ Entered(q)'
      BY <1>1, <2>2, <3>1, <3>2 DEF OneRequest
    <3> QED  BY <3>1, <3>2, <3>3 DEF Entered, RefFree
  <2> QED  BY <2>1, <2>2
<1> QED  BY <1>4, <1>5, <1>6, <1>7, <1>8 DEF OneRequest

(* An entry of another kind, or of another payout, does not enter q. *)
LEMMA EnteredBefore ==
  ASSUME BaseInv, NEW me \in Drivers, NEW e \in Entry,
         ledger' = [ledger EXCEPT ![me] = Append(@, e)],
         NEW q, e.ref # [kind |-> "payout_req", of |-> q], Entered(q)'
  PROVE  Entered(q)
<1>l. ledger \in [Drivers -> Seq(Entry)]
  BY DEF BaseInv, TypeOK
<1>1. PICK d \in Drivers : \E i \in 1 .. Len(ledger'[d]) :
        ledger'[d][i].ref = [kind |-> "payout_req", of |-> q]
  BY DEF Entered, RefFree
<1>i. PICK i \in 1 .. Len(ledger'[d]) : ledger'[d][i].ref = [kind |-> "payout_req", of |-> q]
  BY <1>1
<1>2. i \in 1 .. Len(ledger[d]) /\ ledger'[d][i] = ledger[d][i]
  <2>1. CASE d # me
    BY <1>l, <2>1
  <2>2. CASE d = me
    BY <1>l, <1>i, <2>2, Appended
  <2> QED  BY <2>1, <2>2
<1> QED  BY <1>i, <1>2 DEF Entered, RefFree

LEMMA RequestNext ==
  ASSUME BaseInv, OneRequest, [Next]_vars
  PROVE  OneRequest'
<1>j. \A w \in Workers : WellFormed(job[w]) /\ job[w] \in Job
  BY DEF BaseInv, TypeOK, JobsOK
<1>u. ledger' = ledger => \A q \in Payouts : Entered(q)' => Entered(q)
  BY DEF Entered, RefFree
<1>1. ASSUME NEW w \in Workers, Complete(w)  PROVE OneRequest'
  <2>1. LET j == [job[w] EXCEPT !.op = "fare"]
        IN  j.p = NoPayout /\ j.op \notin {"insert", "entry", "save"}
    BY <1>j, <1>1 DEF Job, WellFormed, Complete, At
  <2> QED  BY <1>1, <1>u, <2>1, IdleOp, OtherRequests DEF Complete, books
<1>2. ASSUME NEW w \in Workers, ClaimFare(w)  PROVE OneRequest'
  <2>1. PICK f : Become(w, [job[w] EXCEPT !.op = "method", !.fare = f])
    BY <1>2 DEF ClaimFare
  <2>2. LET j == [job[w] EXCEPT !.op = "method", !.fare = f]
        IN  j.p = NoPayout /\ j.op \notin {"insert", "entry", "save"}
    BY <1>j, <1>2 DEF Job, WellFormed, ClaimFare, At
  <2> QED  BY <1>2, <1>u, <2>1, <2>2, OtherRequests DEF ClaimFare, books
<1>3. ASSUME NEW w \in Workers, NEW method, ChooseMethod(w, method)  PROVE OneRequest'
  <2>1. /\ Concluded(job[w], method).p = NoPayout
        /\ Concluded(job[w], method).op \notin {"insert", "entry", "save"}
    BY <1>j, <1>3 DEF Job, WellFormed, ChooseMethod, At, Concluded, Settlement
  <2> QED  BY <1>3, <1>u, <2>1, OtherRequests DEF ChooseMethod, books
<1>4. ASSUME NEW w \in Workers, SettleRead(w)  PROVE OneRequest'
  <2>1. PICK ride : \/ Become(w, Idle)
                    \/ Become(w, [job[w] EXCEPT !.op = "lock", !.ride = ride])
    BY <1>4 DEF SettleRead
  <2>2. LET j == [job[w] EXCEPT !.op = "lock", !.ride = ride]
        IN  j.p = NoPayout /\ j.op \notin {"insert", "entry", "save"}
    BY <1>j, <1>4 DEF Job, WellFormed, SettleRead, At
  <2> QED  BY <1>4, <1>u, <2>1, <2>2, IdleOp, OtherRequests DEF SettleRead, books
<1>5. ASSUME NEW w \in Workers, SettleLock(w)  PROVE OneRequest'
  <2>1. PICK b : \/ Become(w, Idle)
                 \/ Become(w, [job[w] EXCEPT !.op = "post", !.before = b])
    BY <1>5 DEF SettleLock, Finish
  <2>2. LET j == [job[w] EXCEPT !.op = "post", !.before = b]
        IN  j.p = NoPayout /\ j.op \notin {"insert", "entry", "save"}
    BY <1>j, <1>5 DEF Job, WellFormed, SettleLock, At
  <2> QED  BY <1>5, <1>u, <2>1, <2>2, IdleOp, OtherRequests DEF SettleLock, books
<1>6. ASSUME NEW w \in Workers, SettlePost(w)  PROVE OneRequest'
  <2>1. \A q \in Payouts : Entered(q)' => Entered(q)
    <3>1. CASE ledger' = ledger
      BY <1>u, <3>1
    <3>2. CASE Posts(w)
      <4>1. \A q : Posting(job[w]).ref # [kind |-> "payout_req", of |-> q]
        BY DEF Posting, Ref
      <4> QED  BY <3>2, <4>1, PostingTyped, EnteredBefore DEF Posts
    <3> QED  BY <1>6, <3>1, <3>2 DEF SettlePost, Posts, Posting, books
  <2> QED  BY <1>6, <2>1, IdleOp, OtherRequests DEF SettlePost, Finish
<1>7. ASSUME NEW w \in Workers, PayoutInsert(w)  PROVE OneRequest'
  <2>1. PICK p \in Payouts : p = job[w].p
    BY <1>j, <1>7 DEF WellFormed, PayoutInsert, At
  <2>2. payout'[p].status = "requested" /\ payout[p].status = "none"
    BY <1>7, <2>1 DEF PayoutInsert, At, BaseInv, TypeOK, OneRequest
  <2>3. \A q \in Payouts : q # p => payout'[q] = payout[q]
    BY <1>7, <2>1 DEF PayoutInsert, BaseInv, TypeOK
  <2>4. ~ Entered(p)'
    BY <1>7, <2>2 DEF PayoutInsert, books, Entered, RefFree, OneRequest
  <2> QED  BY <1>7, <1>u, <2>1, <2>2, <2>3, <2>4, RequestStep DEF PayoutInsert, books
<1>8. ASSUME NEW w \in Workers, PayoutEntry(w)  PROVE OneRequest'
  <2>1. PICK p \in Payouts : p = job[w].p
    BY <1>j, <1>8 DEF WellFormed, PayoutEntry, At
  <2>2. payout'[p].status # "none" /\ payout' = payout
    BY <1>8, <2>1 DEF PayoutEntry, At, OneRequest
  <2>3. ASSUME NEW q \in Payouts, q # p, Entered(q)'  PROVE Entered(q)
    <3>1. Withdrawal(job[w]).ref # [kind |-> "payout_req", of |-> q]
      BY <2>1, <2>3 DEF Withdrawal
    <3> QED  BY <1>8, <2>3, <3>1, WithdrawalTyped, EnteredBefore
  <2> QED  BY <1>8, <2>1, <2>2, <2>3, RequestStep DEF PayoutEntry
<1>9. ASSUME NEW w \in Workers, PayoutSave(w)  PROVE OneRequest'
  BY <1>9, <1>u, IdleOp, OtherRequests DEF PayoutSave, Finish, books
<1>10. ASSUME NEW w \in Workers, NEW t, StartComplete(w, t)  PROVE OneRequest'
  <2>1. LET j == [Idle EXCEPT !.op = "complete", !.t = t, !.d = driver[t], !.fare = fare[t]]
        IN  j.p = NoPayout /\ j.op \notin {"insert", "entry", "save"}
    BY DEF Idle
  <2> QED  BY <1>10, <1>u, <2>1, OtherRequests DEF StartComplete, books
<1>11. ASSUME NEW w \in Workers, NEW t, NEW method, Webhook(w, t, method)
       PROVE  OneRequest'
  <2>1. LET j == [Idle EXCEPT !.op = "pay", !.t = t, !.d = driver[t],
                              !.fare = fare[t], !.method = method]
        IN  j.p = NoPayout /\ j.op \notin {"insert", "entry", "save"}
    BY DEF Idle
  <2> QED  BY <1>11, <1>u, <2>1, OtherRequests DEF Webhook, books
<1>12. ASSUME NEW w \in Workers, NEW d \in Drivers, NEW p \in Payouts, NEW amount,
              PayoutRead(w, d, p, amount)
       PROVE  OneRequest'
  BY <1>12, RequestRead
<1>13. ASSUME NEW p \in Payouts,
              NEW status \in {"requested", "decided"},
              UpdateStatus(p, status)
       PROVE  OneRequest'
  <2>1. \A q \in Payouts : payout'[q].status = "none" <=> payout[q].status = "none"
    BY <1>13 DEF UpdateStatus, BaseInv, TypeOK, PayoutRow
  <2>2. \A w \in Workers :
          job[w].op \in {"insert", "entry", "save"} => job[w].p \in Payouts
    BY <1>j DEF WellFormed
  <2> QED  BY <1>13, <2>1, <2>2 DEF UpdateStatus, books, OneRequest, Entered, RefFree
<1>14. ASSUME NEW w \in Workers, Pay(w)  PROVE OneRequest'
  <2>1. LET j == [job[w] EXCEPT !.op = "settle"]
        IN  j.p = NoPayout /\ j.op \notin {"insert", "entry", "save"}
    BY <1>j, <1>14 DEF Job, WellFormed, Pay, At
  <2> QED  BY <1>14, <1>u, <2>1, OtherRequests DEF Pay, books
<1>15. ASSUME NEW w \in Workers, SettlementRaises(w)  PROVE OneRequest'
  BY <1>15, <1>u, IdleOp, OtherRequests DEF SettlementRaises, Finish, books
<1>16. CASE UNCHANGED <<payout, ledger, job>>
  BY <1>16 DEF OneRequest, Entered, RefFree
<1> QED
  BY <1>1, <1>2, <1>3, <1>4, <1>5, <1>6, <1>7, <1>8, <1>9, <1>10, <1>11, <1>12, <1>13, <1>14,
     <1>15, <1>16
  DEF Next, Step, vars, books, Accept, Reassign

LEMMA ReferencesNext ==
  ASSUME BaseInv, OneRequest, OneEntryPerReference, [Next]_vars
  PROVE  OneEntryPerReference'
<1>1. CASE ledger' = ledger
  BY <1>1 DEF OneEntryPerReference
<1>2. ASSUME NEW w \in Workers, Posts(w)  PROVE OneEntryPerReference'
  <2>1. RefFree(Posting(job[w]).ref)
    BY <1>2 DEF Posts, Posting
  <2> QED  BY <1>2, <2>1, PostingTyped, FreshAppended DEF Posts
<1>3. ASSUME NEW w \in Workers, PayoutEntry(w)  PROVE OneEntryPerReference'
  <2>1. RefFree(Withdrawal(job[w]).ref)
    BY <1>3 DEF PayoutEntry, At, OneRequest, Entered, Withdrawal
  <2> QED  BY <1>3, <2>1, WithdrawalTyped, FreshAppended
<1> QED  BY <1>1, <1>2, <1>3, BooksMoves DEF books, PayoutSave

LEMMA RequestInit == Init => OneRequest /\ OneEntryPerReference
<1> SUFFICES ASSUME Init  PROVE OneRequest /\ OneEntryPerReference
  OBVIOUS
<1>1. \A p : ~ Entered(p)
  BY DEF Init, Entered, RefFree
<1>2. \A w \in Workers : job[w].p = NoPayout /\ job[w].op = "idle"
  BY DEF Init, Idle
<1> QED  BY <1>1, <1>2 DEF Init, OneRequest, OneEntryPerReference

(* A trip is credited once and its commission debited once, in all the     *)
(* wallets together, however often it is paid, completed and reassigned.   *)
THEOREM ReferencesCorrect == Spec => []OneEntryPerReference
<1> DEFINE Inv == BaseInv /\ IsFiniteSet(usage) /\ OneRequest /\ OneEntryPerReference
<1>1. Init => Inv
  BY Start, RequestInit
<1>2. Inv /\ [Next]_vars => Inv'
  BY BaseNext, FiniteNext, RequestNext, ReferencesNext
<1>3. Inv => OneEntryPerReference
  OBVIOUS
<1> QED  BY <1>1, <1>2, <1>3, PTL DEF Spec

-----------------------------------------------------------------------------
(* FreeIsRecorded.                                                         *)

(* It relates two sets of trips: a trip is in one, a trip is in the other. *)
Redeems(t) == \E u \in usage : u.t = t
Free(t) ==
  \E d \in Drivers : \E i \in 1 .. Len(ledger[d]) :
    ledger[d][i].ride > 0 /\ ledger[d][i].ref.of = t

SameTrips == \A t : Redeems(t) <=> Free(t)

LEMMA FreeMeans == FreeIsRecorded <=> SameTrips
<1>1. \A t : t \in {u.t : u \in usage} <=> Redeems(t)
  BY DEF Redeems
<1> DEFINE FreeOf(d) ==
      {ledger[d][i].ref.of : i \in {k \in 1 .. Len(ledger[d]) : ledger[d][k].ride > 0}}
<1>2. \A t : t \in UNION {FreeOf(d) : d \in Drivers} <=> Free(t)
  <2>1. \A t : \A d \in Drivers :
          t \in FreeOf(d) <=> \E i \in 1 .. Len(ledger[d]) :
                                ledger[d][i].ride > 0 /\ ledger[d][i].ref.of = t
    OBVIOUS
  <2> HIDE DEF FreeOf
  <2>2. \A t : t \in UNION {FreeOf(d) : d \in Drivers} <=> \E d \in Drivers : t \in FreeOf(d)
    OBVIOUS
  <2> QED  BY <2>1, <2>2 DEF Free
<1>3. FreeIsRecorded <=> {u.t : u \in usage} = UNION {FreeOf(d) : d \in Drivers}
  BY DEF FreeIsRecorded
<1> HIDE DEF FreeOf
<1> QED  BY <1>1, <1>2, <1>3 DEF SameTrips

LEMMA FreeMeansNext == FreeIsRecorded' <=> SameTrips'
<1>1. (FreeIsRecorded <=> SameTrips)'
  BY FreeMeans, PTL
<1> QED  BY <1>1

(* An entry makes its trip free if it has a number of a free ride.         *)
LEMMA FreeAppended ==
  ASSUME BaseInv, NEW me \in Drivers, NEW e \in Entry,
         ledger' = [ledger EXCEPT ![me] = Append(@, e)], NEW t
  PROVE  Free(t)' <=> Free(t) \/ (e.ride > 0 /\ e.ref.of = t)
<1> DEFINE FreeAt(d, i) == ledger[d][i].ride > 0 /\ ledger[d][i].ref.of = t
           n == Len(ledger[me])
<1>l. ledger \in [Drivers -> Seq(Entry)]
  BY DEF BaseInv, TypeOK
<1>1. \A d \in Drivers : d # me => ledger'[d] = ledger[d]
  BY <1>l
<1>2. /\ n \in Nat /\ Len(ledger'[me]) = n + 1 /\ ledger'[me][n + 1] = e
      /\ \A i \in 1 .. n : ledger'[me][i] = ledger[me][i]
  BY <1>l, Appended
<1>3. ASSUME Free(t)'  PROVE Free(t) \/ (e.ride > 0 /\ e.ref.of = t)
  <2>1. PICK d \in Drivers : \E i \in 1 .. Len(ledger'[d]) :
          ledger'[d][i].ride > 0 /\ ledger'[d][i].ref.of = t
    BY <1>3 DEF Free
  <2>2. CASE d # me
    BY <1>1, <2>1, <2>2 DEF Free
  <2>3. CASE d = me
    BY <1>2, <2>1, <2>3 DEF Free
  <2> QED  BY <2>2, <2>3
<1>4. ASSUME Free(t)  PROVE Free(t)'
  <2>1. PICK d \in Drivers : \E i \in 1 .. Len(ledger[d]) :
          ledger[d][i].ride > 0 /\ ledger[d][i].ref.of = t
    BY <1>4 DEF Free
  <2>2. CASE d # me
    BY <1>1, <2>1, <2>2 DEF Free
  <2>3. CASE d = me
    <3>1. \E i \in 1 .. n + 1 : ledger'[me][i].ride > 0 /\ ledger'[me][i].ref.of = t
      BY <1>2, <2>1, <2>3
    <3> QED  BY <1>2, <3>1 DEF Free
  <2> QED  BY <2>2, <2>3
<1>5. ASSUME e.ride > 0, e.ref.of = t  PROVE Free(t)'
  <2>1. n + 1 \in 1 .. Len(ledger'[me])
    BY <1>2
  <2> QED  BY <1>2, <1>5, <2>1 DEF Free
<1> QED  BY <1>3, <1>4, <1>5

LEMMA FreeNext ==
  ASSUME BaseInv, FreeIsRecorded, [Next]_vars
  PROVE  FreeIsRecorded'
<1>f. SameTrips
  BY FreeMeans
<1>1. CASE UNCHANGED books
  <2>1. SameTrips'
    BY <1>f, <1>1 DEF SameTrips, Redeems, Free, books
  <2> QED  BY <2>1, FreeMeansNext
<1>2. ASSUME NEW w \in Workers, Posts(w)  PROVE FreeIsRecorded'
  <2>0. PICK me, e : me = job[w].d /\ e = Posting(job[w])
    OBVIOUS
  <2>1. /\ me \in Drivers /\ e \in Entry /\ e.ride = job[w].ride /\ e.ref.of = job[w].t
        /\ ledger' = [ledger EXCEPT ![me] = Append(@, e)]
    BY <1>2, <2>0, PostingTyped DEF Posts, Posting, Ref
  <2>2. usage' = Redeemed(job[w])
    BY <1>2 DEF Posts
  <2>3. ASSUME NEW t  PROVE Redeems(t)' <=> Redeems(t) \/ (e.ride > 0 /\ e.ref.of = t)
    <3>1. CASE e.ride > 0 /\ ~ Redeems(job[w].t)
      <4>1. PICK new : new = [t |-> job[w].t, d |-> job[w].d, number |-> job[w].ride]
        OBVIOUS
      <4>2. new.t = job[w].t
        BY <4>1
      <4>3. usage' = usage \cup {new}
        BY <2>1, <2>2, <3>1, <4>1 DEF Redeems, Redeemed
      <4> QED  BY <2>1, <3>1, <4>2, <4>3 DEF Redeems
    <3>2. CASE ~ (e.ride > 0) \/ Redeems(job[w].t)
      <4>1. usage' = usage
        BY <2>1, <2>2, <3>2 DEF Redeems, Redeemed
      <4> QED  BY <2>1, <3>2, <4>1 DEF Redeems
    <3> QED  BY <3>1, <3>2
  <2>4. \A t : Free(t)' <=> Free(t) \/ (e.ride > 0 /\ e.ref.of = t)
    BY <2>1, FreeAppended
  <2>5. ASSUME NEW t  PROVE Redeems(t)' <=> Free(t)'
    <3>1. Redeems(t) <=> Free(t)
      BY <1>f DEF SameTrips
    <3> QED  BY <2>3, <2>4, <3>1
  <2>6. SameTrips'
    BY <2>5 DEF SameTrips
  <2> QED  BY <2>6, FreeMeansNext
<1>3. ASSUME NEW w \in Workers, PayoutEntry(w)  PROVE FreeIsRecorded'
  <2>0. PICK me, e : me = job[w].d /\ e = Withdrawal(job[w])
    OBVIOUS
  <2>1. me \in Drivers /\ e \in Entry /\ ledger' = [ledger EXCEPT ![me] = Append(@, e)]
    BY <1>3, <2>0, WithdrawalTyped
  <2>2. e.ride = 0
    BY <2>0 DEF Withdrawal
  <2>3. ASSUME NEW t  PROVE Free(t)' <=> Free(t)
    <3>1. Free(t)' <=> Free(t) \/ (e.ride > 0 /\ e.ref.of = t)
      BY <2>1, FreeAppended
    <3>2. ~ (e.ride > 0)
      BY <2>2
    <3> QED  BY <3>1, <3>2
  <2>4. \A t : Redeems(t)' <=> Redeems(t)
    BY <1>3 DEF PayoutEntry, Redeems
  <2>5. ASSUME NEW t  PROVE Redeems(t)' <=> Free(t)'
    <3>1. Redeems(t) <=> Free(t)
      BY <1>f DEF SameTrips
    <3> QED  BY <2>3, <2>4, <3>1
  <2>6. SameTrips'
    BY <2>5 DEF SameTrips
  <2> QED  BY <2>6, FreeMeansNext
<1> QED  BY <1>1, <1>2, <1>3, BooksMoves DEF PayoutSave

(* A ride is free of commission exactly when its redemption is on record.  *)
THEOREM FreeRidesCorrect == Spec => []FreeIsRecorded
<1> DEFINE Inv == BaseInv /\ IsFiniteSet(usage) /\ FreeIsRecorded
<1>1. Init => Inv
  <2>1. Init => FreeIsRecorded
    BY FreeMeans DEF Init, SameTrips, Redeems, Free
  <2> QED  BY <2>1, Start
<1>2. Inv /\ [Next]_vars => Inv'
  BY BaseNext, FiniteNext, FreeNext
<1>3. Inv => FreeIsRecorded
  OBVIOUS
<1> QED  BY <1>1, <1>2, <1>3, PTL DEF Spec
=============================================================================
