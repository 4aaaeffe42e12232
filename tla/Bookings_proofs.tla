-------------------------- MODULE Bookings_proofs ---------------------------
(***************************************************************************)
(* What module Bookings guarantees for any number of bookings, drivers and *)
(* handlers, and any bound on the timelines.                               *)
(***************************************************************************)
EXTENDS Bookings, TLAPS

(* A job is a record of its type whose fields its operation needs are set. *)
WellFormed(j) ==
  /\ j \in Job
  /\ j.op \notin {"idle", "release"} => j.b \in Bookings
  /\ (j.op = "release" \/ j.then = "release") => j.new \in Bookings
  /\ j.op \in {"accept", "accepting"} => j.drv \in Drivers
  /\ j.op \in {"transition", "commit", "route"} => j.to # "none"

JobsOK == \A w \in Workers : WellFormed(job[w])

(* A sequence number read by a handler was the next one when it was read.  *)
SequenceRead ==
  \A w \in Workers :
    job[w].op \in {"insert", "commit", "accepting"} =>
      job[w].seq \in 1 .. Len(timeline[job[w].b]) + 1

BaseInv == TypeOK /\ JobsOK /\ TimelineGapless /\ SequenceRead

-----------------------------------------------------------------------------
(* Sequence numbers.                                                       *)

LEMMA LatestIsLength ==
  ASSUME NEW b \in Bookings, timeline[b] \in Seq(Nat),
         \A i \in 1 .. Len(timeline[b]) : timeline[b][i] = i
  PROVE  Latest(b) = Len(timeline[b])
<1> DEFINE n == Len(timeline[b])
           used == {timeline[b][i] : i \in 1 .. n}
<1>1. n \in Nat
  OBVIOUS
<1>2. used = 1 .. n
  OBVIOUS
<1> HIDE DEF n, used
<1>3. n \in used \cup {0} /\ \A m \in used : m <= n
  BY <1>1, <1>2
<1>4. ASSUME NEW x \in used \cup {0}, \A m \in used : m <= x
      PROVE  x = n
  <2>1. x \in Nat /\ x <= n
    BY <1>1, <1>2
  <2>2. CASE n = 0
    BY <2>1, <2>2
  <2>3. CASE n # 0
    BY <1>1, <1>2, <1>4, <2>1, <2>3
  <2> QED BY <2>2, <2>3
<1>5. (CHOOSE x \in used \cup {0} : \A m \in used : m <= x) = n
  BY <1>3, <1>4
<1> QED BY <1>5 DEF Latest, n, used

LEMMA FreeIsNext ==
  ASSUME NEW b \in Bookings, timeline[b] \in Seq(Nat),
         \A i \in 1 .. Len(timeline[b]) : timeline[b][i] = i,
         NEW n \in 1 .. Len(timeline[b]) + 1, SequenceFree(b, n)
  PROVE  n = Len(timeline[b]) + 1
BY DEF SequenceFree

(* Appending the next number keeps a timeline gapless. *)
LEMMA AppendGapless ==
  ASSUME NEW b \in Bookings, timeline \in [Bookings -> Seq(Nat)], TimelineGapless,
         Append1(b, Len(timeline[b]) + 1)
  PROVE  /\ timeline' \in [Bookings -> Seq(Nat)]
         /\ TimelineGapless'
         /\ \A x \in Bookings : Len(timeline'[x]) >= Len(timeline[x])
<1>1. \A x \in Bookings : x # b => timeline'[x] = timeline[x]
  BY DEF Append1
<1>2. timeline'[b] = Append(timeline[b], Len(timeline[b]) + 1)
  BY DEF Append1
<1>3. timeline[b] \in Seq(Nat) /\ Len(timeline[b]) + 1 \in Nat
  OBVIOUS
<1>4. timeline'[b] \in Seq(Nat) /\ Len(timeline'[b]) = Len(timeline[b]) + 1
  BY <1>2, <1>3
<1>5. timeline' \in [Bookings -> Seq(Nat)]
  BY <1>1, <1>4 DEF Append1
<1>6. \A i \in 1 .. Len(timeline'[b]) : timeline'[b][i] = i
  BY <1>2, <1>3, <1>4 DEF TimelineGapless
<1>7. TimelineGapless'
  BY <1>1, <1>6 DEF TimelineGapless
<1>8. ASSUME NEW x \in Bookings
      PROVE  Len(timeline'[x]) >= Len(timeline[x])
  <2>1. Len(timeline[x]) \in Nat
    OBVIOUS
  <2>2. CASE x = b
    BY <1>3, <1>4, <2>1, <2>2
  <2>3. CASE x # b
    BY <1>1, <2>1, <2>3
  <2> QED BY <2>2, <2>3
<1> QED BY <1>5, <1>7, <1>8

-----------------------------------------------------------------------------
(* Jobs.                                                                   *)

LEMMA IdleWellFormed == WellFormed(Idle)
BY DEF WellFormed, Idle, Job, Op, RowState

(* A step that gives one worker a well-formed job. *)
LEMMA BecomeOK ==
  ASSUME NEW w \in Workers, NEW j, WellFormed(j),
         job \in [Workers -> Job], JobsOK, Become(w, j)
  PROVE  /\ job' \in [Workers -> Job]
         /\ JobsOK'
         /\ job'[w] = j
         /\ \A v \in Workers \ {w} : job'[v] = job[v]
<1>1. j \in Job
  BY DEF WellFormed
<1>2. /\ job' \in [Workers -> Job]
      /\ job'[w] = j
      /\ \A v \in Workers \ {w} : job'[v] = job[v]
  BY <1>1 DEF Become
<1>3. JobsOK'
  BY <1>2 DEF JobsOK, WellFormed
<1> QED BY <1>2, <1>3

(* A step that changes one worker's job keeps the sequence numbers of the  *)
(* others, and needs only look at that worker's.                           *)
LEMMA SequenceReadStep ==
  ASSUME NEW w \in Workers, NEW j, TypeOK, JobsOK, SequenceRead,
         timeline' \in [Bookings -> Seq(Nat)],
         \A b \in Bookings : Len(timeline'[b]) >= Len(timeline[b]),
         job'[w] = j, \A v \in Workers \ {w} : job'[v] = job[v],
         j.op \in {"insert", "commit", "accepting"} =>
           j.seq \in 1 .. Len(timeline'[j.b]) + 1
  PROVE  SequenceRead'
<1> SUFFICES ASSUME NEW v \in Workers, job'[v].op \in {"insert", "commit", "accepting"}
             PROVE  job'[v].seq \in 1 .. Len(timeline'[job'[v].b]) + 1
  BY DEF SequenceRead
<1>1. CASE v = w
  BY <1>1
<1>2. CASE v # w
  <2>1. job'[v] = job[v]
    BY <1>2
  <2>2. job[v].b \in Bookings
    BY <2>1 DEF JobsOK, WellFormed
  <2>3. job[v].seq \in 1 .. Len(timeline[job[v].b]) + 1
    BY <2>1 DEF SequenceRead
  <2>4. /\ Len(timeline[job[v].b]) \in Nat
        /\ Len(timeline'[job[v].b]) \in Nat
        /\ Len(timeline'[job[v].b]) >= Len(timeline[job[v].b])
    BY <2>2 DEF TypeOK
  <2> QED BY <2>1, <2>3, <2>4
<1> QED BY <1>1, <1>2

(* The two shapes of a step: the timeline stays, or gets its next number.  *)
LEMMA QuietStep ==
  ASSUME BaseInv, NEW w \in Workers, NEW j, WellFormed(j), Become(w, j),
         timeline' = timeline,
         j.op \in {"insert", "commit", "accepting"} =>
           j.seq \in 1 .. Len(timeline[j.b]) + 1
  PROVE  /\ job' \in [Workers -> Job] /\ timeline' \in [Bookings -> Seq(Nat)]
         /\ JobsOK' /\ TimelineGapless' /\ SequenceRead'
<1>1. timeline \in [Bookings -> Seq(Nat)] /\ job \in [Workers -> Job]
  BY DEF BaseInv, TypeOK
<1>2. /\ job' \in [Workers -> Job] /\ JobsOK'
      /\ job'[w] = j /\ \A v \in Workers \ {w} : job'[v] = job[v]
  BY <1>1, BecomeOK DEF BaseInv
<1>3. \A b \in Bookings : Len(timeline'[b]) >= Len(timeline[b])
  <2> SUFFICES ASSUME NEW b \in Bookings PROVE Len(timeline[b]) >= Len(timeline[b])
    OBVIOUS
  <2>1. Len(timeline[b]) \in Nat
    BY <1>1
  <2> QED BY <2>1
<1>4. SequenceRead'
  BY <1>1, <1>2, <1>3, SequenceReadStep DEF BaseInv
<1>5. TimelineGapless'
  BY DEF BaseInv, TimelineGapless
<1> QED BY <1>1, <1>2, <1>4, <1>5

LEMMA AppendStep ==
  ASSUME BaseInv, NEW w \in Workers, NEW j, WellFormed(j), Become(w, j),
         NEW b \in Bookings, NEW n \in 1 .. Len(timeline[b]) + 1,
         SequenceFree(b, n), Append1(b, n),
         j.op \notin {"insert", "commit", "accepting"}
  PROVE  /\ job' \in [Workers -> Job] /\ timeline' \in [Bookings -> Seq(Nat)]
         /\ JobsOK' /\ TimelineGapless' /\ SequenceRead'
<1>1. timeline \in [Bookings -> Seq(Nat)] /\ job \in [Workers -> Job]
  BY DEF BaseInv, TypeOK
<1>2. /\ job' \in [Workers -> Job] /\ JobsOK'
      /\ job'[w] = j /\ \A v \in Workers \ {w} : job'[v] = job[v]
  BY <1>1, BecomeOK DEF BaseInv
<1>3. n = Len(timeline[b]) + 1
  BY <1>1, FreeIsNext DEF BaseInv, TimelineGapless
<1>4. /\ timeline' \in [Bookings -> Seq(Nat)]
      /\ TimelineGapless'
      /\ \A x \in Bookings : Len(timeline'[x]) >= Len(timeline[x])
  BY <1>1, <1>3, AppendGapless DEF BaseInv
<1>5. SequenceRead'
  BY <1>2, <1>4, SequenceReadStep DEF BaseInv
<1> QED BY <1>2, <1>4, <1>5

(* What a handler becomes after recording an event, or failing to. *)
LEMMA AfterRecordOK ==
  ASSUME NEW j, WellFormed(j), j.op = "insert"
  PROVE  /\ WellFormed(AfterRecord(j)) /\ WellFormed(AfterCollision(j))
         /\ AfterRecord(j).op \notin {"insert", "commit", "accepting"}
         /\ AfterCollision(j).op \notin {"insert", "commit", "accepting"}
<1>1. CASE j.then = "idle"
  BY <1>1, IdleWellFormed DEF AfterRecord, AfterCollision, Idle
<1>2. CASE j.then \in {"release", "offer"}
  <2>1. AfterRecord(j).op \in {"release", "offer"} /\ WellFormed(AfterRecord(j))
    BY <1>2 DEF AfterRecord, WellFormed, Job, Op
  <2>2. AfterCollision(j).op \in {"release", "idle"} /\ WellFormed(AfterCollision(j))
    BY <1>2, <2>1, IdleWellFormed DEF AfterRecord, AfterCollision, WellFormed, Job, Op, Idle
  <2> QED BY <2>1, <2>2
<1> QED BY <1>1, <1>2 DEF WellFormed, Job

LEMMA NextSequenceInRange ==
  ASSUME BaseInv, NEW b \in Bookings
  PROVE  /\ NextSequence(b) = Len(timeline[b]) + 1
         /\ NextSequence(b) \in Nat
         /\ NextSequence(b) \in 1 .. Len(timeline[b]) + 1
<1>1. timeline[b] \in Seq(Nat) /\ Len(timeline[b]) \in Nat
  BY DEF BaseInv, TypeOK
<1> QED BY <1>1, LatestIsLength DEF BaseInv, TimelineGapless, NextSequence

-----------------------------------------------------------------------------
(* The inductive step, one lemma per group of actions.                     *)

LEMMA BaseInit == Init => BaseInv
<1> SUFFICES ASSUME Init PROVE BaseInv
  OBVIOUS
<1>1. TypeOK
  BY IdleWellFormed DEF Init, TypeOK, WellFormed, RowState
<1>2. JobsOK /\ SequenceRead
  BY IdleWellFormed DEF Init, JobsOK, SequenceRead, Idle
<1>3. TimelineGapless
  BY DEF Init, TimelineGapless
<1> QED BY <1>1, <1>2, <1>3 DEF BaseInv

LEMMA BaseRecording ==
  ASSUME BaseInv, NEW w \in Workers, RecordRead(w) \/ RecordInsert(w)
  PROVE  BaseInv'
<1> DEFINE j == job[w]
<1>1. WellFormed(j)
  BY DEF BaseInv, JobsOK
<1>2. CASE RecordRead(w)
  <2> DEFINE k == [j EXCEPT !.op = "insert", !.seq = NextSequence(j.b)]
  <2>1. j.b \in Bookings
    BY <1>1, <1>2 DEF RecordRead, WellFormed
  <2>2. NextSequence(j.b) \in Nat /\ NextSequence(j.b) \in 1 .. Len(timeline[j.b]) + 1
    BY <2>1, NextSequenceInRange
  <2>3. WellFormed(k) /\ k.seq \in 1 .. Len(timeline[k.b]) + 1
    BY <1>1, <2>1, <2>2 DEF WellFormed, Job, Op
  <2>4. Become(w, k) /\ UNCHANGED <<row, log, photos, named, lock, won>>
    BY <1>2 DEF RecordRead
  <2>5. timeline' = timeline
    BY <2>4 DEF log
  <2>6. /\ job' \in [Workers -> Job] /\ timeline' \in [Bookings -> Seq(Nat)]
        /\ JobsOK' /\ TimelineGapless' /\ SequenceRead'
    <3> HIDE DEF k
    <3> QED BY <2>3, <2>4, <2>5, QuietStep
  <2> QED BY <2>4, <2>6 DEF BaseInv, TypeOK, row, log
<1>3. CASE RecordInsert(w)
  <2>1. /\ j.op = "insert" /\ j.b \in Bookings
        /\ UNCHANGED <<row, photos, named, lock, won>>
    BY <1>1, <1>3 DEF RecordInsert, WellFormed
  <2>2. j.seq \in 1 .. Len(timeline[j.b]) + 1
    BY <2>1 DEF BaseInv, SequenceRead
  <2>3. /\ WellFormed(AfterRecord(j)) /\ WellFormed(AfterCollision(j))
        /\ AfterRecord(j).op \notin {"insert", "commit", "accepting"}
        /\ AfterCollision(j).op \notin {"insert", "commit", "accepting"}
    BY <1>1, <2>1, AfterRecordOK
  <2>4. CASE /\ SequenceFree(j.b, j.seq) /\ Append1(j.b, j.seq)
             /\ offered' = [offered EXCEPT ![j.b] = @ \cup ({j.drv} \ {NoDriver})]
             /\ Become(w, AfterRecord(j))
    <3>1. /\ job' \in [Workers -> Job] /\ timeline' \in [Bookings -> Seq(Nat)]
          /\ JobsOK' /\ TimelineGapless' /\ SequenceRead'
      BY <2>1, <2>2, <2>3, <2>4, AppendStep
    <3>2. j.drv \in Drivers \cup {NoDriver}
      BY <1>1 DEF WellFormed, Job
    <3>3. offered' \in [Bookings -> SUBSET Drivers]
      BY <2>1, <2>4, <3>2 DEF BaseInv, TypeOK
    <3> QED BY <2>1, <3>1, <3>3 DEF BaseInv, TypeOK, row
  <2>5. CASE Become(w, AfterCollision(j)) /\ UNCHANGED log
    <3>1. /\ job' \in [Workers -> Job] /\ timeline' \in [Bookings -> Seq(Nat)]
          /\ JobsOK' /\ TimelineGapless' /\ SequenceRead'
      BY <2>3, <2>5, QuietStep DEF log
    <3> QED BY <2>1, <2>5, <3>1 DEF BaseInv, TypeOK, row, log
  <2> QED BY <1>3, <2>4, <2>5 DEF RecordInsert
<1> QED BY <1>2, <1>3

(* A handler that only takes a new job keeps the invariant. *)
LEMMA JobOnlyStep ==
  ASSUME BaseInv, NEW w \in Workers, NEW j, WellFormed(j), Become(w, j),
         j.op \in {"insert", "commit", "accepting"} =>
           j.seq \in 1 .. Len(timeline[j.b]) + 1,
         timeline' = timeline,
         state' \in [Bookings -> RowState],
         driver' \in [Bookings -> Drivers \cup {NoDriver}],
         offered' \in [Bookings -> SUBSET Drivers],
         photos' \in [Bookings -> SUBSET PhotoKind],
         lock' \in [Bookings -> Workers \cup {NoWorker}],
         won' \in [Bookings -> SUBSET Drivers],
         named' \in [Bookings -> Drivers \cup {NoDriver}]
  PROVE  BaseInv'
BY QuietStep DEF BaseInv, TypeOK

LEMMA BaseCreation ==
  ASSUME BaseInv, NEW w \in Workers,
         \/ \E b \in Bookings, d \in Drivers \cup {NoDriver} : Create(w, b, d)
         \/ \E b \in Bookings : Note(w, b) \/ Trigger(w, b)
         \/ \E x \in Bookings : ReleaseSave(w, x)
         \/ ReleaseDone(w)
         \/ DispatchSave(w)
  PROVE  BaseInv'
<1> USE DEF BaseInv
<1>1. WellFormed(job[w]) /\ job[w] \in Job
  BY DEF JobsOK, WellFormed
<1>2. ASSUME NEW b \in Bookings, NEW d \in Drivers \cup {NoDriver}, Create(w, b, d)
      PROVE  BaseInv'
  <2> DEFINE k == [Idle EXCEPT
       !.op = "release", !.new = b,
       !.close = {x \in Bookings \ {b} : /\ CustomerOf[x] = CustomerOf[b]
                                        /\ driver[x] # NoDriver
                                        /\ state[x] \in OnTrip}]
  <2>1. WellFormed(k) /\ k.op = "release"
    BY IdleWellFormed DEF WellFormed, Idle, Job, Op
  <2>2. Become(w, k)
    BY <1>2 DEF Create
  <2>3. UNCHANGED <<offered, timeline, photos, lock, won>>
    BY <1>2 DEF Create, log
  <2>4. state' \in [Bookings -> RowState]
    BY <1>2 DEF Create, TypeOK, RowState, BookingState
  <2>5. /\ driver' \in [Bookings -> Drivers \cup {NoDriver}]
        /\ named' \in [Bookings -> Drivers \cup {NoDriver}]
    BY <1>2 DEF Create, TypeOK
  <2> HIDE DEF k
  <2> QED BY <2>1, <2>2, <2>3, <2>4, <2>5, JobOnlyStep DEF TypeOK
<1>3. ASSUME NEW b \in Bookings, Note(w, b) PROVE BaseInv'
  <2> DEFINE k == [job[w] EXCEPT !.op = "record", !.b = b, !.drv = NoDriver, !.then = "idle"]
  <2>1. WellFormed(k) /\ k.op = "record"
    BY <1>1 DEF WellFormed, Job, Op
  <2>2. Become(w, k)
    BY <1>3 DEF Note, Record
  <2>3. UNCHANGED <<state, driver, offered, timeline, photos, named, lock, won>>
    BY <1>3 DEF Note, row, log
  <2> HIDE DEF k
  <2> QED BY <2>1, <2>2, <2>3, JobOnlyStep DEF TypeOK
<1>4. ASSUME NEW b \in Bookings, DispatchRead(w, b), UNCHANGED <<row, log, photos, named, lock, won>>
      PROVE  BaseInv'
  <2> DEFINE k == IF state[b] \in Dispatchable THEN [Idle EXCEPT !.op = "dispatch", !.b = b]
                  ELSE Idle
  <2>1. WellFormed(k) /\ k.op \in {"dispatch", "idle"}
    BY IdleWellFormed DEF WellFormed, Idle, Job, Op
  <2>2. Become(w, k)
    BY <1>4 DEF DispatchRead
  <2>3. UNCHANGED <<state, driver, offered, timeline, photos, named, lock, won>>
    BY <1>4 DEF row, log
  <2> HIDE DEF k
  <2> QED BY <2>1, <2>2, <2>3, JobOnlyStep DEF TypeOK
<1>5. ASSUME NEW b \in Bookings, Trigger(w, b) PROVE BaseInv'
  BY <1>4, <1>5 DEF Trigger
<1>6. CASE ReleaseDone(w)
  BY <1>1, <1>4, <1>6 DEF ReleaseDone, WellFormed
<1>7. ASSUME NEW x \in Bookings, ReleaseSave(w, x) PROVE BaseInv'
  <2> DEFINE k == [job[w] EXCEPT !.op = "record", !.b = x, !.close = @ \ {x}, !.then = "release"]
  <2>1. WellFormed(k) /\ k.op = "record"
    BY <1>1, <1>7 DEF WellFormed, Job, Op, ReleaseSave
  <2>2. Become(w, k)
    BY <1>7 DEF ReleaseSave
  <2>3. UNCHANGED <<driver, offered, timeline, photos, named, lock, won>>
    BY <1>7 DEF ReleaseSave, log
  <2>4. state' \in [Bookings -> RowState]
    BY <1>7 DEF ReleaseSave, ReleasedState, TypeOK, RowState, BookingState
  <2> HIDE DEF k
  <2> QED BY <2>1, <2>2, <2>3, <2>4, JobOnlyStep DEF TypeOK
<1>8. CASE DispatchSave(w)
  <2> DEFINE b == job[w].b
             k == [job[w] EXCEPT !.op = "record", !.b = b, !.drv = NoDriver, !.then = "idle"]
  <2>1. b \in Bookings
    BY <1>1, <1>8 DEF DispatchSave, WellFormed
  <2>2. WellFormed(k) /\ k.op = "record"
    BY <1>1, <2>1 DEF WellFormed, Job, Op
  <2>3. Become(w, k)
    BY <1>8 DEF DispatchSave, Record
  <2>4. UNCHANGED <<driver, offered, timeline, photos, named, lock, won>>
    BY <1>8 DEF DispatchSave, log
  <2>5. state' \in [Bookings -> RowState]
    BY <1>8, <2>1 DEF DispatchSave, TypeOK, RowState, BookingState
  <2> HIDE DEF k
  <2> QED BY <2>2, <2>3, <2>4, <2>5, JobOnlyStep DEF TypeOK
<1> QED BY <1>2, <1>3, <1>5, <1>6, <1>7, <1>8

LEMMA BaseOffering ==
  ASSUME BaseInv, NEW w \in Workers,
         \/ \E b \in Bookings, batch \in SUBSET Drivers : StartOffers(w, b, batch)
         \/ \E d \in Drivers : Offer(w, d)
         \/ OfferRound(w)
  PROVE  BaseInv'
<1> USE DEF BaseInv
<1>1. WellFormed(job[w]) /\ job[w] \in Job
  BY DEF JobsOK, WellFormed
<1>2. ASSUME NEW b \in Bookings, NEW batch \in SUBSET Drivers, StartOffers(w, b, batch)
      PROVE  BaseInv'
  <2> DEFINE k == [Idle EXCEPT !.op = "offer", !.b = b, !.batch = batch]
  <2>1. WellFormed(k) /\ k.op = "offer"
    BY IdleWellFormed DEF WellFormed, Idle, Job, Op
  <2>2. Become(w, k)
    BY <1>2 DEF StartOffers
  <2>3. UNCHANGED <<state, driver, offered, timeline, photos, named, lock, won>>
    BY <1>2 DEF StartOffers, row, log
  <2> HIDE DEF k
  <2> QED BY <2>1, <2>2, <2>3, JobOnlyStep DEF TypeOK
<1>3. ASSUME NEW d \in Drivers, Offer(w, d) PROVE BaseInv'
  <2> DEFINE k == [job[w] EXCEPT !.op = "record", !.drv = d, !.batch = @ \ {d}, !.then = "offer"]
  <2>1. WellFormed(k) /\ k.op = "record"
    BY <1>1, <1>3 DEF WellFormed, Job, Op, Offer
  <2>2. Become(w, k)
    BY <1>3 DEF Offer
  <2>3. UNCHANGED <<state, driver, offered, timeline, photos, named, lock, won>>
    BY <1>3 DEF Offer, row, log
  <2> HIDE DEF k
  <2> QED BY <2>1, <2>2, <2>3, JobOnlyStep DEF TypeOK
<1>4. CASE OfferRound(w)
  <2> DEFINE b == job[w].b
             k == [job[w] EXCEPT !.op = "record", !.b = b, !.drv = NoDriver, !.then = "idle"]
  <2>1. WellFormed(k) /\ k.op = "record"
    BY <1>1, <1>4 DEF OfferRound, WellFormed, Job, Op
  <2>2. Become(w, k)
    BY <1>4 DEF OfferRound, Record
  <2>3. UNCHANGED <<state, driver, offered, timeline, photos, named, lock, won>>
    BY <1>4 DEF OfferRound, row, log
  <2> HIDE DEF k
  <2> QED BY <2>1, <2>2, <2>3, JobOnlyStep DEF TypeOK
<1> QED BY <1>2, <1>3, <1>4

LEMMA BaseTransition ==
  ASSUME BaseInv, NEW w \in Workers,
         \/ \E b \in Bookings, to \in BookingState : StartTransition(w, b, to)
         \/ TransitionRead(w)
         \/ TransitionCommit(w)
  PROVE  BaseInv'
<1> USE DEF BaseInv
<1> DEFINE j == job[w]
<1>1. WellFormed(j) /\ j \in Job
  BY DEF JobsOK, WellFormed
<1>2. ASSUME NEW b \in Bookings, NEW to \in BookingState, StartTransition(w, b, to)
      PROVE  BaseInv'
  <2> DEFINE k == [Idle EXCEPT !.op = "transition", !.b = b, !.to = to]
  <2>0. to \in RowState /\ to # "none"
    BY DEF RowState, BookingState
  <2>1. WellFormed(k) /\ k.op = "transition"
    BY <2>0, IdleWellFormed DEF WellFormed, Idle, Job, Op
  <2>2. Become(w, k)
    BY <1>2 DEF StartTransition
  <2>3. UNCHANGED <<state, driver, offered, timeline, photos, named, lock, won>>
    BY <1>2 DEF StartTransition, row, log
  <2> HIDE DEF k
  <2> QED BY <2>1, <2>2, <2>3, JobOnlyStep DEF TypeOK
<1>3. CASE TransitionRead(w)
  <2> DEFINE k == IF PhotoTaken(j.b, j.to)
                  THEN [j EXCEPT !.op = "commit", !.seq = NextSequence(j.b)]
                  ELSE Idle
  <2>1. j.b \in Bookings
    BY <1>1, <1>3 DEF TransitionRead, WellFormed
  <2>a. j.to # "none"
    BY <1>1, <1>3 DEF TransitionRead, WellFormed
  <2>2. NextSequence(j.b) \in Nat /\ NextSequence(j.b) \in 1 .. Len(timeline[j.b]) + 1
    BY <2>1, NextSequenceInRange
  <2>3. CASE PhotoTaken(j.b, j.to)
    <3>1. WellFormed(k) /\ k.seq \in 1 .. Len(timeline[k.b]) + 1
      BY <1>1, <2>1, <2>a, <2>2, <2>3 DEF WellFormed, Job, Op
    <3>2. Become(w, k)
      BY <1>3 DEF TransitionRead
    <3>3. UNCHANGED <<state, driver, offered, timeline, photos, named, lock, won>>
      BY <1>3 DEF TransitionRead, row, log
    <3> HIDE DEF k
    <3> QED BY <3>1, <3>2, <3>3, JobOnlyStep DEF TypeOK
  <2>4. CASE ~ PhotoTaken(j.b, j.to)
    <3>1. Become(w, Idle)
      BY <1>3, <2>4 DEF TransitionRead
    <3>2. UNCHANGED <<state, driver, offered, timeline, photos, named, lock, won>>
      BY <1>3 DEF TransitionRead, row, log
    <3>3. Idle.op = "idle"
      BY DEF Idle
    <3> QED BY <3>1, <3>2, <3>3, IdleWellFormed, JobOnlyStep DEF TypeOK
  <2> QED BY <2>3, <2>4
<1>4. CASE TransitionCommit(w)
  <2>1. /\ j.op = "commit" /\ j.b \in Bookings /\ j.to \in RowState
        /\ Become(w, Idle) /\ Idle.op = "idle"
        /\ UNCHANGED <<driver, offered, photos, named, lock, won>>
    BY <1>1, <1>4 DEF TransitionCommit, WellFormed, Job, Finish, Idle
  <2>2. j.seq \in 1 .. Len(timeline[j.b]) + 1
    BY <2>1 DEF SequenceRead
  <2>3. CASE /\ SequenceFree(j.b, j.seq) /\ Append1(j.b, j.seq)
             /\ state' = [state EXCEPT ![j.b] = j.to]
    <3>1. /\ job' \in [Workers -> Job] /\ timeline' \in [Bookings -> Seq(Nat)]
          /\ JobsOK' /\ TimelineGapless' /\ SequenceRead'
      BY <2>1, <2>2, <2>3, IdleWellFormed, AppendStep
    <3>2. state' \in [Bookings -> RowState]
      BY <2>1, <2>3 DEF TypeOK
    <3> QED BY <2>1, <3>1, <3>2 DEF TypeOK
  <2>4. CASE UNCHANGED <<state, timeline>>
    BY <2>1, <2>4, IdleWellFormed, JobOnlyStep DEF TypeOK
  <2> QED BY <1>4, <2>3, <2>4 DEF TransitionCommit
<1> QED BY <1>2, <1>3, <1>4

LEMMA BaseAccept ==
  ASSUME BaseInv, NEW w \in Workers,
         \/ \E b \in Bookings, d \in Drivers : StartAccept(w, b, d)
         \/ AcceptLock(w)
         \/ AcceptCommit(w)
  PROVE  BaseInv'
<1> USE DEF BaseInv
<1> DEFINE j == job[w]
<1>1. WellFormed(j) /\ j \in Job
  BY DEF JobsOK, WellFormed
<1>2. WellFormed(Idle) /\ Idle.op = "idle"
  BY IdleWellFormed DEF Idle
<1>3. ASSUME NEW b \in Bookings, NEW d \in Drivers, StartAccept(w, b, d)
      PROVE  BaseInv'
  <2> DEFINE k == [Idle EXCEPT !.op = "accept", !.b = b, !.drv = d]
  <2>1. WellFormed(k) /\ k.op = "accept"
    BY IdleWellFormed DEF WellFormed, Idle, Job, Op
  <2>2. Become(w, k)
    BY <1>3 DEF StartAccept
  <2>3. UNCHANGED <<state, driver, offered, timeline, photos, named, lock, won>>
    BY <1>3 DEF StartAccept, row, log
  <2> HIDE DEF k
  <2> QED BY <2>1, <2>2, <2>3, JobOnlyStep DEF TypeOK
<1>4. CASE AcceptLock(w)
  <2> DEFINE k == [j EXCEPT !.op = "accepting", !.seq = NextSequence(j.b)]
  <2>1. /\ j.op = "accept" /\ j.b \in Bookings /\ j.drv \in Drivers
        /\ UNCHANGED <<state, driver, offered, timeline, photos, named>>
    BY <1>1, <1>4 DEF AcceptLock, WellFormed, row, log
  <2>2. CASE Become(w, k) /\ lock' = [lock EXCEPT ![j.b] = w] /\ UNCHANGED won
    <3>1. NextSequence(j.b) \in Nat /\ NextSequence(j.b) \in 1 .. Len(timeline[j.b]) + 1
      BY <2>1, NextSequenceInRange
    <3>2. WellFormed(k) /\ k.seq \in 1 .. Len(timeline[k.b]) + 1
      BY <1>1, <2>1, <3>1 DEF WellFormed, Job, Op
    <3>3. lock' \in [Bookings -> Workers \cup {NoWorker}]
      BY <2>1, <2>2 DEF TypeOK
    <3> HIDE DEF k
    <3> QED BY <2>1, <2>2, <3>2, <3>3, JobOnlyStep DEF TypeOK
  <2>3. CASE Finish(w) /\ won' = [won EXCEPT ![j.b] = @ \cup {j.drv}] /\ UNCHANGED lock
    <3>1. won' \in [Bookings -> SUBSET Drivers]
      BY <2>1, <2>3 DEF TypeOK
    <3> QED BY <1>2, <2>1, <2>3, <3>1, JobOnlyStep DEF TypeOK, Finish
  <2>4. CASE Finish(w) /\ UNCHANGED <<lock, won>>
    BY <1>2, <2>1, <2>4, JobOnlyStep DEF TypeOK, Finish
  <2> QED BY <1>4, <2>2, <2>3, <2>4 DEF AcceptLock
<1>5. CASE AcceptCommit(w)
  <2>1. /\ j.op = "accepting" /\ j.b \in Bookings /\ j.drv \in Drivers
        /\ Become(w, Idle) /\ UNCHANGED <<offered, photos, named>>
        /\ lock' = [lock EXCEPT ![j.b] = NoWorker]
    BY <1>1, <1>5 DEF AcceptCommit, WellFormed, Finish
  <2>2. j.seq \in 1 .. Len(timeline[j.b]) + 1
    BY <2>1 DEF SequenceRead
  <2>3. lock' \in [Bookings -> Workers \cup {NoWorker}]
    BY <2>1 DEF TypeOK
  <2>4. CASE /\ SequenceFree(j.b, j.seq) /\ Append1(j.b, j.seq)
             /\ driver' = [driver EXCEPT ![j.b] = j.drv]
             /\ state' = [state EXCEPT ![j.b] = "driver_accepted"]
             /\ won' = [won EXCEPT ![j.b] = @ \cup {j.drv}]
    <3>1. /\ job' \in [Workers -> Job] /\ timeline' \in [Bookings -> Seq(Nat)]
          /\ JobsOK' /\ TimelineGapless' /\ SequenceRead'
      BY <1>2, <2>1, <2>2, <2>4, AppendStep
    <3>2. driver' \in [Bookings -> Drivers \cup {NoDriver}]
      BY <2>1, <2>4 DEF TypeOK
    <3>3. state' \in [Bookings -> RowState]
      BY <2>4 DEF TypeOK, RowState, BookingState
    <3>4. won' \in [Bookings -> SUBSET Drivers]
      BY <2>1, <2>4 DEF TypeOK
    <3> QED BY <2>1, <2>3, <3>1, <3>2, <3>3, <3>4 DEF TypeOK
  <2>5. CASE UNCHANGED <<row, timeline, won>>
    BY <1>2, <2>1, <2>3, <2>5, JobOnlyStep DEF TypeOK, row
  <2> QED BY <1>5, <2>4, <2>5 DEF AcceptCommit
<1> QED BY <1>3, <1>4, <1>5

LEMMA BaseOtherWriters ==
  ASSUME BaseInv, NEW w \in Workers,
         \/ \E b \in Bookings : Reassign(w, b) \/ StartRouteEdit(w, b)
         \/ \E b \in Bookings, to \in Pushed : SocketPush(w, b, to)
         \/ RouteSave(w)
  PROVE  BaseInv'
<1> USE DEF BaseInv
<1> DEFINE j == job[w]
<1>1. WellFormed(j) /\ j \in Job
  BY DEF JobsOK, WellFormed
<1>2. WellFormed(Idle) /\ Idle.op = "idle"
  BY IdleWellFormed DEF Idle
<1>3. ASSUME NEW b \in Bookings, Reassign(w, b) PROVE BaseInv'
  <2>1. UNCHANGED <<offered, timeline, photos, named, lock, job>>
    BY <1>3 DEF Reassign, log
  <2>2. /\ driver' \in [Bookings -> Drivers \cup {NoDriver}]
        /\ state' \in [Bookings -> RowState]
        /\ won' \in [Bookings -> SUBSET Drivers]
    BY <1>3 DEF Reassign, TypeOK, RowState, BookingState
  <2> QED BY <2>1, <2>2 DEF TypeOK, JobsOK, TimelineGapless, SequenceRead
<1>4. ASSUME NEW b \in Bookings, StartRouteEdit(w, b) PROVE BaseInv'
  <2> DEFINE k == [Idle EXCEPT !.op = "route", !.b = b, !.to = state[b], !.drv = driver[b]]
  <2>1. /\ state[b] \in RowState /\ driver[b] \in Drivers \cup {NoDriver}
        /\ state[b] # "none"
    BY <1>4 DEF TypeOK, StartRouteEdit, Exists
  <2>2. WellFormed(k) /\ k.op = "route"
    BY <2>1, IdleWellFormed DEF WellFormed, Idle, Job, Op
  <2>3. Become(w, k)
    BY <1>4 DEF StartRouteEdit
  <2>4. UNCHANGED <<state, driver, offered, timeline, photos, named, lock, won>>
    BY <1>4 DEF StartRouteEdit, row, log
  <2> HIDE DEF k
  <2> QED BY <2>2, <2>3, <2>4, JobOnlyStep DEF TypeOK
<1>5. ASSUME NEW b \in Bookings, NEW to \in Pushed, SocketPush(w, b, to) PROVE BaseInv'
  <2> DEFINE k == [job[w] EXCEPT !.op = "record", !.b = b, !.drv = NoDriver, !.then = "idle"]
  <2>1. WellFormed(k) /\ k.op = "record"
    BY <1>1 DEF WellFormed, Job, Op
  <2>2. Become(w, k)
    BY <1>5 DEF SocketPush, Record
  <2>3. UNCHANGED <<driver, offered, timeline, photos, named, lock, won>>
    BY <1>5 DEF SocketPush, log
  <2>4. state' \in [Bookings -> RowState]
    BY <1>5, PushedAssumption DEF SocketPush, TypeOK
  <2> HIDE DEF k
  <2> QED BY <2>1, <2>2, <2>3, <2>4, JobOnlyStep DEF TypeOK
<1>6. CASE RouteSave(w)
  <2>1. j.b \in Bookings /\ j.to \in RowState /\ j.drv \in Drivers \cup {NoDriver}
    BY <1>1, <1>6 DEF RouteSave, WellFormed, Job
  <2>2. Become(w, Idle) /\ UNCHANGED <<offered, timeline, photos, named, lock, won>>
    BY <1>6 DEF RouteSave, Finish, log
  <2>3. /\ state' \in [Bookings -> RowState]
        /\ driver' \in [Bookings -> Drivers \cup {NoDriver}]
    BY <1>6, <2>1 DEF RouteSave, TypeOK
  <2> QED BY <1>2, <2>2, <2>3, JobOnlyStep DEF TypeOK
<1> QED BY <1>3, <1>4, <1>5, <1>6

LEMMA BaseNext == BaseInv /\ [Next]_vars => BaseInv'
<1> SUFFICES ASSUME BaseInv, [Next]_vars PROVE BaseInv'
  OBVIOUS
<1>1. ASSUME NEW w \in Workers, Handler(w) PROVE BaseInv'
  BY <1>1, BaseRecording, BaseCreation, BaseOffering, BaseTransition, BaseAccept,
     BaseOtherWriters DEF Handler
<1>2. ASSUME NEW w \in Workers, NEW b \in Bookings, Request(w, b) PROVE BaseInv'
  BY <1>2, BaseCreation, BaseOffering, BaseTransition, BaseAccept, BaseOtherWriters
     DEF Request
<1>3. ASSUME NEW b \in Bookings, NEW kind \in PhotoKind, UploadPhoto(b, kind)
      PROVE  BaseInv'
  <2>1. UNCHANGED <<state, driver, offered, timeline, lock, job, won, named>>
    BY <1>3 DEF UploadPhoto, row, log
  <2>2. photos' \in [Bookings -> SUBSET PhotoKind]
    BY <1>3 DEF UploadPhoto, BaseInv, TypeOK
  <2> QED BY <2>1, <2>2 DEF BaseInv, TypeOK, JobsOK, TimelineGapless, SequenceRead
<1>4. CASE UNCHANGED vars
  BY <1>4 DEF vars, BaseInv, TypeOK, JobsOK, TimelineGapless, SequenceRead
<1> QED BY <1>1, <1>2, <1>3, <1>4 DEF Next

(* Type correctness, for every instance. *)
THEOREM TypeCorrect == Spec => []TypeOK
<1>1. BaseInv => TypeOK
  BY DEF BaseInv
<1> QED BY BaseInit, BaseNext, <1>1, PTL DEF Spec

(* The numbers of a booking's timeline are 1, 2, 3 ... whatever handlers   *)
(* interleave: the read of the latest number is never trusted without the  *)
(* unique constraint (trip_events/services.py, trip_events/models.py).     *)
THEOREM TimelineCorrect == Spec => []TimelineGapless
<1>1. BaseInv => TimelineGapless
  BY DEF BaseInv
<1> QED BY BaseInit, BaseNext, <1>1, PTL DEF Spec

-----------------------------------------------------------------------------
(***************************************************************************)
(* Rows come into being by their create request only, stay, and keep the   *)
(* driver it named on record; handlers work on rows that exist.            *)
(***************************************************************************)
Grounded(j) ==
  /\ j.op \notin {"idle", "release"} => Exists(j.b)
  /\ (j.op = "release" \/ j.then = "release") => Exists(j.new)
  /\ \A x \in j.close : Exists(x)

JobsGrounded == \A w \in Workers : Grounded(job[w])
Unborn == \A b \in Bookings : ~ Exists(b) => driver[b] = NoDriver /\ won[b] = {}

RowInv == BaseInv /\ JobsGrounded /\ Unborn

RowsStay ==
  \A b \in Bookings : Exists(b) => state'[b] # "none" /\ named'[b] = named[b]

Untouched(b) ==
  /\ state'[b] = state[b] /\ driver'[b] = driver[b]
  /\ won'[b] = won[b] /\ named'[b] = named[b]
Kept(b) == Exists(b) /\ state'[b] # "none" /\ named'[b] = named[b]
Made(b) == \E w \in Workers, d \in Drivers \cup {NoDriver} : Create(w, b, d)

(* What one step can do to a row. *)
LEMMA RowWritten ==
  ASSUME RowInv, [Next]_vars, NEW b \in Bookings
  PROVE  Untouched(b) \/ Kept(b) \/ Made(b)
<1> USE DEF RowInv, BaseInv
<1>1. ASSUME NEW w \in Workers, Handler(w) PROVE Untouched(b) \/ Kept(b)
  <2> DEFINE j == job[w]
  <2>1. WellFormed(j) /\ Grounded(j) /\ j \in Job
    BY DEF JobsOK, JobsGrounded, WellFormed
  <2>2. CASE RecordRead(w) \/ RecordInsert(w) \/ ReleaseDone(w) \/ OfferRound(w)
    BY <2>2 DEF RecordRead, RecordInsert, ReleaseDone, OfferRound, Untouched, row
  <2>3. ASSUME NEW x \in Bookings, ReleaseSave(w, x) PROVE Untouched(b) \/ Kept(b)
    <3>1. Exists(x)
      BY <2>1, <2>3 DEF ReleaseSave, Grounded
    <3> QED BY <2>3, <3>1 DEF ReleaseSave, ReleasedState, Untouched, Kept, TypeOK
  <2>4. CASE DispatchSave(w)
    <3>1. j.b \in Bookings /\ Exists(j.b)
      BY <2>1, <2>4 DEF DispatchSave, Grounded, WellFormed
    <3> QED BY <2>4, <3>1 DEF DispatchSave, Untouched, Kept, TypeOK
  <2>5. ASSUME NEW d \in Drivers, Offer(w, d) PROVE Untouched(b) \/ Kept(b)
    BY <2>5 DEF Offer, Untouched, row
  <2>6. CASE TransitionRead(w)
    BY <2>6 DEF TransitionRead, Untouched, row
  <2>7. CASE TransitionCommit(w)
    <3>1. j.b \in Bookings /\ Exists(j.b) /\ j.to # "none"
      BY <2>1, <2>7 DEF TransitionCommit, Grounded, WellFormed
    <3> QED BY <2>7, <3>1 DEF TransitionCommit, Untouched, Kept, TypeOK
  <2>8. CASE AcceptLock(w)
    <3>1. j.b \in Bookings /\ Exists(j.b) /\ UNCHANGED <<state, driver, named>>
      BY <2>1, <2>8 DEF AcceptLock, Grounded, WellFormed, row
    <3> QED BY <2>8, <3>1 DEF AcceptLock, Untouched, Kept, Exists, TypeOK
  <2>9. CASE AcceptCommit(w)
    <3>1. j.b \in Bookings /\ Exists(j.b)
      BY <2>1, <2>9 DEF AcceptCommit, Grounded, WellFormed
    <3> QED BY <2>9, <3>1 DEF AcceptCommit, Untouched, Kept, row, TypeOK
  <2>10. CASE RouteSave(w)
    <3>1. j.b \in Bookings /\ Exists(j.b) /\ j.to # "none"
      BY <2>1, <2>10 DEF RouteSave, Grounded, WellFormed
    <3> QED BY <2>10, <3>1 DEF RouteSave, Untouched, Kept, TypeOK
  <2> QED BY <1>1, <2>2, <2>3, <2>4, <2>5, <2>6, <2>7, <2>8, <2>9, <2>10 DEF Handler
<1>2. ASSUME NEW w \in Workers, NEW x \in Bookings, Request(w, x)
      PROVE  Untouched(b) \/ Kept(b) \/ Made(b)
  <2>1. ASSUME NEW d \in Drivers \cup {NoDriver}, Create(w, x, d)
        PROVE  Untouched(b) \/ Made(b)
    BY <2>1 DEF Create, Untouched, Made, TypeOK
  <2>2. CASE Reassign(w, x)
    BY <2>2 DEF Reassign, Untouched, Kept, TypeOK
  <2>3. ASSUME NEW to \in Pushed, SocketPush(w, x, to) PROVE Untouched(b) \/ Kept(b)
    BY <2>3, PushedAssumption DEF SocketPush, Untouched, Kept, TypeOK
  <2>4. CASE \/ Note(w, x) \/ Trigger(w, x) \/ StartRouteEdit(w, x)
             \/ \E batch \in SUBSET Drivers \ {{}} : StartOffers(w, x, batch)
             \/ \E to \in BookingState : StartTransition(w, x, to)
             \/ \E d \in Drivers : StartAccept(w, x, d)
    BY <2>4 DEF Note, Trigger, StartRouteEdit, StartOffers, StartTransition, StartAccept,
       Untouched, row
  <2> QED BY <1>2, <2>1, <2>2, <2>3, <2>4 DEF Request
<1>3. ASSUME NEW x \in Bookings, NEW kind \in PhotoKind, UploadPhoto(x, kind)
      PROVE  Untouched(b)
  BY <1>3 DEF UploadPhoto, Untouched, row
<1>4. CASE UNCHANGED vars
  BY <1>4 DEF vars, Untouched
<1> QED BY <1>1, <1>2, <1>3, <1>4 DEF Next

LEMMA RowsStayStep ==
  ASSUME RowInv, [Next]_vars PROVE RowsStay
<1> SUFFICES ASSUME NEW b \in Bookings, Exists(b)
             PROVE  state'[b] # "none" /\ named'[b] = named[b]
  BY DEF RowsStay
<1> QED BY RowWritten DEF Untouched, Kept, Made, Create, Exists

LEMMA UnbornStep ==
  ASSUME RowInv, [Next]_vars PROVE Unborn'
<1> SUFFICES ASSUME NEW b \in Bookings, ~ Exists(b)'
             PROVE  driver'[b] = NoDriver /\ won'[b] = {}
  BY DEF Unborn
<1>1. ~ Made(b)
  BY DEF Made, Create, Exists, RowInv, BaseInv, TypeOK
<1> QED BY <1>1, RowWritten DEF Untouched, Kept, Exists, RowInv, Unborn

LEMMA GroundedStep ==
  ASSUME RowInv, RowsStay, NEW w \in Workers, NEW j, Become(w, j),
         j.op \notin {"idle", "release"} => state'[j.b] # "none",
         (j.op = "release" \/ j.then = "release") => state'[j.new] # "none",
         \A x \in j.close : state'[x] # "none"
  PROVE  JobsGrounded'
<1>1. job'[w] = j /\ \A v \in Workers \ {w} : job'[v] = job[v]
  BY DEF Become, RowInv, BaseInv, TypeOK
<1>2. ASSUME NEW v \in Workers PROVE Grounded(job[v])'
  <2>1. CASE v = w
    BY <1>1, <2>1 DEF Grounded, Exists
  <2>2. CASE v # w
    <3>1. job'[v] = job[v] /\ Grounded(job[v]) /\ WellFormed(job[v])
      BY <1>1, <2>2 DEF RowInv, BaseInv, JobsGrounded, JobsOK
    <3>2. job[v].close \subseteq Bookings
      BY <3>1 DEF WellFormed, Job
    <3> QED BY <3>1, <3>2 DEF Grounded, RowsStay, WellFormed, Exists
  <2> QED BY <2>1, <2>2
<1> QED BY <1>2 DEF JobsGrounded

LEMMA GroundedHandler ==
  ASSUME RowInv, RowsStay, NEW w \in Workers, Handler(w)
  PROVE  JobsGrounded'
<1> USE DEF RowInv, BaseInv
<1> DEFINE j == job[w]
<1>1. WellFormed(j) /\ Grounded(j) /\ j \in Job /\ j.close \subseteq Bookings
  BY DEF JobsOK, JobsGrounded, WellFormed, Job
<1>2. /\ \A b \in Bookings : Exists(b) => state'[b] # "none"
      /\ \A x \in j.close : state'[x] # "none"
  BY <1>1 DEF RowsStay, Grounded
<1>3. (j.op = "release" \/ j.then = "release") => state'[j.new] # "none"
  BY <1>1, <1>2 DEF WellFormed, Grounded
<1>4. j.op \notin {"idle", "release"} => state'[j.b] # "none"
  BY <1>1, <1>2 DEF WellFormed, Grounded
<1>5. ASSUME Become(w, Idle) PROVE JobsGrounded'
  BY <1>5, GroundedStep DEF Idle
<1>6. ASSUME NEW k, Become(w, k), k.op \in Op \ {"idle", "release"}, k.b = j.b,
             j.op \notin {"idle", "release"},
             k.new = j.new, k.then = j.then, k.close \subseteq j.close
      PROVE  JobsGrounded'
  BY <1>2, <1>3, <1>4, <1>6, GroundedStep
<1>7. CASE RecordRead(w)
  <2> DEFINE k == [j EXCEPT !.op = "insert", !.seq = NextSequence(j.b)]
  <2>1. /\ k.op = "insert" /\ k.b = j.b /\ k.new = j.new /\ k.then = j.then
        /\ k.close = j.close
    BY <1>1 DEF Job
  <2>2. Become(w, k) /\ j.op = "record"
    BY <1>7 DEF RecordRead
  <2> HIDE DEF k
  <2> QED BY <1>6, <2>1, <2>2 DEF Op
<1>8. CASE RecordInsert(w)
  <2>1. j.op = "insert"
    BY <1>8 DEF RecordInsert
  <2>2. ASSUME NEW k, Become(w, k), k.op \in {"release", "offer"}, k.b = j.b,
               k.new = j.new, k.then = "idle", k.close \subseteq j.close,
               k.op = "release" => j.then = "release"
        PROVE  JobsGrounded'
    BY <1>2, <1>3, <1>4, <2>1, <2>2, GroundedStep
  <2>3. CASE j.then = "idle"
    BY <1>5, <1>8, <2>3 DEF RecordInsert, AfterRecord, AfterCollision
  <2>4. CASE j.then # "idle"
    <3> DEFINE k == [j EXCEPT !.op = j.then, !.drv = NoDriver, !.seq = 0, !.then = "idle"]
               c == [k EXCEPT !.close = {}]
    <3>1. /\ k.op = j.then /\ k.b = j.b /\ k.new = j.new /\ k.then = "idle"
          /\ k.close = j.close
          /\ c.op = j.then /\ c.b = j.b /\ c.new = j.new /\ c.then = "idle"
          /\ c.close = {}
      BY <1>1 DEF Job
    <3>2. j.then \in {"release", "offer"}
      BY <1>1, <2>4 DEF Job
    <3>3. AfterRecord(j) = k /\ AfterCollision(j) \in {c, Idle}
      BY <2>4 DEF AfterRecord, AfterCollision
    <3>4. Become(w, AfterRecord(j)) \/ Become(w, AfterCollision(j))
      BY <1>8 DEF RecordInsert
    <3> HIDE DEF k, c
    <3>5. Become(w, k) \/ Become(w, c) \/ Become(w, Idle)
      BY <3>3, <3>4 DEF Become
    <3>6. CASE Become(w, k)
      BY <2>2, <3>1, <3>2, <3>6
    <3>7. CASE Become(w, c)
      BY <2>2, <3>1, <3>2, <3>7
    <3> QED BY <1>5, <3>5, <3>6, <3>7
  <2> QED BY <2>3, <2>4
<1>9. CASE ReleaseDone(w)
  <2>1. j.op = "release" /\ DispatchRead(w, j.new) /\ state'[j.new] # "none"
    BY <1>3, <1>9 DEF ReleaseDone
  <2> DEFINE k == [Idle EXCEPT !.op = "dispatch", !.b = j.new]
  <2>2. k.op = "dispatch" /\ k.b = j.new /\ k.then = "idle" /\ k.close = {}
    BY DEF Idle
  <2>3. Become(w, k) \/ Become(w, Idle)
    BY <2>1 DEF DispatchRead
  <2> HIDE DEF k
  <2>4. CASE Become(w, k)
    BY <2>1, <2>2, <2>4, GroundedStep
  <2> QED BY <1>5, <2>3, <2>4
<1>10. CASE DispatchSave(w) \/ OfferRound(w)
  <2> DEFINE k == [j EXCEPT !.op = "record", !.b = j.b, !.drv = NoDriver, !.then = "idle"]
  <2>1. /\ k.op = "record" /\ k.b = j.b /\ k.new = j.new /\ k.then = "idle"
        /\ k.close = j.close
    BY <1>1 DEF Job
  <2>2. Become(w, k) /\ state'[j.b] # "none"
    BY <1>4, <1>10 DEF DispatchSave, OfferRound, Record
  <2> HIDE DEF k
  <2> QED BY <1>2, <2>1, <2>2, GroundedStep
<1>11. ASSUME NEW x \in Bookings, ReleaseSave(w, x) PROVE JobsGrounded'
  <2> DEFINE k == [j EXCEPT !.op = "record", !.b = x, !.close = @ \ {x}, !.then = "release"]
  <2>1. k.op = "record" /\ k.b = x /\ k.new = j.new /\ k.close = j.close \ {x}
    BY <1>1 DEF Job
  <2>2. Become(w, k) /\ x \in j.close /\ j.op = "release"
    BY <1>11 DEF ReleaseSave
  <2> HIDE DEF k
  <2> QED BY <1>2, <1>3, <2>1, <2>2, GroundedStep
<1>12. ASSUME NEW d \in Drivers, Offer(w, d) PROVE JobsGrounded'
  <2> DEFINE k == [j EXCEPT !.op = "record", !.drv = d, !.batch = @ \ {d}, !.then = "offer"]
  <2>1. /\ k.op = "record" /\ k.b = j.b /\ k.new = j.new /\ k.then = "offer"
        /\ k.close = j.close
    BY <1>1 DEF Job
  <2>2. Become(w, k) /\ state'[j.b] # "none"
    BY <1>4, <1>12 DEF Offer
  <2> HIDE DEF k
  <2> QED BY <1>2, <2>1, <2>2, GroundedStep
<1>13. CASE TransitionRead(w)
  <2> DEFINE k == [j EXCEPT !.op = "commit", !.seq = NextSequence(j.b)]
  <2>1. /\ k.op = "commit" /\ k.b = j.b /\ k.new = j.new /\ k.then = j.then
        /\ k.close = j.close
    BY <1>1 DEF Job
  <2>2. (Become(w, k) \/ Become(w, Idle)) /\ j.op = "transition"
    BY <1>13 DEF TransitionRead
  <2> HIDE DEF k
  <2>3. CASE Become(w, k)
    BY <1>6, <2>1, <2>2, <2>3 DEF Op
  <2> QED BY <1>5, <2>2, <2>3
<1>14. CASE AcceptLock(w)
  <2> DEFINE k == [j EXCEPT !.op = "accepting", !.seq = NextSequence(j.b)]
  <2>1. /\ k.op = "accepting" /\ k.b = j.b /\ k.new = j.new /\ k.then = j.then
        /\ k.close = j.close
    BY <1>1 DEF Job
  <2>2. (Become(w, k) \/ Become(w, Idle)) /\ j.op = "accept"
    BY <1>14 DEF AcceptLock, Finish
  <2> HIDE DEF k
  <2>3. CASE Become(w, k)
    BY <1>6, <2>1, <2>2, <2>3 DEF Op
  <2> QED BY <1>5, <2>2, <2>3
<1>15. CASE TransitionCommit(w) \/ AcceptCommit(w) \/ RouteSave(w)
  BY <1>5, <1>15 DEF TransitionCommit, AcceptCommit, RouteSave, Finish
<1> QED BY <1>7, <1>8, <1>9, <1>10, <1>11, <1>12, <1>13, <1>14, <1>15 DEF Handler

LEMMA GroundedRequest ==
  ASSUME RowInv, RowsStay, NEW w \in Workers, NEW b \in Bookings, Request(w, b)
  PROVE  JobsGrounded'
<1> USE DEF RowInv, BaseInv
<1>1. WellFormed(job[w]) /\ Grounded(job[w]) /\ job[w] \in Job
      /\ job[w].close \subseteq Bookings
  BY DEF JobsOK, JobsGrounded, WellFormed, Job
<1>2. Exists(b) => state'[b] # "none"
  BY DEF RowsStay
<1>3. ASSUME NEW k, Become(w, k), Exists(b), k.b = b, k.op # "release",
             k.then = "idle", k.close = {}
      PROVE  JobsGrounded'
  BY <1>2, <1>3, GroundedStep
<1>4. ASSUME NEW d \in Drivers \cup {NoDriver}, Create(w, b, d) PROVE JobsGrounded'
  <2> DEFINE old == {x \in Bookings \ {b} : /\ CustomerOf[x] = CustomerOf[b]
                                           /\ driver[x] # NoDriver
                                           /\ state[x] \in OnTrip}
             k == [Idle EXCEPT !.op = "release", !.new = b, !.close = old]
  <2>1. k.op = "release" /\ k.new = b /\ k.close = old /\ k.then = "idle"
    BY DEF Idle
  <2>2. Become(w, k) /\ state'[b] = "pending_quote"
    BY <1>4 DEF Create, TypeOK
  <2>3. \A x \in old : state'[x] # "none"
    BY DEF OnTrip, RowsStay, Exists
  <2> HIDE DEF k, old
  <2> QED BY <2>1, <2>2, <2>3, GroundedStep
<1>5. CASE Note(w, b)
  <2> DEFINE k == [job[w] EXCEPT !.op = "record", !.b = b, !.drv = NoDriver, !.then = "idle"]
  <2>1. k.op = "record" /\ k.b = b /\ k.then = "idle" /\ k.close = job[w].close
    BY <1>1 DEF Job
  <2>2. Become(w, k) /\ Exists(b)
    BY <1>5 DEF Note, Record
  <2>3. \A x \in job[w].close : state'[x] # "none"
    BY <1>1 DEF Grounded, RowsStay
  <2> HIDE DEF k
  <2> QED BY <1>2, <2>1, <2>2, <2>3, GroundedStep
<1>6. CASE Trigger(w, b)
  <2> DEFINE k == [Idle EXCEPT !.op = "dispatch", !.b = b]
  <2>1. k.op = "dispatch" /\ k.b = b /\ k.then = "idle" /\ k.close = {}
    BY DEF Idle
  <2>2. Become(w, k) /\ Exists(b)
    BY <1>6 DEF Trigger, DispatchRead, Dispatchable, Exists
  <2> HIDE DEF k
  <2> QED BY <1>3, <2>1, <2>2
<1>7. CASE Reassign(w, b)
  <2>1. job' = job
    BY <1>7 DEF Reassign
  <2>2. ASSUME NEW v \in Workers PROVE Grounded(job[v])'
    <3>1. job'[v] = job[v] /\ Grounded(job[v]) /\ WellFormed(job[v])
      BY <2>1 DEF JobsGrounded, JobsOK
    <3>2. job[v].close \subseteq Bookings
      BY <3>1 DEF WellFormed, Job
    <3> QED BY <3>1, <3>2 DEF Grounded, RowsStay, WellFormed, Exists
  <2> QED BY <2>2 DEF JobsGrounded
<1>8. CASE StartRouteEdit(w, b)
  <2> DEFINE k == [Idle EXCEPT !.op = "route", !.b = b, !.to = state[b], !.drv = driver[b]]
  <2>1. k.op = "route" /\ k.b = b /\ k.then = "idle" /\ k.close = {}
    BY DEF Idle
  <2>2. Become(w, k) /\ Exists(b)
    BY <1>8 DEF StartRouteEdit
  <2> HIDE DEF k
  <2> QED BY <1>3, <2>1, <2>2
<1>9. ASSUME NEW batch \in SUBSET Drivers \ {{}}, StartOffers(w, b, batch) PROVE JobsGrounded'
  <2> DEFINE k == [Idle EXCEPT !.op = "offer", !.b = b, !.batch = batch]
  <2>1. k.op = "offer" /\ k.b = b /\ k.then = "idle" /\ k.close = {}
    BY DEF Idle
  <2>2. Become(w, k) /\ Exists(b)
    BY <1>9 DEF StartOffers, Exists
  <2> HIDE DEF k
  <2> QED BY <1>3, <2>1, <2>2
<1>10. ASSUME NEW to \in BookingState, StartTransition(w, b, to) PROVE JobsGrounded'
  <2> DEFINE k == [Idle EXCEPT !.op = "transition", !.b = b, !.to = to]
  <2>1. k.op = "transition" /\ k.b = b /\ k.then = "idle" /\ k.close = {}
    BY DEF Idle
  <2>2. Become(w, k) /\ Exists(b)
    BY <1>10 DEF StartTransition
  <2> HIDE DEF k
  <2> QED BY <1>3, <2>1, <2>2
<1>11. ASSUME NEW to \in Pushed, SocketPush(w, b, to) PROVE JobsGrounded'
  <2> DEFINE k == [job[w] EXCEPT !.op = "record", !.b = b, !.drv = NoDriver, !.then = "idle"]
  <2>1. k.op = "record" /\ k.b = b /\ k.then = "idle" /\ k.close = job[w].close
    BY <1>1 DEF Job
  <2>2. Become(w, k) /\ Exists(b)
    BY <1>11 DEF SocketPush, Record
  <2>3. \A x \in job[w].close : state'[x] # "none"
    BY <1>1 DEF Grounded, RowsStay
  <2> HIDE DEF k
  <2> QED BY <1>2, <2>1, <2>2, <2>3, GroundedStep
<1>12. ASSUME NEW d \in Drivers, StartAccept(w, b, d) PROVE JobsGrounded'
  <2> DEFINE k == [Idle EXCEPT !.op = "accept", !.b = b, !.drv = d]
  <2>1. k.op = "accept" /\ k.b = b /\ k.then = "idle" /\ k.close = {}
    BY DEF Idle
  <2>2. Become(w, k) /\ Exists(b)
    BY <1>12 DEF StartAccept, Exists
  <2> HIDE DEF k
  <2> QED BY <1>3, <2>1, <2>2
<1> QED BY <1>4, <1>5, <1>6, <1>7, <1>8, <1>9, <1>10, <1>11, <1>12 DEF Request

LEMMA RowInit == Init => RowInv
BY BaseInit DEF Init, RowInv, JobsGrounded, Grounded, Unborn, Idle

LEMMA RowNext == RowInv /\ [Next]_vars => RowInv' /\ RowsStay
<1> SUFFICES ASSUME RowInv, [Next]_vars PROVE RowInv' /\ RowsStay
  OBVIOUS
<1>1. RowsStay /\ Unborn'
  BY RowsStayStep, UnbornStep
<1>2. BaseInv'
  BY BaseNext DEF RowInv
<1>3. ASSUME NEW w \in Workers, Handler(w) PROVE JobsGrounded'
  BY <1>1, <1>3, GroundedHandler
<1>6. ASSUME NEW w \in Workers, NEW b \in Bookings, Request(w, b) PROVE JobsGrounded'
  BY <1>1, <1>6, GroundedRequest
<1>4. ASSUME state' = state, job' = job PROVE JobsGrounded'
  BY <1>4 DEF RowInv, JobsGrounded, Grounded, Exists
<1>5. ASSUME NEW b \in Bookings, NEW kind \in PhotoKind, UploadPhoto(b, kind)
      PROVE  JobsGrounded'
  BY <1>4, <1>5 DEF UploadPhoto, row
<1>7. ASSUME UNCHANGED vars PROVE JobsGrounded'
  BY <1>4, <1>7 DEF vars
<1>8. JobsGrounded'
  BY <1>3, <1>5, <1>6, <1>7 DEF Next
<1> QED BY <1>1, <1>2, <1>8 DEF RowInv

-----------------------------------------------------------------------------
(***************************************************************************)
(* Who gets the trip.  The invariant that carries the proof is about the   *)
(* accept between its checks and its commit: it holds the row lock, and    *)
(* what it checked is still so.                                            *)
(***************************************************************************)
Held(w, j) ==
  /\ lock[j.b] = w
  /\ state[j.b] = "searching_driver" /\ driver[j.b] = NoDriver
  /\ j.drv \in offered[j.b]
  /\ j.seq = Len(timeline[j.b]) + 1

Carried(j) ==
  /\ j.b \in RouteEdited
  /\ j.drv \in offered[j.b] \cup {named[j.b], NoDriver}

AcceptHeld   == \A w \in Workers : job[w].op = "accepting" => Held(w, job[w])
RouteCarries == \A w \in Workers : job[w].op = "route" => Carried(job[w])

AwardInv ==
  RowInv /\ AcceptHeld /\ RouteCarries /\ AssignedWasOffered /\ WinnerKeepsTrip

(* What a step of w must leave alone for the accepts of other workers. *)
KeepsHeld(w) ==
  \A v \in Workers \ {w} : job[v].op = "accepting" =>
    LET b == job[v].b IN
    /\ lock'[b] = lock[b] /\ state'[b] = state[b] /\ driver'[b] = driver[b]
    /\ timeline'[b] = timeline[b]

(* Rows that no accept holds may be written freely. *)
LEMMA UnlockedIsNotHeld ==
  ASSUME AwardInv, NEW b \in Bookings, Unlocked(b),
         NEW v \in Workers, job[v].op = "accepting"
  PROVE  job[v].b # b /\ job[v].b \in Bookings
BY NullsAssumption DEF AwardInv, RowInv, AcceptHeld, Held, Unlocked, BaseInv, JobsOK, WellFormed

(* A step that changes only the job of w. *)
OnlyJob(w) == \A v \in Workers \ {w} : job'[v] = job[v]

LEMMA BecomeNew ==
  ASSUME AwardInv, NEW w \in Workers, NEW j, Become(w, j)
  PROVE  OnlyJob(w) /\ job'[w] = j
BY DEF Become, OnlyJob, AwardInv, RowInv, BaseInv, TypeOK

LEMMA HeldStep ==
  ASSUME AwardInv, RowsStay, NEW w \in Workers, OnlyJob(w), KeepsHeld(w),
         \A b \in Bookings : offered[b] \subseteq offered'[b],
         job'[w].op = "accepting" => Held(w, job[w])',
         job'[w].op = "route" => Carried(job[w])'
  PROVE  AcceptHeld' /\ RouteCarries'
<1>1. ASSUME NEW v \in Workers, job'[v].op = "accepting"
      PROVE  Held(v, job[v])' 
  <2>1. CASE v = w
    BY <1>1, <2>1
  <2>2. CASE v # w
    <3>1. job'[v] = job[v] /\ job[v].op = "accepting" /\ job[v].b \in Bookings
      BY <1>1, <2>2 DEF OnlyJob, AwardInv, RowInv, BaseInv, JobsOK, WellFormed
    <3>2. Held(v, job[v])
      BY <3>1 DEF AwardInv, RowInv, AcceptHeld
    <3>3. /\ lock'[job[v].b] = lock[job[v].b]
          /\ state'[job[v].b] = state[job[v].b]
          /\ driver'[job[v].b] = driver[job[v].b]
          /\ timeline'[job[v].b] = timeline[job[v].b]
      BY <2>2, <3>1 DEF KeepsHeld
    <3>4. offered[job[v].b] \subseteq offered'[job[v].b]
      BY <3>1
    <3> QED BY <3>1, <3>2, <3>3, <3>4 DEF Held
  <2> QED BY <2>1, <2>2
<1>2. ASSUME NEW v \in Workers, job'[v].op = "route"
      PROVE  Carried(job[v])'
  <2>1. CASE v = w
    BY <1>2, <2>1
  <2>2. CASE v # w
    <3>1. /\ job'[v] = job[v] /\ job[v].b \in Bookings
          /\ Carried(job[v]) /\ Exists(job[v].b)
      BY <1>2, <2>2 DEF OnlyJob, AwardInv, RowInv, BaseInv, JobsOK, WellFormed,
         RouteCarries, JobsGrounded, Grounded
    <3> QED BY <3>1 DEF Carried, RowsStay
  <2> QED BY <2>1, <2>2
<1> QED BY <1>1, <1>2 DEF AcceptHeld, RouteCarries

(* A step that leaves drivers and answers alone, and only adds offers. *)
LEMMA SameDrivers ==
  ASSUME AwardInv, RowsStay, driver' = driver, won' = won,
         \A b \in Bookings : offered[b] \subseteq offered'[b]
  PROVE  AssignedWasOffered' /\ WinnerKeepsTrip'
<1>1. ASSUME NEW b \in Bookings
      PROVE  driver'[b] \in offered'[b] \cup {named'[b], NoDriver}
  <2>1. CASE Exists(b)
    BY <2>1 DEF AwardInv, AssignedWasOffered, RowsStay
  <2>2. CASE ~ Exists(b)
    BY <2>2 DEF AwardInv, RowInv, Unborn
  <2> QED BY <2>1, <2>2
<1>2. WinnerKeepsTrip'
  BY DEF AwardInv, WinnerKeepsTrip
<1> QED BY <1>1, <1>2 DEF AssignedWasOffered

LEMMA AwardQuiet ==
  ASSUME AwardInv, RowInv', RowsStay, NEW w \in Workers, OnlyJob(w),
         job'[w].op \notin {"accepting", "route"},
         UNCHANGED <<state, driver, offered, timeline, lock, won>>
  PROVE  AwardInv'
<1>2. KeepsHeld(w)
  BY DEF KeepsHeld
<1>3. AcceptHeld' /\ RouteCarries'
  BY <1>2, HeldStep
<1> QED BY <1>3, SameDrivers DEF AwardInv, RowInv

(* A write of the state or the timeline of a row no accept holds. *)
LEMMA AwardWrite ==
  ASSUME AwardInv, RowInv', RowsStay, NEW w \in Workers, OnlyJob(w),
         job'[w].op \notin {"accepting", "route"},
         NEW b \in Bookings,
         \A v \in Workers : job[v].op = "accepting" => job[v].b # b,
         \A x \in Bookings \ {b} : state'[x] = state[x] /\ timeline'[x] = timeline[x],
         \A x \in Bookings : offered[x] \subseteq offered'[x],
         UNCHANGED <<driver, lock, won>>
  PROVE  AwardInv'
<1>2. KeepsHeld(w)
  BY DEF KeepsHeld, AwardInv, RowInv, BaseInv, JobsOK, WellFormed
<1>3. AcceptHeld' /\ RouteCarries'
  BY <1>2, HeldStep
<1> QED BY <1>3, SameDrivers DEF AwardInv, RowInv

LEMMA AwardRecording ==
  ASSUME AwardInv, RowInv', RowsStay, NEW w \in Workers, RecordRead(w) \/ RecordInsert(w)
  PROVE  AwardInv'
<1> DEFINE j == job[w]
<1>1. WellFormed(j)
  BY DEF AwardInv, RowInv, BaseInv, JobsOK
<1>2. CASE RecordRead(w)
  <2> DEFINE k == [j EXCEPT !.op = "insert", !.seq = NextSequence(j.b)]
  <2>1. k.op = "insert"
    BY <1>1 DEF WellFormed, Job
  <2>2. Become(w, k) /\ UNCHANGED <<state, driver, offered, timeline, lock, won>>
    BY <1>2 DEF RecordRead, row, log
  <2> HIDE DEF k
  <2>3. OnlyJob(w) /\ job'[w] = k
    BY <2>2, BecomeNew
  <2> QED BY <2>1, <2>2, <2>3, AwardQuiet
<1>3. CASE RecordInsert(w)
  <2>1. /\ j.op = "insert" /\ j.b \in Bookings /\ Unlocked(j.b)
        /\ UNCHANGED <<state, driver, photos, named, lock, won>>
    BY <1>1, <1>3 DEF RecordInsert, WellFormed, row
  <2>2. AfterRecord(j).op \notin {"accepting", "route"}
    BY <1>1 DEF AfterRecord, Idle, WellFormed, Job
  <2>3. AfterCollision(j).op \notin {"accepting", "route"}
    <3>1. CASE j.then = "release"
      BY <1>1, <3>1 DEF AfterCollision, AfterRecord, WellFormed, Job
    <3>2. CASE j.then # "release"
      BY <3>2 DEF AfterCollision, Idle
    <3> QED BY <3>1, <3>2
  <2>4. CASE /\ Append1(j.b, j.seq) /\ Become(w, AfterRecord(j))
             /\ offered' = [offered EXCEPT ![j.b] = @ \cup ({j.drv} \ {NoDriver})]
    <3>1. \A x \in Bookings : offered[x] \subseteq offered'[x]
      BY <2>4 DEF AwardInv, RowInv, BaseInv, TypeOK
    <3>2. \A x \in Bookings \ {j.b} : state'[x] = state[x] /\ timeline'[x] = timeline[x]
      BY <2>1, <2>4 DEF Append1, AwardInv, RowInv, BaseInv, TypeOK
    <3>3. \A v \in Workers : job[v].op = "accepting" => job[v].b # j.b
      BY <2>1, UnlockedIsNotHeld
    <3>4. OnlyJob(w) /\ job'[w].op \notin {"accepting", "route"}
      BY <2>2, <2>4, BecomeNew
    <3> QED BY <2>1, <3>1, <3>2, <3>3, <3>4, AwardWrite
  <2>5. CASE Become(w, AfterCollision(j)) /\ UNCHANGED log
    <3>1. OnlyJob(w) /\ job'[w].op \notin {"accepting", "route"}
      BY <2>3, <2>5, BecomeNew
    <3> QED BY <2>1, <2>5, <3>1, AwardQuiet DEF log
  <2> QED BY <1>3, <2>4, <2>5 DEF RecordInsert
<1> QED BY <1>2, <1>3

LEMMA AwardCreation ==
  ASSUME AwardInv, RowInv', RowsStay, NEW w \in Workers,
         \/ \E b \in Bookings, d \in Drivers \cup {NoDriver} : Create(w, b, d)
         \/ \E b \in Bookings : Note(w, b) \/ Trigger(w, b)
         \/ \E x \in Bookings : ReleaseSave(w, x)
         \/ ReleaseDone(w)
         \/ DispatchSave(w)
  PROVE  AwardInv'
<1>1. WellFormed(job[w]) /\ job[w] \in Job
  BY DEF AwardInv, RowInv, BaseInv, JobsOK, WellFormed
<1>2. ASSUME NEW b \in Bookings, NEW d \in Drivers \cup {NoDriver}, Create(w, b, d)
      PROVE  AwardInv'
  <2>1. OnlyJob(w) /\ job'[w].op = "release"
    BY <1>2 DEF Create, Idle, Become, OnlyJob, AwardInv, RowInv, BaseInv, TypeOK
  <2>2. /\ ~ Exists(b) /\ won[b] = {}
        /\ driver'[b] = d /\ named'[b] = d
        /\ \A x \in Bookings \ {b} : /\ state'[x] = state[x] /\ driver'[x] = driver[x]
                                     /\ named'[x] = named[x]
        /\ UNCHANGED <<offered, timeline, lock, won>>
    BY <1>2 DEF Create, log, AwardInv, RowInv, Unborn, BaseInv, TypeOK
  <2>3. \A v \in Workers : job[v].op = "accepting" => job[v].b # b /\ job[v].b \in Bookings
    BY <2>2 DEF Exists, AwardInv, AcceptHeld, Held, RowInv, BaseInv, JobsOK, WellFormed
  <2>4. KeepsHeld(w)
    BY <2>2, <2>3 DEF KeepsHeld
  <2>5. AcceptHeld' /\ RouteCarries'
    BY <2>1, <2>2, <2>4, HeldStep
  <2>6. AssignedWasOffered'
    BY <2>2 DEF AwardInv, AssignedWasOffered
  <2>7. WinnerKeepsTrip'
    BY <2>2 DEF AwardInv, WinnerKeepsTrip
  <2> QED BY <2>5, <2>6, <2>7 DEF AwardInv
<1>3. ASSUME NEW b \in Bookings, Note(w, b) PROVE AwardInv'
  <2>1. OnlyJob(w) /\ job'[w].op = "record"
    BY <1>1, <1>3 DEF Note, Record, Job, Become, OnlyJob, AwardInv, RowInv, BaseInv, TypeOK
  <2> QED BY <1>3, <2>1, AwardQuiet DEF Note, row, log
<1>4. ASSUME NEW b \in Bookings, DispatchRead(w, b), UNCHANGED <<row, log, photos, named, lock, won>>
      PROVE  AwardInv'
  <2>1. OnlyJob(w) /\ job'[w].op \in {"dispatch", "idle"}
    BY <1>4 DEF DispatchRead, Idle, Become, OnlyJob, AwardInv, RowInv, BaseInv, TypeOK
  <2> QED BY <1>4, <2>1, AwardQuiet DEF row, log
<1>5. ASSUME NEW b \in Bookings, Trigger(w, b) PROVE AwardInv'
  BY <1>4, <1>5 DEF Trigger
<1>6. CASE ReleaseDone(w)
  BY <1>1, <1>4, <1>6 DEF ReleaseDone, WellFormed
<1>7. ASSUME NEW x \in Bookings, ReleaseSave(w, x) PROVE AwardInv'
  <2>1. OnlyJob(w) /\ job'[w].op = "record"
    BY <1>1, <1>7 DEF ReleaseSave, Job, Become, OnlyJob, AwardInv, RowInv, BaseInv, TypeOK
  <2>2. UNCHANGED <<driver, offered, timeline, lock, won>>
    BY <1>7 DEF ReleaseSave, log
  <2>3. \A v \in Workers : job[v].op = "accepting" => job[v].b # x
    BY <1>7, UnlockedIsNotHeld DEF ReleaseSave
  <2>4. \A y \in Bookings \ {x} : state'[y] = state[y] /\ timeline'[y] = timeline[y]
    BY <1>7, <2>2 DEF ReleaseSave, AwardInv, RowInv, BaseInv, TypeOK
  <2> QED BY <2>1, <2>2, <2>3, <2>4, AwardWrite
<1>8. CASE DispatchSave(w)
  <2> DEFINE b == job[w].b
  <2>1. b \in Bookings /\ Unlocked(b)
    BY <1>1, <1>8 DEF DispatchSave, WellFormed
  <2>2. OnlyJob(w) /\ job'[w].op = "record"
    BY <1>1, <1>8 DEF DispatchSave, Record, Job, Become, OnlyJob, AwardInv, RowInv, BaseInv, TypeOK
  <2>3. UNCHANGED <<driver, offered, timeline, lock, won>>
    BY <1>8 DEF DispatchSave, log
  <2>4. \A v \in Workers : job[v].op = "accepting" => job[v].b # b
    BY <2>1, UnlockedIsNotHeld
  <2>5. \A y \in Bookings \ {b} : state'[y] = state[y] /\ timeline'[y] = timeline[y]
    BY <1>8, <2>3 DEF DispatchSave, AwardInv, RowInv, BaseInv, TypeOK
  <2> QED BY <2>1, <2>2, <2>3, <2>4, <2>5, AwardWrite
<1> QED BY <1>2, <1>3, <1>5, <1>6, <1>7, <1>8

LEMMA AwardOffering ==
  ASSUME AwardInv, RowInv', RowsStay, NEW w \in Workers,
         \/ \E b \in Bookings, batch \in SUBSET Drivers : StartOffers(w, b, batch)
         \/ \E d \in Drivers : Offer(w, d)
         \/ OfferRound(w)
  PROVE  AwardInv'
<1>1. job[w] \in Job
  BY DEF AwardInv, RowInv, BaseInv, JobsOK, WellFormed
<1>2. ASSUME NEW b \in Bookings, NEW batch \in SUBSET Drivers, StartOffers(w, b, batch)
      PROVE  OnlyJob(w) /\ job'[w].op = "offer"
  BY <1>2 DEF StartOffers, Idle, Become, OnlyJob, AwardInv, RowInv, BaseInv, TypeOK
<1>3. ASSUME NEW d \in Drivers, Offer(w, d)
      PROVE  OnlyJob(w) /\ job'[w].op = "record"
  BY <1>1, <1>3 DEF Offer, Job, Become, OnlyJob, AwardInv, RowInv, BaseInv, TypeOK
<1>4. CASE OfferRound(w)
  <2>1. OnlyJob(w) /\ job'[w].op = "record"
    BY <1>1, <1>4 DEF OfferRound, Record, Job, Become, OnlyJob, AwardInv, RowInv, BaseInv, TypeOK
  <2> QED BY <1>4, <2>1, AwardQuiet DEF OfferRound, row, log
<1> QED BY <1>2, <1>3, <1>4, AwardQuiet DEF StartOffers, Offer, row, log

LEMMA AwardTransition ==
  ASSUME AwardInv, RowInv', RowsStay, NEW w \in Workers,
         \/ \E b \in Bookings, to \in BookingState : StartTransition(w, b, to)
         \/ TransitionRead(w)
         \/ TransitionCommit(w)
  PROVE  AwardInv'
<1> DEFINE j == job[w]
<1>1. WellFormed(j) /\ j \in Job
  BY DEF AwardInv, RowInv, BaseInv, JobsOK, WellFormed
<1>2. ASSUME NEW b \in Bookings, NEW to \in BookingState, StartTransition(w, b, to)
      PROVE  AwardInv'
  <2>1. OnlyJob(w) /\ job'[w].op = "transition"
    BY <1>2 DEF StartTransition, Idle, Become, OnlyJob, AwardInv, RowInv, BaseInv, TypeOK
  <2> QED BY <1>2, <2>1, AwardQuiet DEF StartTransition, row, log
<1>3. CASE TransitionRead(w)
  <2>1. OnlyJob(w) /\ job'[w].op \in {"commit", "idle"}
    BY <1>1, <1>3 DEF TransitionRead, Idle, Job, Become, OnlyJob, AwardInv, RowInv, BaseInv, TypeOK
  <2> QED BY <1>3, <2>1, AwardQuiet DEF TransitionRead, row, log
<1>4. CASE TransitionCommit(w)
  <2>1. /\ j.b \in Bookings /\ Unlocked(j.b) /\ Become(w, Idle)
        /\ UNCHANGED <<driver, offered, photos, named, lock, won>>
    BY <1>1, <1>4 DEF TransitionCommit, WellFormed, Finish
  <2>2. \A v \in Workers : job[v].op = "accepting" => job[v].b # j.b
    BY <2>1, UnlockedIsNotHeld
  <2>3. \A x \in Bookings \ {j.b} : state'[x] = state[x] /\ timeline'[x] = timeline[x]
    BY <1>4 DEF TransitionCommit, Append1, AwardInv, RowInv, BaseInv, TypeOK
  <2>4. OnlyJob(w) /\ job'[w].op = "idle"
    BY <2>1, BecomeNew DEF Idle
  <2> QED BY <2>1, <2>2, <2>3, <2>4, AwardWrite
<1> QED BY <1>2, <1>3, <1>4

LEMMA AwardAccept ==
  ASSUME AwardInv, RowInv', RowsStay, NEW w \in Workers,
         \/ \E b \in Bookings, d \in Drivers : StartAccept(w, b, d)
         \/ AcceptLock(w)
         \/ AcceptCommit(w)
  PROVE  AwardInv'
<1> DEFINE j == job[w]
<1>1. WellFormed(j) /\ j \in Job
  BY DEF AwardInv, RowInv, BaseInv, JobsOK, WellFormed
<1>2. ASSUME NEW b \in Bookings, NEW d \in Drivers, StartAccept(w, b, d)
      PROVE  AwardInv'
  <2>1. OnlyJob(w) /\ job'[w].op = "accept"
    BY <1>2 DEF StartAccept, Idle, Become, OnlyJob, AwardInv, RowInv, BaseInv, TypeOK
  <2> QED BY <1>2, <2>1, AwardQuiet DEF StartAccept, row, log
<1>3. CASE AcceptLock(w)
  <2>1. /\ j.op = "accept" /\ j.b \in Bookings /\ j.drv \in Drivers /\ Unlocked(j.b)
        /\ UNCHANGED <<state, driver, offered, timeline, photos, named>>
    BY <1>1, <1>3 DEF AcceptLock, WellFormed, row, log
  <2>2. CASE /\ CanAccept(j.b, j.drv) /\ UNCHANGED won
             /\ Become(w, [j EXCEPT !.op = "accepting", !.seq = NextSequence(j.b)])
             /\ lock' = [lock EXCEPT ![j.b] = w]
    <3>1. OnlyJob(w) /\ job'[w] = [j EXCEPT !.op = "accepting", !.seq = NextSequence(j.b)]
      BY <2>2, BecomeNew
    <3>2. job'[w].b = j.b /\ job'[w].drv = j.drv /\ job'[w].seq = NextSequence(j.b)
          /\ job'[w].op = "accepting"
      BY <1>1, <3>1 DEF Job
    <3>3. NextSequence(j.b) = Len(timeline[j.b]) + 1
      BY <2>1, NextSequenceInRange DEF AwardInv, RowInv
    <3>4. Held(w, job[w])'
      BY <2>1, <2>2, <3>2, <3>3 DEF Held, CanAccept, AwardInv, RowInv, BaseInv, TypeOK
    <3>5. KeepsHeld(w)
      BY <2>1, <2>2, UnlockedIsNotHeld DEF KeepsHeld, AwardInv, RowInv, BaseInv, TypeOK
    <3>6. AcceptHeld' /\ RouteCarries'
      BY <2>1, <3>1, <3>2, <3>4, <3>5, HeldStep
    <3> QED BY <2>1, <2>2, <3>6, SameDrivers DEF AwardInv, RowInv
  <2>3. CASE /\ AlreadyMine(j.b, j.drv) /\ Finish(w) /\ UNCHANGED lock
             /\ won' = [won EXCEPT ![j.b] = @ \cup {j.drv}]
    <3>1. OnlyJob(w) /\ job'[w].op = "idle"
      BY <2>3, BecomeNew DEF Finish, Idle
    <3>2. KeepsHeld(w)
      BY <2>1, <2>3 DEF KeepsHeld
    <3>3. AcceptHeld' /\ RouteCarries'
      BY <2>1, <3>1, <3>2, HeldStep
    <3>4. AssignedWasOffered'
      BY <2>1 DEF AwardInv, RowInv, AssignedWasOffered
    <3>5. WinnerKeepsTrip'
      BY <2>1, <2>3 DEF AwardInv, RowInv, WinnerKeepsTrip, AlreadyMine, BaseInv, TypeOK
    <3> QED BY <3>3, <3>4, <3>5 DEF AwardInv, RowInv
  <2>4. CASE Finish(w) /\ UNCHANGED <<lock, won>>
    <3>1. OnlyJob(w) /\ job'[w].op = "idle"
      BY <2>4, BecomeNew DEF Finish, Idle
    <3> QED BY <2>1, <2>4, <3>1, AwardQuiet
  <2> QED BY <1>3, <2>2, <2>3, <2>4 DEF AcceptLock
<1>4. CASE AcceptCommit(w)
  <2>1. /\ j.op = "accepting" /\ j.b \in Bookings /\ j.drv \in Drivers
        /\ Finish(w) /\ UNCHANGED <<offered, photos, named>>
        /\ lock' = [lock EXCEPT ![j.b] = NoWorker]
    BY <1>1, <1>4 DEF AcceptCommit, WellFormed
  <2>2. Held(w, j)
    BY <2>1 DEF AwardInv, RowInv, AcceptHeld
  <2>3. OnlyJob(w) /\ job'[w].op = "idle"
    BY <2>1, BecomeNew DEF Finish, Idle
  <2>4. ASSUME NEW v \in Workers \ {w}, job[v].op = "accepting"
        PROVE  job[v].b # j.b /\ job[v].b \in Bookings
    BY <2>2, <2>4 DEF Held, AwardInv, RowInv, AcceptHeld, BaseInv, JobsOK, WellFormed
  <2>5. CASE /\ Append1(j.b, j.seq)
             /\ driver' = [driver EXCEPT ![j.b] = j.drv]
             /\ state' = [state EXCEPT ![j.b] = "driver_accepted"]
             /\ won' = [won EXCEPT ![j.b] = @ \cup {j.drv}]
    <3>1. KeepsHeld(w)
      BY <2>1, <2>4, <2>5 DEF KeepsHeld, Append1, AwardInv, RowInv, BaseInv, TypeOK
    <3>2. AcceptHeld' /\ RouteCarries'
      BY <2>1, <2>3, <3>1, HeldStep
    <3>3. AssignedWasOffered'
      BY <2>1, <2>2, <2>5 DEF Held, AwardInv, RowInv, AssignedWasOffered, BaseInv, TypeOK
    <3>4. ASSUME NEW b \in Bookings \ RouteEdited, NEW d \in won'[b]
          PROVE  driver'[b] = d
      <4>1. CASE b = j.b
        <5>1. won[b] = {}
          BY <2>2, <4>1, NullsAssumption
             DEF Held, AwardInv, RowInv, WinnerKeepsTrip, BaseInv, TypeOK
        <5> QED BY <2>1, <2>5, <3>4, <4>1, <5>1 DEF AwardInv, RowInv, BaseInv, TypeOK
      <4>2. CASE b # j.b
        BY <2>5, <3>4, <4>2 DEF AwardInv, RowInv, WinnerKeepsTrip, BaseInv, TypeOK
      <4> QED BY <4>1, <4>2
    <3>5. WinnerKeepsTrip'
      BY <3>4 DEF WinnerKeepsTrip
    <3> QED BY <3>2, <3>3, <3>5 DEF AwardInv, RowInv
  <2>6. CASE UNCHANGED <<row, timeline, won>>
    <3>1. KeepsHeld(w)
      BY <2>1, <2>4, <2>6 DEF KeepsHeld, row, AwardInv, RowInv, BaseInv, TypeOK
    <3>2. AcceptHeld' /\ RouteCarries'
      BY <2>1, <2>3, <3>1, HeldStep
    <3> QED BY <2>1, <2>6, <3>2, SameDrivers DEF AwardInv, RowInv, row
  <2> QED BY <1>4, <2>5, <2>6 DEF AcceptCommit
<1> QED BY <1>2, <1>3, <1>4

LEMMA AwardOtherWriters ==
  ASSUME AwardInv, RowInv', RowsStay, NEW w \in Workers,
         \/ \E b \in Bookings : Reassign(w, b) \/ StartRouteEdit(w, b)
         \/ \E b \in Bookings, to \in Pushed : SocketPush(w, b, to)
         \/ RouteSave(w)
  PROVE  AwardInv'
<1> DEFINE j == job[w]
<1>1. WellFormed(j) /\ j \in Job
  BY DEF AwardInv, RowInv, BaseInv, JobsOK, WellFormed
<1>2. ASSUME NEW b \in Bookings, Reassign(w, b) PROVE AwardInv'
  <2>1. Unlocked(b) /\ j.op = "idle" /\ UNCHANGED <<offered, timeline, photos, named, lock, job>>
    BY <1>2 DEF Reassign, Free, log
  <2>2. OnlyJob(w) /\ job'[w].op = "idle"
    BY <2>1 DEF OnlyJob
  <2>3. KeepsHeld(w)
    BY <1>2, <2>1, UnlockedIsNotHeld DEF Reassign, KeepsHeld, AwardInv, RowInv, BaseInv, TypeOK
  <2>4. AcceptHeld' /\ RouteCarries'
    BY <2>1, <2>2, <2>3, HeldStep
  <2>5. AssignedWasOffered'
    BY <1>2, <2>1 DEF Reassign, AssignedWasOffered, AwardInv, RowInv, BaseInv, TypeOK
  <2>6. WinnerKeepsTrip'
    BY <1>2 DEF Reassign, WinnerKeepsTrip, AwardInv, RowInv, BaseInv, TypeOK
  <2> QED BY <2>4, <2>5, <2>6 DEF AwardInv, RowInv
<1>3. ASSUME NEW b \in Bookings, StartRouteEdit(w, b) PROVE AwardInv'
  <2> DEFINE k == [Idle EXCEPT !.op = "route", !.b = b, !.to = state[b], !.drv = driver[b]]
  <2>1. k.op = "route" /\ k.b = b /\ k.drv = driver[b]
    BY DEF Idle
  <2>2. Become(w, k) /\ UNCHANGED <<state, driver, offered, timeline, lock, won>>
    BY <1>3 DEF StartRouteEdit, row, log
  <2>3. OnlyJob(w) /\ job'[w] = k
    <3> HIDE DEF k
    <3> QED BY <2>2, BecomeNew
  <2>4. KeepsHeld(w)
    BY <2>2 DEF KeepsHeld
  <2>5. Carried(job[w])'
    BY <1>3, <2>1, <2>2, <2>3 DEF Carried, StartRouteEdit, AwardInv, RowInv, AssignedWasOffered
  <2>6. AcceptHeld' /\ RouteCarries'
    <3> HIDE DEF k
    <3> QED BY <2>1, <2>2, <2>3, <2>4, <2>5, HeldStep
  <2> QED BY <2>2, <2>6, SameDrivers DEF AwardInv, RowInv
<1>4. ASSUME NEW b \in Bookings, NEW to \in Pushed, SocketPush(w, b, to) PROVE AwardInv'
  <2>1. OnlyJob(w) /\ job'[w].op = "record"
    BY <1>1, <1>4 DEF SocketPush, Record, Job, Become, OnlyJob, AwardInv, RowInv, BaseInv, TypeOK
  <2>2. UNCHANGED <<driver, offered, timeline, lock, won>>
    BY <1>4 DEF SocketPush, log
  <2>3. \A v \in Workers : job[v].op = "accepting" => job[v].b # b
    BY <1>4, UnlockedIsNotHeld DEF SocketPush
  <2>4. \A x \in Bookings \ {b} : state'[x] = state[x] /\ timeline'[x] = timeline[x]
    BY <1>4, <2>2 DEF SocketPush, AwardInv, RowInv, BaseInv, TypeOK
  <2> QED BY <2>1, <2>2, <2>3, <2>4, AwardWrite
<1>5. CASE RouteSave(w)
  <2>1. /\ j.op = "route" /\ j.b \in Bookings /\ Unlocked(j.b) /\ Finish(w)
        /\ driver' = [driver EXCEPT ![j.b] = j.drv]
        /\ state' = [state EXCEPT ![j.b] = j.to]
        /\ UNCHANGED <<offered, timeline, photos, named, lock, won>>
    BY <1>1, <1>5 DEF RouteSave, WellFormed, log
  <2>2. Carried(j)
    BY <2>1 DEF AwardInv, RowInv, RouteCarries
  <2>3. OnlyJob(w) /\ job'[w].op = "idle"
    BY <2>1, BecomeNew DEF Finish, Idle
  <2>4. KeepsHeld(w)
    BY <2>1, UnlockedIsNotHeld DEF KeepsHeld, AwardInv, RowInv, BaseInv, TypeOK
  <2>5. AcceptHeld' /\ RouteCarries'
    BY <2>1, <2>3, <2>4, HeldStep
  <2>6. AssignedWasOffered'
    BY <2>1, <2>2 DEF Carried, AssignedWasOffered, AwardInv, RowInv, BaseInv, TypeOK
  <2>7. WinnerKeepsTrip'
    BY <2>1, <2>2 DEF Carried, WinnerKeepsTrip, AwardInv, RowInv, BaseInv, TypeOK
  <2> QED BY <2>5, <2>6, <2>7 DEF AwardInv, RowInv
<1> QED BY <1>2, <1>3, <1>4, <1>5

LEMMA AwardInit == Init => AwardInv
BY RowInit DEF Init, AwardInv, RowInv, AcceptHeld, RouteCarries, AssignedWasOffered,
   WinnerKeepsTrip, Idle

LEMMA AwardNext == AwardInv /\ [Next]_vars => AwardInv'
<1> SUFFICES ASSUME AwardInv, [Next]_vars PROVE AwardInv'
  OBVIOUS
<1>0. RowInv' /\ RowsStay
  BY RowNext DEF AwardInv, RowInv
<1>1. ASSUME NEW w \in Workers, Handler(w) PROVE AwardInv'
  BY <1>0, <1>1, AwardRecording, AwardCreation, AwardOffering, AwardTransition,
     AwardAccept, AwardOtherWriters DEF Handler
<1>2. ASSUME NEW w \in Workers, NEW b \in Bookings, Request(w, b) PROVE AwardInv'
  BY <1>0, <1>2, AwardCreation, AwardOffering, AwardTransition, AwardAccept,
     AwardOtherWriters DEF Request
<1>3. CASE UNCHANGED <<state, driver, offered, timeline, lock, job, won, named>>
  BY <1>0, <1>3 DEF AwardInv, RowInv, AcceptHeld, Held, RouteCarries, Carried,
     AssignedWasOffered, WinnerKeepsTrip
<1>4. ASSUME NEW b \in Bookings, NEW kind \in PhotoKind, UploadPhoto(b, kind)
      PROVE  AwardInv'
  BY <1>3, <1>4 DEF UploadPhoto, row, log
<1>5. CASE UNCHANGED vars
  BY <1>3, <1>5 DEF vars
<1> QED BY <1>1, <1>2, <1>4, <1>5 DEF Next

(* Whoever writes a booking, its driver was sent an offer for it, or named *)
(* by the request that created it.                                         *)
THEOREM AssignmentCorrect == Spec => []AssignedWasOffered
<1>1. AwardInv => AssignedWasOffered
  BY DEF AwardInv, RowInv
<1> QED BY AwardInit, AwardNext, <1>1, PTL DEF Spec

(* A driver told that the trip is theirs keeps it until it is reassigned:  *)
(* at most one driver is told so, on any booking whose route is not edited.*)
THEOREM WinnerCorrect == Spec => []WinnerKeepsTrip
<1>1. AwardInv => WinnerKeepsTrip
  BY DEF AwardInv, RowInv
<1> QED BY AwardInit, AwardNext, <1>1, PTL DEF Spec

(* Once past its checks, an accept is never refused by the unique          *)
(* constraint on sequence numbers.                                         *)
THEOREM AcceptCorrect == Spec => []AcceptNeverCollides
<1>1. AwardInv => AcceptNeverCollides
  <2> SUFFICES ASSUME AwardInv, NEW w \in Workers, job[w].op = "accepting"
               PROVE  SequenceFree(job[w].b, job[w].seq)
    BY DEF AcceptNeverCollides
  <2>1. job[w].b \in Bookings /\ job[w].seq = Len(timeline[job[w].b]) + 1
    BY DEF AwardInv, RowInv, AcceptHeld, Held, BaseInv, JobsOK, WellFormed
  <2>2. Len(timeline[job[w].b]) \in Nat
    BY <2>1 DEF AwardInv, RowInv, BaseInv, TypeOK
  <2> QED BY <2>1, <2>2 DEF SequenceFree, AwardInv, RowInv, BaseInv, TimelineGapless
<1> QED BY AwardInit, AwardNext, <1>1, PTL DEF Spec

-----------------------------------------------------------------------------
(* A driver comes onto a row with the row, or by an accept that holds it.  *)

LEMMA DriverSetStep ==
  ASSUME AwardInv, [Next]_vars, NEW b \in Bookings \ RouteEdited,
         driver'[b] \notin {driver[b], NoDriver}
  PROVE  OpenTo(b, driver'[b])
<1> USE DEF AwardInv, RowInv, BaseInv
<1>1. ASSUME NEW w \in Workers, AcceptCommit(w)
      PROVE  OpenTo(b, driver'[b])
  <2>1. Held(w, job[w])
    BY <1>1 DEF AcceptCommit, AcceptHeld
  <2>2. b = job[w].b /\ driver'[b] = job[w].drv
    BY <1>1 DEF AcceptCommit, row, TypeOK
  <2> QED BY <2>1, <2>2 DEF Held, OpenTo
<1>2. ASSUME NEW w \in Workers, Handler(w), ~ AcceptCommit(w)
      PROVE  driver'[b] = driver[b]
  <2>1. CASE RouteSave(w)
    BY <2>1 DEF RouteSave, RouteCarries, Carried, TypeOK
  <2>2. CASE ~ RouteSave(w)
    BY <1>2, <2>2 DEF Handler, RecordRead, RecordInsert, ReleaseDone, DispatchSave,
       OfferRound, ReleaseSave, Offer, TransitionRead, TransitionCommit, AcceptLock, row
  <2> QED BY <2>1, <2>2
<1>3. ASSUME NEW w \in Workers, NEW x \in Bookings, Request(w, x)
      PROVE  OpenTo(b, driver'[b])
  <2>1. CASE Reassign(w, x)
    BY <2>1 DEF Reassign, TypeOK
  <2>3. ASSUME NEW d \in Drivers \cup {NoDriver}, Create(w, x, d)
        PROVE  OpenTo(b, driver'[b])
    BY <2>3 DEF Create, Exists, OpenTo, TypeOK
  <2>2. CASE ~ Reassign(w, x) /\ \A d \in Drivers \cup {NoDriver} : ~ Create(w, x, d)
    BY <1>3, <2>2 DEF Request, Note, Trigger, StartRouteEdit, StartOffers,
       StartTransition, SocketPush, StartAccept, row
  <2> QED BY <2>1, <2>2, <2>3
<1>4. ASSUME NEW x \in Bookings, NEW kind \in PhotoKind, UploadPhoto(x, kind)
      PROVE  driver'[b] = driver[b]
  BY <1>4 DEF UploadPhoto, row
<1>5. CASE UNCHANGED vars
  BY <1>5 DEF vars
<1> QED BY <1>1, <1>2, <1>3, <1>4, <1>5 DEF Next

(* Whoever comes onto a row is named by its create request or accepts an   *)
(* offer while it searches with no driver, unless its route is edited.     *)
THEOREM DriverSetCorrect == Spec => DriverSetOnlyWhileOpen
<1>1. AwardInv /\ [Next]_vars =>
        [\A b \in Bookings \ RouteEdited :
           driver'[b] \notin {driver[b], NoDriver} =>
             OpenTo(b, driver'[b])]_vars
  BY DriverSetStep
<1> QED BY AwardInit, AwardNext, <1>1, PTL DEF Spec, DriverSetOnlyWhileOpen

-----------------------------------------------------------------------------
(***************************************************************************)
(* The photo at pickup.  A transition is checked against a state read      *)
(* before, and an edit of the route writes one back: what carries the      *)
(* proof is that a handler about to write such a state has the photo.      *)
(***************************************************************************)
Pictured(j) ==
  /\ j.b \notin SocketDriven
  /\ \/ j.op = "transition" /\ j.to \in PhotoStates \ {"trip_started"}
     \/ j.op \in {"commit", "route"} /\ j.to \in PhotoStates
  => "pickup" \in photos[j.b]

WritersHavePhoto == \A w \in Workers : Pictured(job[w])

PhotoInv == BaseInv /\ StartedHasPhoto /\ WritersHavePhoto

(* The states with a photo are left, or entered by the start of the trip.  *)
LEMMA PhotoStatesFollow ==
  ASSUME NEW s \in RowState, NEW to \in Allowed(s), to \in PhotoStates \ {"trip_started"}
  PROVE  s \in PhotoStates
BY DEF Allowed, VALID_TRANSITIONS, PhotoStates

LEMMA PhotoStep ==
  ASSUME PhotoInv, BaseInv', NEW w \in Workers,
         \A v \in Workers \ {w} : job'[v] = job[v],
         Pictured(job[w])',
         \A b \in Bookings : photos[b] \subseteq photos'[b],
         \A b \in Bookings \ SocketDriven :
           state'[b] \in PhotoStates => state[b] \in PhotoStates \/ "pickup" \in photos[b]
  PROVE  PhotoInv'
<1>1. StartedHasPhoto'
  BY DEF StartedHasPhoto, PhotoInv
<1>2. ASSUME NEW v \in Workers PROVE Pictured(job[v])'
  <2>1. CASE v = w
    BY <2>1
  <2>2. CASE v # w
    <3>1. job'[v] = job[v] /\ Pictured(job[v]) /\ WellFormed(job[v])
      BY <2>2 DEF PhotoInv, WritersHavePhoto, BaseInv, JobsOK
    <3> QED BY <3>1 DEF Pictured, WellFormed
  <2> QED BY <2>1, <2>2
<1> QED BY <1>1, <1>2 DEF PhotoInv, WritersHavePhoto

(* A step of w that leaves the rows and photos, and starts no such writer. *)
LEMMA PhotoQuiet ==
  ASSUME PhotoInv, BaseInv', NEW w \in Workers, NEW j, Become(w, j),
         j.op \notin {"transition", "commit", "route"}, photos' = photos,
         \A b \in Bookings \ SocketDriven :
           state'[b] \in PhotoStates => state[b] \in PhotoStates \/ "pickup" \in photos[b]
  PROVE  PhotoInv'
<1>1. job'[w] = j /\ \A v \in Workers \ {w} : job'[v] = job[v]
  BY DEF Become, PhotoInv, BaseInv, TypeOK
<1>2. Pictured(job[w])'
  BY <1>1 DEF Pictured
<1> QED BY <1>1, <1>2, PhotoStep

LEMMA PhotoHandler ==
  ASSUME PhotoInv, BaseInv', NEW w \in Workers, Handler(w)
  PROVE  PhotoInv'
<1> DEFINE j == job[w]
<1>1. WellFormed(j) /\ j \in Job /\ state \in [Bookings -> RowState]
  BY DEF PhotoInv, BaseInv, JobsOK, WellFormed, TypeOK
<1>2. ASSUME NEW k, Become(w, k), UNCHANGED <<state, photos>>,
             k.op \notin {"transition", "commit", "route"}
      PROVE  PhotoInv'
  BY <1>2, PhotoQuiet
<1>3. CASE RecordRead(w)
  <2>1. [j EXCEPT !.op = "insert", !.seq = NextSequence(j.b)].op = "insert"
    BY <1>1 DEF Job
  <2> QED BY <1>2, <1>3, <2>1 DEF RecordRead, row
<1>4. CASE RecordInsert(w)
  <2>1. AfterRecord(j).op \notin {"transition", "commit", "route"}
    BY <1>1 DEF AfterRecord, Idle, Job
  <2>2. AfterCollision(j).op \notin {"transition", "commit", "route"}
    BY <1>1 DEF AfterCollision, AfterRecord, Idle, Job
  <2>3. Become(w, AfterRecord(j)) \/ Become(w, AfterCollision(j))
    BY <1>4 DEF RecordInsert
  <2> QED BY <1>2, <1>4, <2>1, <2>2, <2>3 DEF RecordInsert, row
<1>5. CASE ReleaseDone(w)
  BY <1>2, <1>5 DEF ReleaseDone, DispatchRead, Idle, row
<1>6. CASE DispatchSave(w)
  <2> DEFINE k == [j EXCEPT !.op = "record", !.b = j.b, !.drv = NoDriver, !.then = "idle"]
  <2>1. k.op = "record" /\ Become(w, k)
    BY <1>1, <1>6 DEF DispatchSave, Record, Job
  <2>2. \A b \in Bookings : state'[b] \in PhotoStates => state[b] \in PhotoStates
    BY <1>1, <1>6 DEF DispatchSave, PhotoStates
  <2> HIDE DEF k
  <2> QED BY <1>6, <2>1, <2>2, PhotoQuiet DEF DispatchSave
<1>7. CASE OfferRound(w)
  <2>1. [j EXCEPT !.op = "record", !.b = j.b, !.drv = NoDriver, !.then = "idle"].op = "record"
    BY <1>1 DEF Job
  <2> QED BY <1>2, <1>7, <2>1 DEF OfferRound, Record, row
<1>8. ASSUME NEW x \in Bookings, ReleaseSave(w, x) PROVE PhotoInv'
  <2> DEFINE k == [j EXCEPT !.op = "record", !.b = x, !.close = @ \ {x}, !.then = "release"]
  <2>1. k.op = "record" /\ Become(w, k)
    BY <1>1, <1>8 DEF ReleaseSave, Job
  <2>2. \A b \in Bookings : state'[b] \in PhotoStates => state[b] \in PhotoStates
    BY <1>1, <1>8 DEF ReleaseSave, ReleasedState, PhotoStates
  <2> HIDE DEF k
  <2> QED BY <1>8, <2>1, <2>2, PhotoQuiet DEF ReleaseSave
<1>9. ASSUME NEW d \in Drivers, Offer(w, d) PROVE PhotoInv'
  <2>1. [j EXCEPT !.op = "record", !.drv = d, !.batch = @ \ {d}, !.then = "offer"].op = "record"
    BY <1>1 DEF Job
  <2> QED BY <1>2, <1>9, <2>1 DEF Offer, row
<1>10. CASE TransitionRead(w)
  <2> DEFINE k == [j EXCEPT !.op = "commit", !.seq = NextSequence(j.b)]
  <2>1. CASE PhotoTaken(j.b, j.to)
    <3>1. k.b = j.b /\ k.to = j.to /\ j.op = "transition" /\ Become(w, k)
          /\ UNCHANGED <<state, photos>>
      BY <1>1, <1>10, <2>1 DEF TransitionRead, Job, row
    <3>2. Pictured(j)
      BY DEF PhotoInv, WritersHavePhoto
    <3> HIDE DEF k
    <3>3. job'[w] = k /\ \A v \in Workers \ {w} : job'[v] = job[v]
      BY <3>1 DEF Become, PhotoInv, BaseInv, TypeOK
    <3>4. Pictured(job[w])'
      BY <2>1, <3>1, <3>2, <3>3 DEF Pictured, PhotoTaken
    <3> QED BY <3>1, <3>3, <3>4, PhotoStep
  <2>2. CASE ~ PhotoTaken(j.b, j.to)
    BY <1>2, <1>10, <2>2 DEF TransitionRead, Idle, row
  <2> QED BY <2>1, <2>2
<1>11. CASE TransitionCommit(w)
  <2>1. /\ Become(w, Idle) /\ Idle.op = "idle" /\ photos' = photos
        /\ j.op = "commit" /\ j.b \in Bookings /\ Pictured(j)
    BY <1>1, <1>11 DEF TransitionCommit, Finish, Idle, WellFormed, PhotoInv, WritersHavePhoto
  <2>2. state' = state \/ state' = [state EXCEPT ![j.b] = j.to]
    BY <1>11 DEF TransitionCommit
  <2>3. ASSUME NEW b \in Bookings \ SocketDriven, state'[b] \in PhotoStates
        PROVE  state[b] \in PhotoStates \/ "pickup" \in photos[b]
    BY <1>1, <2>1, <2>2, <2>3 DEF Pictured
  <2> QED BY <2>1, <2>3, PhotoQuiet
<1>12. CASE AcceptLock(w)
  <2>1. [j EXCEPT !.op = "accepting", !.seq = NextSequence(j.b)].op = "accepting"
    BY <1>1 DEF Job
  <2>2. Idle.op = "idle"
    BY DEF Idle
  <2> QED BY <1>2, <1>12, <2>1, <2>2 DEF AcceptLock, Finish, row
<1>13. CASE AcceptCommit(w)
  <2>1. Become(w, Idle) /\ Idle.op = "idle" /\ photos' = photos
    BY <1>13 DEF AcceptCommit, Finish, Idle
  <2>2. \A b \in Bookings : state'[b] \in PhotoStates => state[b] \in PhotoStates
    BY <1>1, <1>13 DEF AcceptCommit, PhotoStates, row
  <2> QED BY <2>1, <2>2, PhotoQuiet
<1>14. CASE RouteSave(w)
  <2>1. /\ Become(w, Idle) /\ Idle.op = "idle" /\ photos' = photos
        /\ j.op = "route" /\ j.b \in Bookings /\ Pictured(j)
        /\ state' = [state EXCEPT ![j.b] = j.to]
    BY <1>1, <1>14 DEF RouteSave, Finish, Idle, WellFormed, PhotoInv, WritersHavePhoto
  <2>2. ASSUME NEW b \in Bookings \ SocketDriven, state'[b] \in PhotoStates
        PROVE  state[b] \in PhotoStates \/ "pickup" \in photos[b]
    BY <1>1, <2>1, <2>2 DEF Pictured
  <2> QED BY <2>1, <2>2, PhotoQuiet
<1> QED BY <1>3, <1>4, <1>5, <1>6, <1>7, <1>8, <1>9, <1>10, <1>11, <1>12, <1>13, <1>14
        DEF Handler

LEMMA PhotoRequest ==
  ASSUME PhotoInv, BaseInv', NEW w \in Workers, NEW b \in Bookings, Request(w, b)
  PROVE  PhotoInv'
<1>1. job[w] \in Job /\ state \in [Bookings -> RowState]
  BY DEF PhotoInv, BaseInv, TypeOK
<1>2. ASSUME NEW k, Become(w, k), UNCHANGED <<state, photos>>,
             k.op \notin {"transition", "commit", "route"}
      PROVE  PhotoInv'
  BY <1>2, PhotoQuiet
<1>3. ASSUME NEW d \in Drivers \cup {NoDriver}, Create(w, b, d) PROVE PhotoInv'
  <2> DEFINE k == [Idle EXCEPT
         !.op = "release", !.new = b,
         !.close = {x \in Bookings \ {b} : /\ CustomerOf[x] = CustomerOf[b]
                                          /\ driver[x] # NoDriver
                                          /\ state[x] \in OnTrip}]
  <2>1. k.op = "release" /\ Become(w, k)
    BY <1>3 DEF Create, Idle
  <2>2. \A x \in Bookings : state'[x] \in PhotoStates => state[x] \in PhotoStates
    BY <1>1, <1>3 DEF Create, PhotoStates
  <2> HIDE DEF k
  <2> QED BY <1>3, <2>1, <2>2, PhotoQuiet DEF Create
<1>4. CASE Note(w, b)
  <2>1. [job[w] EXCEPT !.op = "record", !.b = b, !.drv = NoDriver, !.then = "idle"].op = "record"
    BY <1>1 DEF Job
  <2> QED BY <1>2, <1>4, <2>1 DEF Note, Record, row
<1>5. CASE Trigger(w, b)
  BY <1>2, <1>5 DEF Trigger, DispatchRead, Idle, row
<1>6. CASE Reassign(w, b)
  <2>1. job' = job /\ photos' = photos /\ job[w].op = "idle"
    BY <1>6 DEF Reassign, Free
  <2>2. \A x \in Bookings : state'[x] \in PhotoStates => state[x] \in PhotoStates
    BY <1>1, <1>6 DEF Reassign, PhotoStates
  <2>3. Pictured(job[w])'
    BY <2>1 DEF Pictured
  <2> QED BY <2>1, <2>2, <2>3, PhotoStep
<1>7. CASE StartRouteEdit(w, b)
  <2> DEFINE k == [Idle EXCEPT !.op = "route", !.b = b, !.to = state[b], !.drv = driver[b]]
  <2>1. k.op = "route" /\ k.b = b /\ k.to = state[b] /\ Become(w, k)
        /\ UNCHANGED <<state, photos>>
    BY <1>7 DEF StartRouteEdit, Idle, row
  <2> HIDE DEF k
  <2>2. job'[w] = k /\ \A v \in Workers \ {w} : job'[v] = job[v]
    BY <2>1 DEF Become, PhotoInv, BaseInv, TypeOK
  <2>3. Pictured(job[w])'
    BY <2>1, <2>2 DEF Pictured, PhotoInv, StartedHasPhoto
  <2> QED BY <2>1, <2>2, <2>3, PhotoStep
<1>8. ASSUME NEW batch \in SUBSET Drivers, StartOffers(w, b, batch) PROVE PhotoInv'
  <2>1. [Idle EXCEPT !.op = "offer", !.b = b, !.batch = batch].op = "offer"
    BY DEF Idle
  <2> QED BY <1>2, <1>8, <2>1 DEF StartOffers, row
<1>9. ASSUME NEW to \in BookingState, StartTransition(w, b, to) PROVE PhotoInv'
  <2> DEFINE k == [Idle EXCEPT !.op = "transition", !.b = b, !.to = to]
  <2>1. k.op = "transition" /\ k.b = b /\ k.to = to /\ Become(w, k)
        /\ UNCHANGED <<state, photos>> /\ to \in Allowed(state[b])
    BY <1>9 DEF StartTransition, Idle, row
  <2> HIDE DEF k
  <2>2. job'[w] = k /\ \A v \in Workers \ {w} : job'[v] = job[v]
    BY <2>1 DEF Become, PhotoInv, BaseInv, TypeOK
  <2>3. to \in PhotoStates \ {"trip_started"} => state[b] \in PhotoStates
    BY <1>1, <2>1, PhotoStatesFollow
  <2>4. Pictured(job[w])'
    BY <2>1, <2>2, <2>3 DEF Pictured, PhotoInv, StartedHasPhoto
  <2> QED BY <2>1, <2>2, <2>4, PhotoStep
<1>10. ASSUME NEW to \in Pushed, SocketPush(w, b, to) PROVE PhotoInv'
  <2> DEFINE k == [job[w] EXCEPT !.op = "record", !.b = b, !.drv = NoDriver, !.then = "idle"]
  <2>1. k.op = "record" /\ Become(w, k)
    BY <1>1, <1>10 DEF SocketPush, Record, Job
  <2>2. \A x \in Bookings \ SocketDriven : state'[x] = state[x]
    BY <1>1, <1>10 DEF SocketPush
  <2> HIDE DEF k
  <2> QED BY <1>10, <2>1, <2>2, PhotoQuiet DEF SocketPush
<1>11. ASSUME NEW d \in Drivers, StartAccept(w, b, d) PROVE PhotoInv'
  <2>1. [Idle EXCEPT !.op = "accept", !.b = b, !.drv = d].op = "accept"
    BY DEF Idle
  <2> QED BY <1>2, <1>11, <2>1 DEF StartAccept, row
<1> QED BY <1>3, <1>4, <1>5, <1>6, <1>7, <1>8, <1>9, <1>10, <1>11 DEF Request

LEMMA PhotoNext == PhotoInv /\ [Next]_vars => PhotoInv'
<1> SUFFICES ASSUME PhotoInv, [Next]_vars PROVE PhotoInv'
  OBVIOUS
<1>1. BaseInv'
  BY BaseNext DEF PhotoInv
<1>2. ASSUME NEW w \in Workers, Handler(w) PROVE PhotoInv'
  BY <1>1, <1>2, PhotoHandler
<1>3. ASSUME NEW w \in Workers, NEW b \in Bookings, Request(w, b) PROVE PhotoInv'
  BY <1>1, <1>3, PhotoRequest
<1>4. ASSUME NEW b \in Bookings, NEW kind \in PhotoKind, UploadPhoto(b, kind)
      PROVE  PhotoInv'
  <2>1. /\ state' = state /\ job' = job
        /\ \A x \in Bookings : photos[x] \subseteq photos'[x]
    BY <1>4 DEF UploadPhoto, row, PhotoInv, BaseInv, TypeOK
  <2>2. StartedHasPhoto'
    BY <2>1 DEF PhotoInv, StartedHasPhoto
  <2>3. ASSUME NEW w \in Workers PROVE Pictured(job[w])'
    <3>1. Pictured(job[w]) /\ WellFormed(job[w])
      BY DEF PhotoInv, WritersHavePhoto, BaseInv, JobsOK
    <3> QED BY <2>1, <3>1 DEF Pictured, WellFormed
  <2> QED BY <1>1, <2>2, <2>3 DEF PhotoInv, WritersHavePhoto
<1>5. CASE UNCHANGED vars
  BY <1>1, <1>5 DEF vars, PhotoInv, StartedHasPhoto, WritersHavePhoto, Pictured
<1> QED BY <1>2, <1>3, <1>4, <1>5 DEF Next

(* Whatever handlers overtake each other, a trip under way has the photo   *)
(* of its parcel at pickup, unless its state comes over the socket.        *)
THEOREM PhotoCorrect == Spec => []StartedHasPhoto
<1>1. Init => PhotoInv
  BY BaseInit DEF Init, PhotoInv, StartedHasPhoto, WritersHavePhoto, Pictured, PhotoStates,
     Idle
<1>2. PhotoInv => StartedHasPhoto
  BY DEF PhotoInv
<1> QED BY <1>1, PhotoNext, <1>2, PTL DEF Spec

-----------------------------------------------------------------------------
(* Bookings implements Award.                                              *)

(* No trip is made by this step. *)
NoneMade == \A b \in Unedited : Exists(b)' <=> Exists(b)

LEMMA SameMade ==
  ASSUME NoneMade
  PROVE  {b \in Unedited : Exists(b)}' = {b \in Unedited : Exists(b)}
BY DEF NoneMade, Exists

LEMMA AwardStutter ==
  ASSUME NoneMade,
         \A b \in Unedited :
           offered'[b] = offered[b] /\ driver'[b] = driver[b] /\ won'[b] = won[b]
  PROVE  UNCHANGED A!vars
BY SameMade DEF A!vars

(* A step that is no create request makes none. *)
LEMMA OnlyCreateMakes ==
  ASSUME RowInv, [Next]_vars, \A b \in Bookings : ~ Made(b)
  PROVE  NoneMade
BY RowWritten DEF NoneMade, Unedited, Untouched, Kept, Exists

LEMMA AwardStep ==
  ASSUME AwardInv, [Next]_vars
  PROVE  [A!Next]_(A!vars)
<1> USE DEF AwardInv, RowInv, BaseInv
<1>0. CASE \E b \in Bookings : Made(b)
  <2> PICK b \in Bookings : Made(b)
    BY <1>0
  <2> PICK w \in Workers, d \in Drivers \cup {NoDriver} : Create(w, b, d)
    BY DEF Made
  <2>1. /\ ~ Exists(b) /\ UNCHANGED <<offered, won>>
        /\ state' = [state EXCEPT ![b] = "pending_quote"]
        /\ driver' = [driver EXCEPT ![b] = d]
    BY DEF Create, log
  <2>2. CASE b \in Unedited
    <3> DEFINE asked == {x \in Unedited : Exists(x)}
    <3>1. asked' = asked \cup {b} /\ b \notin asked
      BY <2>1, <2>2 DEF Exists, TypeOK, Unedited
    <3>2. A!Ask(b, d)
      BY <2>1, <2>2, <3>1 DEF A!Ask, Unedited, TypeOK
    <3> QED BY <2>2, <3>2 DEF A!Next
  <2>3. CASE b \notin Unedited
    <3>1. NoneMade
      BY <2>1, <2>3 DEF NoneMade, Exists, Unedited, TypeOK
    <3>2. \A x \in Unedited :
            offered'[x] = offered[x] /\ driver'[x] = driver[x] /\ won'[x] = won[x]
      BY <2>1, <2>3 DEF Unedited, TypeOK
    <3> QED BY <3>1, <3>2, AwardStutter
  <2> QED BY <2>2, <2>3
<1> SUFFICES ASSUME \A b \in Bookings : ~ Made(b)
             PROVE  [A!Next]_(A!vars)
  BY <1>0
<1>a. NoneMade
  BY OnlyCreateMakes
<1>b. {b \in Unedited : Exists(b)}' = {b \in Unedited : Exists(b)}
  BY <1>a, SameMade
<1>1. CASE UNCHANGED <<offered, driver, won>>
  BY <1>1, <1>a, AwardStutter
<1>2. ASSUME NEW w \in Workers, RecordInsert(w)
      PROVE  [A!Next]_(A!vars)
  <2> DEFINE j == job[w]
  <2>1. j.b \in Bookings /\ j.drv \in Drivers \cup {NoDriver}
    BY <1>2 DEF RecordInsert, JobsOK, WellFormed, Job
  <2>2. UNCHANGED <<driver, won>>
    BY <1>2 DEF RecordInsert, row
  <2>3. CASE UNCHANGED offered
    BY <1>1, <2>2, <2>3
  <2>4. CASE offered' = [offered EXCEPT ![j.b] = @ \cup ({j.drv} \ {NoDriver})]
    <3>1. CASE j.b \in Unedited /\ j.drv # NoDriver
      <4>1. j.drv \in Drivers /\ {j.drv} \ {NoDriver} = {j.drv}
        BY <2>1, <3>1
      <4>2. A!Invite(j.b, j.drv)
        BY <1>b, <2>1, <2>2, <2>4, <3>1, <4>1 DEF A!Invite, Unedited, TypeOK
      <4>3. \E d \in Drivers :
              A!Invite(j.b, d) \/ A!Grant(j.b, d) \/ A!Confirm(j.b, d)
        BY <4>1, <4>2 DEF A!Invite, A!Grant, A!Confirm
      <4> QED BY <3>1, <4>3 DEF A!Next
    <3>2. CASE j.b \notin Unedited \/ j.drv = NoDriver
      <4>1. \A b \in Unedited :
              offered'[b] = offered[b] /\ driver'[b] = driver[b] /\ won'[b] = won[b]
        BY <2>2, <2>1, <2>4, <3>2 DEF Unedited, TypeOK
      <4> QED BY <1>a, <4>1, AwardStutter
    <3> QED BY <2>1, <3>1, <3>2
  <2> QED BY <1>2, <2>3, <2>4 DEF RecordInsert, log
<1>3. ASSUME NEW w \in Workers, AcceptLock(w)
      PROVE  [A!Next]_(A!vars)
  <2> DEFINE j == job[w]
  <2>1. j.b \in Bookings /\ j.drv \in Drivers /\ UNCHANGED <<driver, offered>>
    BY <1>3 DEF AcceptLock, JobsOK, WellFormed, row, log
  <2>2. CASE UNCHANGED won
    BY <1>1, <2>1, <2>2
  <2>3. CASE AlreadyMine(j.b, j.drv) /\ won' = [won EXCEPT ![j.b] = @ \cup {j.drv}]
    <3>1. CASE j.b \in Unedited
      <4>1. A!Confirm(j.b, j.drv)
        BY <1>b, <2>1, <2>3, <3>1 DEF A!Confirm, AlreadyMine, Unedited, TypeOK
      <4>3. \E d \in Drivers :
              A!Invite(j.b, d) \/ A!Grant(j.b, d) \/ A!Confirm(j.b, d)
        BY <2>1, <4>1 DEF A!Invite, A!Grant, A!Confirm
      <4> QED BY <3>1, <4>3 DEF A!Next
    <3>2. CASE j.b \notin Unedited
      <4>1. \A b \in Unedited :
              offered'[b] = offered[b] /\ driver'[b] = driver[b] /\ won'[b] = won[b]
        BY <2>1, <2>3, <3>2 DEF Unedited, TypeOK
      <4> QED BY <1>a, <4>1, AwardStutter
    <3> QED BY <3>1, <3>2
  <2> QED BY <1>3, <2>2, <2>3 DEF AcceptLock
<1>4. ASSUME NEW w \in Workers, AcceptCommit(w)
      PROVE  [A!Next]_(A!vars)
  <2> DEFINE j == job[w]
  <2>1. j.op = "accepting" /\ j.b \in Bookings /\ j.drv \in Drivers /\ offered' = offered
    BY <1>4 DEF AcceptCommit, JobsOK, WellFormed
  <2>2. driver[j.b] = NoDriver /\ j.drv \in offered[j.b] /\ Exists(j.b)
    BY <2>1 DEF AcceptHeld, Held, Exists
  <2>3. CASE UNCHANGED <<row, timeline, won>>
    BY <1>1, <2>1, <2>3 DEF row
  <2>4. CASE /\ driver' = [driver EXCEPT ![j.b] = j.drv]
             /\ won' = [won EXCEPT ![j.b] = @ \cup {j.drv}]
    <3>1. CASE j.b \in Unedited
      <4>1. won[j.b] = {}
        BY <2>1, <2>2, <3>1, NullsAssumption DEF WinnerKeepsTrip, TypeOK, Unedited
      <4>2. A!Grant(j.b, j.drv)
        BY <1>b, <2>1, <2>2, <2>4, <3>1, <4>1 DEF A!Grant, Unedited, TypeOK
      <4>3. \E d \in Drivers :
              A!Invite(j.b, d) \/ A!Grant(j.b, d) \/ A!Confirm(j.b, d)
        BY <2>1, <4>2 DEF A!Invite, A!Grant, A!Confirm
      <4> QED BY <3>1, <4>3 DEF A!Next
    <3>2. CASE j.b \notin Unedited
      <4>1. \A b \in Unedited :
              offered'[b] = offered[b] /\ driver'[b] = driver[b] /\ won'[b] = won[b]
        BY <2>1, <2>4, <3>2 DEF Unedited, TypeOK
      <4> QED BY <1>a, <4>1, AwardStutter
    <3> QED BY <3>1, <3>2
  <2> QED BY <1>4, <2>3, <2>4 DEF AcceptCommit
<1>5. ASSUME NEW w \in Workers, NEW b \in Bookings, Reassign(w, b)
      PROVE  [A!Next]_(A!vars)
  <2>1. /\ driver' = [driver EXCEPT ![b] = NoDriver]
        /\ won' = [won EXCEPT ![b] = {}] /\ offered' = offered /\ Exists(b)
    BY <1>5 DEF Reassign, log
  <2>2. CASE b \in Unedited
    <3>1. A!Withdraw(b)
      BY <1>b, <2>1, <2>2 DEF A!Withdraw, Unedited, TypeOK
    <3> QED BY <2>2, <3>1 DEF A!Next
  <2>3. CASE b \notin Unedited
    <3>1. \A x \in Unedited :
            offered'[x] = offered[x] /\ driver'[x] = driver[x] /\ won'[x] = won[x]
      BY <2>1, <2>3 DEF Unedited, TypeOK
    <3> QED BY <1>a, <3>1, AwardStutter
  <2> QED BY <2>2, <2>3
<1>6. ASSUME NEW w \in Workers, RouteSave(w)
      PROVE  [A!Next]_(A!vars)
  <2> DEFINE j == job[w]
  <2>1. /\ j.b \in RouteEdited /\ driver' = [driver EXCEPT ![j.b] = j.drv]
        /\ UNCHANGED <<offered, won>>
    BY <1>6 DEF RouteSave, RouteCarries, Carried, log
  <2>2. \A b \in Unedited :
          offered'[b] = offered[b] /\ driver'[b] = driver[b] /\ won'[b] = won[b]
    BY <2>1 DEF Unedited, TypeOK
  <2> QED BY <1>a, <2>2, AwardStutter
<1>7. ASSUME NEW w \in Workers, Handler(w) PROVE [A!Next]_(A!vars)
  <2>1. CASE \/ RecordRead(w) \/ ReleaseDone(w) \/ DispatchSave(w) \/ OfferRound(w)
             \/ \E x \in Bookings : ReleaseSave(w, x)
             \/ \E d \in Drivers : Offer(w, d)
             \/ TransitionRead(w) \/ TransitionCommit(w)
    <3>1. UNCHANGED <<offered, driver, won>>
      BY <2>1 DEF RecordRead, ReleaseDone, DispatchSave, OfferRound, ReleaseSave, Offer,
         TransitionRead, TransitionCommit, row, log
    <3> QED BY <1>1, <3>1
  <2> QED BY <1>2, <1>3, <1>4, <1>6, <1>7, <2>1 DEF Handler
<1>8. ASSUME NEW w \in Workers, NEW b \in Bookings, Request(w, b)
      PROVE  [A!Next]_(A!vars)
  <2>1. CASE Reassign(w, b)
    BY <1>5, <2>1
  <2>2. CASE ~ Reassign(w, b)
    <3>1. UNCHANGED <<offered, driver, won>>
      BY <1>8, <2>2 DEF Request, Made, Note, Trigger, StartRouteEdit, StartOffers,
         StartTransition, SocketPush, StartAccept, row, log
    <3> QED BY <1>1, <3>1
  <2> QED BY <2>1, <2>2
<1>9. ASSUME NEW b \in Bookings, NEW kind \in PhotoKind, UploadPhoto(b, kind)
      PROVE  [A!Next]_(A!vars)
  BY <1>1, <1>9 DEF UploadPhoto, row, log
<1>10. CASE UNCHANGED vars
  BY <1>1, <1>10 DEF vars
<1> QED BY <1>7, <1>8, <1>9, <1>10 DEF Next

(* Rows, locks and handlers implement the award of a trip, whatever the    *)
(* handlers interleave, on bookings whose route is not edited.             *)
THEOREM AwardImplemented == Spec => AwardsTrips
<1>1. Init => A!Init
  BY DEF Init, A!Init, Unedited, Exists
<1> QED BY <1>1, AwardInit, AwardNext, AwardStep, PTL DEF Spec, A!Spec, AwardsTrips

=============================================================================
