-------------------------- MODULE Dispatch_proofs ---------------------------
(***************************************************************************)
(* Theorems about module Dispatch, for any number of drivers, rings,       *)
(* searches, failures and ticks.                                           *)
(***************************************************************************)
EXTENDS Dispatch, TLAPS

LEMMA IdleTyped == Idle \in Job
BY NumbersAssumption DEF Job, Idle, Op, Sleeping

LEMMA BecomeTyped ==
  ASSUME job \in [Searches -> Job], NEW s \in Searches, NEW j \in Job, Become(s, j)
  PROVE  job' \in [Searches -> Job]
BY DEF Become

LEMMA LeaveTyped ==
  ASSUME job \in [Searches -> Job], NEW s \in Searches, Leave(s)
  PROVE  job' \in [Searches -> Job]
<1>1. [job[s] EXCEPT !.op = "return"] \in Job
  BY DEF Job, Op
<1>2. (IF job[s].then = "return" THEN [job[s] EXCEPT !.op = "return"] ELSE Idle) \in Job
  BY <1>1, IdleTyped
<1> QED  BY <1>2, BecomeTyped DEF Leave

LEMMA InitTyped == Init => TypeOK
<1> SUFFICES ASSUME Init  PROVE TypeOK
  OBVIOUS
<1>1. job \in [Searches -> Job]
  BY IdleTyped DEF Init
<1> QED  BY <1>1, NumbersAssumption DEF Init, TypeOK

(* What every step keeps: one fact per group of actions. *)
LEMMA StepTyped ==
  ASSUME TypeOK, NEW s \in Searches, Step(s)
  PROVE  TypeOK'
<1> USE NumbersAssumption
<1>j. job[s] \in Job
  BY DEF TypeOK
<1>1. CASE Save(s)
  BY <1>1, <1>j DEF Save, TypeOK, Goto, Become, Job, Op, world, events, bounds
<1>2. CASE Assign(s)
  <2>1. job' \in [Searches -> Job]
    <3>1. CASE ~ Open
      BY <1>2, <3>1, LeaveTyped DEF Assign, TypeOK
    <3>2. CASE Open
      <4>1. [job[s] EXCEPT !.op = "ring", !.ring = 0, !.cumulative = offered] \in Job
        <5>1. 0 \in 0 .. Rings /\ offered \in SUBSET Drivers
          BY DEF TypeOK
        <5> QED  BY <5>1, <1>j DEF Job, Op
      <4> QED  BY <1>2, <3>2, <4>1, BecomeTyped DEF Assign, TypeOK
    <3> QED  BY <3>1, <3>2
  <2> QED  BY <2>1, <1>2 DEF Assign, TypeOK, row, world, events, bounds
<1>3. CASE Ring(s)
  <2> USE <1>3, <1>j DEF At
  <2>1. Matched(job[s]) \subseteq Drivers
    BY DEF Matched, AnyOnline, RingMatch
  <2>2. job' \in [Searches -> Job]
    <3>1. CASE ~ Open
      BY <3>1, LeaveTyped DEF Ring, TypeOK
    <3>2. CASE Open /\ Matched(job[s]) # {}
      <4>1. PICK batch \in Batches(job[s]) :
              Become(s, [job[s] EXCEPT !.op = "offer", !.batch = batch,
                                       !.cumulative = @ \cup batch])
        BY <3>2 DEF Ring
      <4>2. batch \subseteq Drivers
        BY <2>1 DEF Batches
      <4> QED  BY <4>1, <4>2 DEF TypeOK, Become, Job, Op, Sleeping
    <3>3. CASE Open /\ Matched(job[s]) = {} /\ job[s].ring < Rings
      BY <3>3 DEF Ring, TypeOK, NextRing, Become, Job, Op, Sleeping
    <3>4. CASE Open /\ Matched(job[s]) = {} /\ job[s].ring = Rings
      BY <3>4 DEF Ring, TypeOK, Goto, Become, Job, Op, Sleeping
    <3> QED  BY <3>1, <3>2, <3>3, <3>4 DEF Ring
  <2> QED  BY <2>2 DEF Ring, TypeOK, row, world, events, bounds
<1>4. CASE OfferRound(s)
  <2>1. [job[s] EXCEPT !.op = "wait", !.then = "idle", !.sleep = OfferWait] \in Job
    BY <1>j DEF Job, Op, Sleeping
  <2>2. job' \in [Searches -> Job]
    BY <1>4, <2>1, BecomeTyped DEF OfferRound, TypeOK
  <2> QED  BY <2>2, <1>4 DEF OfferRound, TypeOK, row, world, bounds
<1>5. CASE WaitOver(s)
  <2>1. job' \in [Searches -> Job]
    <3>1. Resumed(job[s]) \in Job
      <4>1. CASE job[s].ring = Rings
        BY <4>1, <1>j DEF Resumed, Job, Op
      <4>2. CASE job[s].ring # Rings
        <5>1. job[s].ring + 1 \in 0 .. Rings
          BY <4>2, <1>j DEF Job
        <5> QED  BY <4>2, <5>1, <1>j DEF Resumed, Job, Op
      <4> QED  BY <4>1, <4>2
    <3> QED  BY <1>5, <3>1, IdleTyped, BecomeTyped DEF WaitOver, TypeOK
  <2> QED  BY <2>1, <1>5 DEF WaitOver, TypeOK, row, world, events, bounds
<1>6. CASE Mark(s)
  <2>1. job' \in [Searches -> Job]
    <3>1. CASE ~ Open
      BY <1>6, <3>1, LeaveTyped DEF Mark, TypeOK
    <3>2. CASE Open
      <4>1. [job[s] EXCEPT !.op = "defer", !.sleep = OfferWait] \in Job
        BY <1>j DEF Job, Op, Sleeping
      <4>2. [job[s] EXCEPT !.op = "tell"] \in Job
        BY <1>j DEF Job, Op
      <4> QED  BY <1>6, <3>2, <4>1, <4>2, BecomeTyped DEF Mark, TypeOK, Sleep, Goto
    <3> QED  BY <3>1, <3>2
  <2> QED  BY <2>1, <1>6 DEF Mark, TypeOK, row, world, events, bounds
<1>7. CASE Tell(s)
  <2>1. job' \in [Searches -> Job]
    BY <1>7, LeaveTyped DEF Tell, TypeOK
  <2> QED  BY <2>1, <1>7 DEF Tell, TypeOK, row, world, bounds
<1>8. CASE DeferOver(s)
  <2>1. job' \in [Searches -> Job]
    <3>1. [job[s] EXCEPT !.op = "mark", !.then = "idle"] \in Job
      BY <1>j, NumbersAssumption DEF Job, Op
    <3> QED  BY <1>8, <3>1, IdleTyped, BecomeTyped DEF DeferOver, TypeOK
  <2> QED  BY <2>1, <1>8 DEF DeferOver, TypeOK, row, world, events, bounds
<1>9. CASE Return(s)
  <2>1. job' \in [Searches -> Job]
    <3>1. [Idle EXCEPT !.op = "retry", !.sleep = RetryWait] \in Job
      BY IdleTyped DEF Job, Op, Sleeping
    <3> QED  BY <1>9, <3>1, IdleTyped, BecomeTyped DEF Return, TypeOK
  <2> QED  BY <2>1, <1>9 DEF Return, TypeOK, row, world, events, bounds
<1>10. CASE RetryOver(s)
  <2>1. job' \in [Searches -> Job]
    <3>1. [Idle EXCEPT !.op = "assign"] \in Job
      BY <1>j, NumbersAssumption DEF Idle, Job, Op, Sleeping
    <3> QED  BY <1>10, <3>1, IdleTyped, BecomeTyped DEF RetryOver, TypeOK
  <2> QED  BY <2>1, <1>10 DEF RetryOver, TypeOK, row, world, events, bounds
<1>11. ASSUME NEW d \in Drivers, Offer(s, d)  PROVE TypeOK'
  BY <1>11, <1>j DEF Offer, TypeOK, Become, At, Job, Op, Sleeping, row, world, bounds
<1> QED
  BY <1>1, <1>2, <1>3, <1>4, <1>5, <1>6, <1>7, <1>8, <1>9, <1>10, <1>11 DEF Step

LEMMA NextTyped == TypeOK /\ [Next]_vars => TypeOK'
<1> SUFFICES ASSUME TypeOK, [Next]_vars  PROVE TypeOK'
  OBVIOUS
<1> USE NumbersAssumption
<1>1. ASSUME NEW s \in Searches, Step(s)  PROVE TypeOK'
  BY <1>1, StepTyped
<1>2. ASSUME NEW s \in Searches, Trigger(s)  PROVE TypeOK'
  <2>1. [Idle EXCEPT !.op = "save", !.then = "return"] \in Job
    BY IdleTyped DEF Job, Op
  <2>2. job' \in [Searches -> Job]
    BY <1>2, <2>1, BecomeTyped DEF Trigger, TypeOK
  <2> QED  BY <2>2, <1>2 DEF Trigger, TypeOK, row, world, events
<1>3. ASSUME NEW s \in Searches, Reassign(s)  PROVE TypeOK'
  BY <1>3 DEF Reassign, TypeOK, Become, At, Job, Idle, Op, Sleeping, world
<1>4. ASSUME NEW s \in Searches, Collide(s)  PROVE TypeOK'
  BY <1>4 DEF Collide, TypeOK, Become, At, Job, Idle, Op, Sleeping, row, world, events
<1>5. ASSUME NEW d \in Drivers, Accept(d)  PROVE TypeOK'
  BY <1>5 DEF Accept, TypeOK, world, events, bounds
<1>6. ASSUME NEW d \in Drivers, NEW p \in Place, Move(d, p)  PROVE TypeOK'
  BY <1>6 DEF Move, TypeOK, row, events, bounds
<1>7. CASE Cancel
  BY <1>7 DEF Cancel, TypeOK, world, events, bounds
<1>8. CASE Tick
  <2>1. job' \in [Searches -> Job]
    BY <1>8 DEF Tick, TypeOK, Asleep, Job, Op, Sleeping
  <2> QED  BY <2>1, <1>8 DEF Tick, TypeOK, row, world, bounds
<1>9. CASE Restart
  BY <1>9 DEF Restart, TypeOK, Job, Idle, Op, Sleeping, row, world, events
<1>10. CASE UNCHANGED vars
  BY <1>10 DEF vars, TypeOK
<1> QED
  BY <1>1, <1>2, <1>3, <1>4, <1>5, <1>6, <1>7, <1>8, <1>9, <1>10 DEF Next

(* Every variable of a search has its type, whatever is lost or restarted. *)
THEOREM TypeCorrect == Spec => []TypeOK
BY InitTyped, NextTyped, PTL DEF Spec

-----------------------------------------------------------------------------
(* Nobody is left out.                                                     *)

(* A search remembers only drivers who were sent their offer or are in the *)
(* batch still being offered; only an offering search has a batch.         *)
Remembers(s) ==
  /\ job[s].cumulative \subseteq offered \cup job[s].batch
  /\ ~ At(s, "offer") => job[s].batch = {}

(* A search gives up only when the drivers who never left have offers.     *)
GivesUpLast(s) ==
  job[s].op \in {"mark", "tell", "defer"} => steady \subseteq offered

SteadyThere == \A d \in steady : place[d] # Away

SearchInv ==
  /\ TypeOK
  /\ SteadyThere
  /\ ToldAfterEveryone
  /\ \A s \in Searches : Remembers(s) /\ GivesUpLast(s)

(* A step that changes one search leaves the others as they were, whatever *)
(* offers it adds.                                                         *)
LEMMA OthersKeep ==
  ASSUME SearchInv, NEW s \in Searches, NEW j, Become(s, j),
         offered \subseteq offered', steady' = steady,
         place' = place, TypeOK',
         Remembers(s)', GivesUpLast(s)', ToldAfterEveryone'
  PROVE  SearchInv'
<1>1. ASSUME NEW t \in Searches  PROVE Remembers(t)' /\ GivesUpLast(t)'
  <2>1. CASE t = s
    BY <2>1
  <2>2. CASE t # s
    <3>1. job'[t] = job[t]
      BY <2>2 DEF SearchInv, TypeOK, Become
    <3> QED  BY <3>1 DEF SearchInv, Remembers, GivesUpLast, At
  <2> QED  BY <2>1, <2>2
<1> QED  BY <1>1 DEF SearchInv, SteadyThere

LEMMA SearchInit == Init => SearchInv
<1> SUFFICES ASSUME Init  PROVE SearchInv
  OBVIOUS
<1>1. TypeOK
  BY InitTyped
<1>2. SteadyThere /\ ToldAfterEveryone
  BY DEF Init, SteadyThere, ToldAfterEveryone, Told
<1>3. ASSUME NEW s \in Searches  PROVE Remembers(s) /\ GivesUpLast(s)
  BY DEF Init, Remembers, GivesUpLast, At, Idle
<1> QED  BY <1>1, <1>2, <1>3 DEF SearchInv

(* Leaving forgets nothing that matters: what is left is idle or returning.*)
LEMMA LeaveKeeps ==
  ASSUME SearchInv, NEW s \in Searches, ~ At(s, "offer"), Leave(s),
         UNCHANGED <<offered, steady>>
  PROVE  Remembers(s)' /\ GivesUpLast(s)'
<1>1. job'[s] = IF job[s].then = "return" THEN [job[s] EXCEPT !.op = "return"] ELSE Idle
  BY DEF Leave, Become, SearchInv, TypeOK
<1>2. CASE job[s].then = "return"
  BY <1>1, <1>2 DEF SearchInv, TypeOK, Job, Remembers, GivesUpLast, At
<1>3. CASE job[s].then # "return"
  BY <1>1, <1>3 DEF Idle, Remembers, GivesUpLast, At
<1> QED  BY <1>2, <1>3

LEMMA SearchStep ==
  ASSUME SearchInv, NEW s \in Searches, Step(s)
  PROVE  SearchInv'
<1>t. TypeOK'
  BY StepTyped DEF SearchInv
<1>j. job[s] \in Job /\ Remembers(s) /\ GivesUpLast(s)
  BY DEF SearchInv, TypeOK
<1> DEFINE Local == Remembers(s)' /\ GivesUpLast(s)'
<1>1. ASSUME NEW j, Become(s, j)  PROVE job'[s] = j
  BY <1>1 DEF Become, SearchInv, TypeOK
<1>2. CASE Save(s)
  <2>1. Become(s, [job[s] EXCEPT !.op = "assign"]) /\ At(s, "save")
    BY <1>2 DEF Save, Goto
  <2>2. UNCHANGED <<offered, steady, place, status>>
    BY <1>2 DEF Save, world, events
  <2>3. Local
    BY <1>1, <1>j, <2>1, <2>2 DEF Remembers, GivesUpLast, At, Job
  <2> QED  BY <1>t, <2>1, <2>2, <2>3, OthersKeep DEF SearchInv, ToldAfterEveryone, Told
<1>3. CASE Assign(s)
  <2>1. At(s, "assign") /\ UNCHANGED <<offered, steady, place, status>>
    BY <1>3 DEF Assign, world, events
  <2>2. CASE Open
    <3>1. Become(s, [job[s] EXCEPT !.op = "ring", !.ring = 0, !.cumulative = offered])
      BY <1>3, <2>2 DEF Assign
    <3>2. Local
      BY <1>1, <1>j, <2>1, <3>1 DEF Remembers, GivesUpLast, At, Job
    <3> QED  BY <1>t, <2>1, <3>1, <3>2, OthersKeep DEF SearchInv, ToldAfterEveryone, Told
  <2>3. CASE ~ Open
    <3>1. Leave(s)
      BY <1>3, <2>3 DEF Assign
    <3>2. Local
      BY <2>1, <3>1, LeaveKeeps DEF At
    <3> QED  BY <1>t, <2>1, <3>1, <3>2, OthersKeep DEF Leave, SearchInv, ToldAfterEveryone, Told
  <2> QED  BY <2>2, <2>3
<1>4. CASE Ring(s)
  <2>1. At(s, "ring") /\ UNCHANGED <<offered, steady, place, status>>
    BY <1>4 DEF Ring, world, events
  <2>2. CASE ~ Open
    <3>1. Leave(s)
      BY <1>4, <2>2 DEF Ring
    <3>2. Local
      BY <2>1, <3>1, LeaveKeeps DEF At
    <3> QED  BY <1>t, <2>1, <3>1, <3>2, OthersKeep DEF Leave, SearchInv, ToldAfterEveryone, Told
  <2>3. CASE Open /\ Matched(job[s]) # {}
    <3>1. PICK batch \in Batches(job[s]) :
            Become(s, [job[s] EXCEPT !.op = "offer", !.batch = batch,
                                     !.cumulative = @ \cup batch])
      BY <1>4, <2>3 DEF Ring
    <3>2. job'[s] = [job[s] EXCEPT !.op = "offer", !.batch = batch,
                                   !.cumulative = @ \cup batch]
      BY <1>1, <3>1
    <3>3. /\ job'[s].op = "offer" /\ job'[s].batch = batch
          /\ job'[s].cumulative = job[s].cumulative \cup batch
      BY <1>j, <3>2 DEF Job
    <3>4. Local
      BY <1>j, <2>1, <3>3 DEF Remembers, GivesUpLast, At
    <3> QED  BY <1>t, <2>1, <3>1, <3>4, OthersKeep DEF SearchInv, ToldAfterEveryone, Told
  <2>4. CASE Open /\ Matched(job[s]) = {} /\ job[s].ring < Rings
    <3>1. Become(s, [job[s] EXCEPT !.ring = NextRing(job[s].ring)])
      BY <1>4, <2>4, <1>j, NumbersAssumption DEF Ring, Job
    <3>2. job'[s] = [job[s] EXCEPT !.ring = NextRing(job[s].ring)]
      BY <1>1, <3>1
    <3>3. Local
      BY <1>j, <2>1, <3>2 DEF Remembers, GivesUpLast, At, Job
    <3> QED  BY <1>t, <2>1, <3>1, <3>3, OthersKeep DEF SearchInv, ToldAfterEveryone, Told
  <2>5. CASE Open /\ Matched(job[s]) = {} /\ job[s].ring = Rings
    <3>1. Become(s, [job[s] EXCEPT !.op = "mark"])
      <4>1. ~ (job[s].ring < Rings)
        BY <2>5, NumbersAssumption
      <4> QED  BY <1>4, <2>5, <4>1 DEF Ring, Goto
    <3>2. steady \subseteq offered
      (* The fallback found nobody: who is there was remembered. *)
      <4>1. {d \in Drivers \ job[s].cumulative : place[d] # Away} = {}
        BY <2>5 DEF Matched, AnyOnline
      <4>2. steady \subseteq job[s].cumulative
        BY <4>1 DEF SearchInv, SteadyThere, TypeOK
      <4> QED  BY <4>2, <2>1, <1>j DEF Remembers, At
    <3>3. Local
      BY <1>1, <1>j, <2>1, <3>1, <3>2 DEF Remembers, GivesUpLast, At, Job
    <3> QED  BY <1>t, <2>1, <3>1, <3>3, OthersKeep DEF SearchInv, ToldAfterEveryone, Told
  <2> QED  BY <1>4, <2>2, <2>3, <2>4, <2>5 DEF Ring
<1>5. CASE OfferRound(s)
  <2>1. /\ Become(s, [job[s] EXCEPT !.op = "wait", !.then = "idle", !.sleep = OfferWait])
        /\ job[s].batch = {} /\ UNCHANGED <<offered, steady, place, status>>
    BY <1>5 DEF OfferRound, world
  <2>2. Local
    BY <1>1, <1>j, <2>1 DEF Remembers, GivesUpLast, At, Job
  <2> QED  BY <1>t, <2>1, <2>2, OthersKeep DEF SearchInv, ToldAfterEveryone, Told
<1>6. CASE WaitOver(s)
  <2> DEFINE j == IF Open /\ IsLatest(s) THEN Resumed(job[s]) ELSE Idle
  <2>1. /\ Become(s, j) /\ At(s, "wait")
        /\ UNCHANGED <<offered, steady, place, status>>
    BY <1>6 DEF WaitOver, world, events
  <2>2. Local
    <3>1. CASE Open /\ IsLatest(s)
      BY <1>1, <1>j, <2>1, <3>1 DEF Remembers, GivesUpLast, At, Job, Resumed
    <3>2. CASE ~ (Open /\ IsLatest(s))
      BY <1>1, <2>1, <3>2 DEF Remembers, GivesUpLast, At, Idle
    <3> QED  BY <3>1, <3>2
  <2> QED  BY <1>t, <2>1, <2>2, OthersKeep DEF SearchInv, ToldAfterEveryone, Told
<1>7. CASE Mark(s)
  <2>1. At(s, "mark") /\ UNCHANGED <<offered, steady, place, status>>
    BY <1>7 DEF Mark, world, events
  <2>2. CASE ~ Open
    <3>1. Leave(s)
      BY <1>7, <2>2 DEF Mark
    <3>2. Local
      BY <2>1, <3>1, LeaveKeeps DEF At
    <3> QED  BY <1>t, <2>1, <3>1, <3>2, OthersKeep DEF Leave, SearchInv, ToldAfterEveryone, Told
  <2>3. CASE Open /\ ~ GraceElapsed
    <3>1. Become(s, [job[s] EXCEPT !.op = "defer", !.sleep = OfferWait])
      BY <1>7, <2>3 DEF Mark, Sleep
    <3>2. Local
      BY <1>1, <1>j, <2>1, <3>1 DEF Remembers, GivesUpLast, At, Job
    <3> QED  BY <1>t, <2>1, <3>1, <3>2, OthersKeep DEF SearchInv, ToldAfterEveryone, Told
  <2>4. CASE Open /\ GraceElapsed
    <3>1. Become(s, [job[s] EXCEPT !.op = "tell"])
      BY <1>7, <2>4 DEF Mark, Goto
    <3>2. Local
      BY <1>1, <1>j, <2>1, <3>1 DEF Remembers, GivesUpLast, At, Job
    <3> QED  BY <1>t, <2>1, <3>1, <3>2, OthersKeep DEF SearchInv, ToldAfterEveryone, Told
  <2> QED  BY <2>2, <2>3, <2>4
<1>8. CASE Tell(s)
  <2>1. Leave(s) /\ At(s, "tell") /\ UNCHANGED <<offered, steady, place>>
    BY <1>8 DEF Tell, world
  <2>2. steady \subseteq offered
    BY <1>j, <2>1 DEF GivesUpLast, At
  <2>3. Local
    BY <2>1, LeaveKeeps DEF At
  <2> QED  BY <1>t, <2>1, <2>2, <2>3, OthersKeep DEF Leave, ToldAfterEveryone
<1>9. CASE DeferOver(s)
  <2> DEFINE j == IF Open /\ GraceElapsed
                  THEN [job[s] EXCEPT !.op = "mark", !.then = "idle"] ELSE Idle
  <2>1. /\ Become(s, j) /\ At(s, "defer")
        /\ UNCHANGED <<offered, steady, place, status>>
    BY <1>9 DEF DeferOver, world, events
  <2>2. Local
    <3>1. CASE Open /\ GraceElapsed
      BY <1>1, <1>j, <2>1, <3>1 DEF Remembers, GivesUpLast, At, Job
    <3>2. CASE ~ (Open /\ GraceElapsed)
      BY <1>1, <2>1, <3>2 DEF Remembers, GivesUpLast, At, Idle
    <3> QED  BY <3>1, <3>2
  <2> QED  BY <1>t, <2>1, <2>2, OthersKeep DEF SearchInv, ToldAfterEveryone, Told
<1>10. CASE Return(s)
  <2> DEFINE j == IF offered = {} THEN [Idle EXCEPT !.op = "retry", !.sleep = RetryWait]
                  ELSE Idle
  <2>1. Become(s, j) /\ UNCHANGED <<offered, steady, place, status>>
    BY <1>10 DEF Return, world, events
  <2>2. Local
    <3>1. CASE offered = {}
      BY <1>1, <2>1, <3>1, IdleTyped DEF Remembers, GivesUpLast, At, Idle, Job
    <3>2. CASE offered # {}
      BY <1>1, <2>1, <3>2 DEF Remembers, GivesUpLast, At, Idle
    <3> QED  BY <3>1, <3>2
  <2> QED  BY <1>t, <2>1, <2>2, OthersKeep DEF SearchInv, ToldAfterEveryone, Told
<1>11. CASE RetryOver(s)
  <2> DEFINE j == IF Open /\ offered = {} THEN [Idle EXCEPT !.op = "assign"] ELSE Idle
  <2>1. Become(s, j) /\ UNCHANGED <<offered, steady, place, status>>
    BY <1>11 DEF RetryOver, world, events
  <2>2. Local
    <3>1. CASE Open /\ offered = {}
      BY <1>1, <2>1, <3>1, IdleTyped DEF Remembers, GivesUpLast, At, Idle, Job
    <3>2. CASE ~ (Open /\ offered = {})
      BY <1>1, <2>1, <3>2 DEF Remembers, GivesUpLast, At, Idle
    <3> QED  BY <3>1, <3>2
  <2> QED  BY <1>t, <2>1, <2>2, OthersKeep DEF SearchInv, ToldAfterEveryone, Told
<1>12. ASSUME NEW d \in Drivers, Offer(s, d)  PROVE SearchInv'
  <2>1. /\ Become(s, [job[s] EXCEPT !.batch = @ \ {d}])
        /\ At(s, "offer") /\ offered' = offered \cup {d}
        /\ UNCHANGED <<steady, place, status>>
    BY <1>12 DEF Offer, world
  <2>2. Local
    BY <1>1, <1>j, <2>1 DEF Remembers, GivesUpLast, At, Job
  <2> QED  BY <1>t, <2>1, <2>2, OthersKeep DEF SearchInv, ToldAfterEveryone, Told
<1> QED
  BY <1>2, <1>3, <1>4, <1>5, <1>6, <1>7, <1>8, <1>9, <1>10, <1>11, <1>12 DEF Step

LEMMA SearchNext == SearchInv /\ [Next]_vars => SearchInv'
<1> SUFFICES ASSUME SearchInv, [Next]_vars  PROVE SearchInv'
  OBVIOUS
<1>t. TypeOK'
  BY NextTyped DEF SearchInv
<1>1. ASSUME NEW s \in Searches, NEW j, Become(s, j), j.op \in {"save", "assign", "idle"},
             j.cumulative = {}, j.batch = {},
             UNCHANGED <<offered, steady, place>>, ToldAfterEveryone'
      PROVE  SearchInv'
  <2>1. job'[s] = j
    BY <1>1 DEF Become, SearchInv, TypeOK
  <2>2. Remembers(s)' /\ GivesUpLast(s)'
    BY <1>1, <2>1 DEF Remembers, GivesUpLast, At
  <2> QED  BY <1>1, <1>t, <2>2, OthersKeep
<1>2. ASSUME NEW s \in Searches, Step(s)  PROVE SearchInv'
  BY <1>2, SearchStep
<1>3. ASSUME NEW s \in Searches, Trigger(s)  PROVE SearchInv'
  BY <1>3, <1>1 DEF Trigger, Idle, world, events, SearchInv, ToldAfterEveryone, Told
<1>4. ASSUME NEW s \in Searches, Reassign(s)  PROVE SearchInv'
  BY <1>4, <1>1 DEF Reassign, Idle, world, ToldAfterEveryone, Told
<1>5. ASSUME NEW s \in Searches, Collide(s)  PROVE SearchInv'
  BY <1>5, <1>1 DEF Collide, Idle, world, events, SearchInv, ToldAfterEveryone, Told
<1>6. ASSUME UNCHANGED <<offered, steady, place, status>>,
             \A s \in Searches : /\ job'[s].op = job[s].op \/ job'[s].op = "idle"
                                 /\ job'[s].cumulative \subseteq job[s].cumulative
                                 /\ job'[s].batch = job[s].batch \/ job'[s].cumulative = {}
                                 /\ ~ At(s, "offer")' => job'[s].batch = {}
      PROVE  SearchInv'
  BY <1>6, <1>t DEF SearchInv, SteadyThere, ToldAfterEveryone, Told, Remembers, GivesUpLast, At
<1>7. ASSUME NEW d \in Drivers, Accept(d)  PROVE SearchInv'
  BY <1>7, <1>6 DEF Accept, world, events, SearchInv, Remembers, At
<1>8. ASSUME NEW d \in Drivers, NEW p \in Place, Move(d, p)  PROVE SearchInv'
  <2>1. steady' \subseteq steady /\ UNCHANGED <<offered, job, status>>
    BY <1>8 DEF Move, events
  <2>2. SteadyThere'
    BY <1>8 DEF Move, SearchInv, SteadyThere, TypeOK
  <2> QED
    BY <1>t, <2>1, <2>2
    DEF SearchInv, ToldAfterEveryone, Told, Remembers, GivesUpLast, At
<1>9. CASE Cancel
  BY <1>9, <1>6 DEF Cancel, world, events, SearchInv, Remembers, At
<1>10. CASE Tick
  <2>1. ASSUME NEW s \in Searches
        PROVE  job'[s] = IF s \in Asleep THEN [job[s] EXCEPT !.sleep = @ - 1] ELSE job[s]
    BY <1>10 DEF Tick
  <2>2. ASSUME NEW s \in Searches
        PROVE  /\ job'[s].op = job[s].op
               /\ job'[s].cumulative = job[s].cumulative
               /\ job'[s].batch = job[s].batch
    BY <2>1 DEF SearchInv, TypeOK, Job
  <2> QED  BY <1>6, <1>10, <2>2 DEF Tick, world, SearchInv, Remembers, At
<1>11. CASE Restart
  <2>1. ASSUME NEW s \in Searches  PROVE job'[s] = Idle
    BY <1>11 DEF Restart
  <2> QED  BY <1>6, <1>11, <2>1 DEF Restart, Idle, world, events, At
<1>12. CASE UNCHANGED vars
  BY <1>12, <1>6 DEF vars, SearchInv, Remembers, At
<1> QED
  BY <1>2, <1>3, <1>4, <1>5, <1>7, <1>8, <1>9, <1>10, <1>11, <1>12 DEF Next

(* However many searches run for a booking, and whichever are lost, nobody *)
(* who was there all along is missed before the customer is told.          *)
THEOREM SearchCorrect == Spec => []ToldAfterEveryone
<1>1. SearchInv => ToldAfterEveryone
  BY DEF SearchInv
<1> QED  BY <1>1, SearchInit, SearchNext, PTL DEF Spec

-----------------------------------------------------------------------------
(* One search at a time.                                                   *)

OneAtATime == \A s, t \in Searches : s = t

(* A search on its way remembers every offer, has yet to make those of its *)
(* batch, and is about to give up only when no offer is fresh.             *)
Fresh(s) ==
  /\ job[s].op \in {"ring", "offer", "wait"} => offered \subseteq job[s].cumulative
  /\ At(s, "offer") => /\ job[s].batch \cap offered = {}
                        /\ job[s].batch \subseteq job[s].cumulative
  /\ At(s, "tell") => age = OfferWait

OnceInv == TypeOK /\ \A s \in Searches : Fresh(s)

LEMMA OnceInit == Init => OnceInv
<1> SUFFICES ASSUME Init  PROVE OnceInv
  OBVIOUS
<1>1. ASSUME NEW s \in Searches  PROVE Fresh(s)
  BY DEF Init, Idle, Fresh, At
<1> QED  BY <1>1, InitTyped DEF OnceInv

(* A step that leaves a search outside the five watched states keeps Fresh.*)
LEMMA OnceStep ==
  ASSUME OnceInv, NEW s \in Searches, Step(s)
  PROVE  Fresh(s)'
<1>j. job[s] \in Job /\ Fresh(s)
  BY DEF OnceInv, TypeOK
<1>1. ASSUME NEW j, Become(s, j)  PROVE job'[s] = j
  BY <1>1 DEF Become, OnceInv, TypeOK
<1>2. ASSUME NEW j, Become(s, j),
             j.op \in {"idle", "assign", "mark", "defer", "return", "retry"}
      PROVE  Fresh(s)'
  BY <1>1, <1>2 DEF Fresh, At
<1>3. ASSUME Leave(s)  PROVE Fresh(s)'
  <2>1. CASE job[s].then = "return"
    BY <1>2, <1>3, <1>j, <2>1 DEF Leave, Job
  <2>2. CASE job[s].then # "return"
    BY <1>2, <1>3, <2>2 DEF Leave, Idle
  <2> QED  BY <2>1, <2>2
<1>4. CASE Save(s)
  BY <1>4, <1>2, <1>j DEF Save, Goto, Job
<1>5. CASE Assign(s)
  <2>1. CASE Open
    <3>1. /\ job'[s] = [job[s] EXCEPT !.op = "ring", !.ring = 0, !.cumulative = offered]
          /\ offered' = offered
      BY <1>5, <1>1, <2>1 DEF Assign, events
    <3> QED  BY <3>1, <1>j DEF Fresh, At, Job
  <2> QED  BY <1>3, <1>5, <2>1 DEF Assign
<1>6. CASE Ring(s)
  <2>1. At(s, "ring") /\ offered' = offered
    BY <1>6 DEF Ring, events
  <2>2. CASE Open /\ Matched(job[s]) # {}
    <3>1. PICK batch \in Batches(job[s]) :
            Become(s, [job[s] EXCEPT !.op = "offer", !.batch = batch,
                                     !.cumulative = @ \cup batch])
      BY <1>6, <2>2 DEF Ring
    <3>2. job'[s] = [job[s] EXCEPT !.op = "offer", !.batch = batch,
                                   !.cumulative = @ \cup batch]
      BY <1>1, <3>1
    <3>3. /\ job'[s].op = "offer" /\ job'[s].batch = batch
          /\ job'[s].cumulative = job[s].cumulative \cup batch
      BY <1>j, <3>2 DEF Job
    <3>4. batch \cap job[s].cumulative = {}
      BY DEF Batches, Matched, AnyOnline, RingMatch
    <3> QED  BY <1>j, <2>1, <3>3, <3>4 DEF Fresh, At
  <2>3. CASE Open /\ Matched(job[s]) = {} /\ job[s].ring < Rings
    <3>1. Become(s, [job[s] EXCEPT !.ring = NextRing(job[s].ring)])
      BY <1>6, <2>3, <1>j, NumbersAssumption DEF Ring, Job
    <3>2. job'[s] = [job[s] EXCEPT !.ring = NextRing(job[s].ring)]
      BY <1>1, <3>1
    <3> QED  BY <1>j, <2>1, <3>2 DEF Fresh, At, Job
  <2>4. CASE Open /\ Matched(job[s]) = {} /\ job[s].ring = Rings
    <3>1. ~ (job[s].ring < Rings)
      BY <2>4, NumbersAssumption
    <3>2. Become(s, [job[s] EXCEPT !.op = "mark"])
      BY <1>6, <2>4, <3>1 DEF Ring, Goto
    <3> QED  BY <1>2, <1>j, <3>2 DEF Job
  <2> QED  BY <1>3, <1>6, <2>2, <2>3, <2>4 DEF Ring
<1>7. CASE OfferRound(s)
  <2>1. /\ job'[s] = [job[s] EXCEPT !.op = "wait", !.then = "idle", !.sleep = OfferWait]
        /\ At(s, "offer") /\ offered' = offered
    BY <1>7, <1>1 DEF OfferRound
  <2> QED  BY <1>j, <2>1 DEF Fresh, At, Job
<1>8. CASE WaitOver(s)
  <2>1. At(s, "wait") /\ offered' = offered
    BY <1>8 DEF WaitOver, events
  <2>2. CASE Open /\ IsLatest(s)
    <3>1. job'[s] = Resumed(job[s])
      BY <1>8, <1>1, <2>2 DEF WaitOver
    <3>2. job'[s].op = "ring" /\ job'[s].cumulative = job[s].cumulative
      BY <1>j, <3>1 DEF Resumed, Job
    <3> QED  BY <1>j, <2>1, <3>2 DEF Fresh, At
  <2>3. CASE ~ (Open /\ IsLatest(s))
    BY <1>2, <1>8, <2>3 DEF WaitOver, Idle
  <2> QED  BY <2>2, <2>3
<1>9. CASE Mark(s)
  <2>1. CASE Open /\ ~ GraceElapsed
    BY <1>2, <1>9, <1>j, <2>1 DEF Mark, Sleep, Job
  <2>2. CASE Open /\ GraceElapsed
    <3>1. job'[s] = [job[s] EXCEPT !.op = "tell"] /\ age' = age
      BY <1>1, <1>9, <2>2 DEF Mark, Goto, events
    <3> QED  BY <1>j, <2>2, <3>1 DEF Fresh, At, GraceElapsed, Job
  <2> QED  BY <1>3, <1>9, <2>1, <2>2 DEF Mark
<1>10. CASE Tell(s)
  BY <1>3, <1>10 DEF Tell
<1>11. CASE DeferOver(s)
  <2>1. CASE Open /\ GraceElapsed
    BY <1>2, <1>11, <1>j, <2>1 DEF DeferOver, Job
  <2>2. CASE ~ (Open /\ GraceElapsed)
    BY <1>2, <1>11, <2>2 DEF DeferOver, Idle
  <2> QED  BY <2>1, <2>2
<1>12. CASE Return(s)
  <2>1. CASE offered = {}
    BY <1>2, <1>12, <2>1, IdleTyped DEF Return, Job
  <2>2. CASE offered # {}
    BY <1>2, <1>12, <2>2 DEF Return, Idle
  <2> QED  BY <2>1, <2>2
<1>13. CASE RetryOver(s)
  <2>1. CASE Open /\ offered = {}
    BY <1>2, <1>13, <2>1, IdleTyped DEF RetryOver, Job
  <2>2. CASE ~ (Open /\ offered = {})
    BY <1>2, <1>13, <2>2 DEF RetryOver, Idle
  <2> QED  BY <2>1, <2>2
<1>14. ASSUME NEW d \in Drivers, Offer(s, d)  PROVE Fresh(s)'
  <2>1. /\ job'[s] = [job[s] EXCEPT !.batch = @ \ {d}]
        /\ At(s, "offer") /\ d \in job[s].batch /\ offered' = offered \cup {d}
    BY <1>1, <1>14 DEF Offer
  <2>2. job'[s].op = "offer" /\ job'[s].batch = job[s].batch \ {d}
        /\ job'[s].cumulative = job[s].cumulative
    BY <1>j, <2>1 DEF At, Job
  <2> QED  BY <1>j, <2>1, <2>2 DEF Fresh, At
<1> QED
  BY <1>4, <1>5, <1>6, <1>7, <1>8, <1>9, <1>10, <1>11, <1>12, <1>13, <1>14 DEF Step

LEMMA OnceNext == OneAtATime /\ OnceInv /\ [Next]_vars => OnceInv'
<1> SUFFICES ASSUME OneAtATime, OnceInv, [Next]_vars, NEW s \in Searches
             PROVE  Fresh(s)'
  BY NextTyped DEF OnceInv
<1>j. job[s] \in Job /\ Fresh(s) /\ age \in 0 .. OfferWait
  BY DEF OnceInv, TypeOK
<1>1. ASSUME NEW t \in Searches, Step(t)  PROVE Fresh(s)'
  <2>1. t = s
    BY DEF OneAtATime
  <2> QED  BY <1>1, <2>1, OnceStep
<1>2. ASSUME NEW t \in Searches, NEW j, Become(t, j), j.op \in {"save", "assign", "idle"}
      PROVE  Fresh(s)'
  <2>1. t = s
    BY DEF OneAtATime
  <2>2. job'[s] = j
    BY <1>2, <2>1 DEF Become, OnceInv, TypeOK
  <2> QED  BY <1>2, <2>2 DEF Fresh, At
<1>3. ASSUME NEW t \in Searches, Trigger(t)  PROVE Fresh(s)'
  BY <1>2, <1>3 DEF Trigger, Idle
<1>4. ASSUME NEW t \in Searches, Reassign(t)  PROVE Fresh(s)'
  BY <1>2, <1>4 DEF Reassign, Idle
<1>5. ASSUME NEW t \in Searches, Collide(t)  PROVE Fresh(s)'
  BY <1>2, <1>5 DEF Collide, Idle
<1>6. ASSUME UNCHANGED <<job, offered>>, age' = age  PROVE Fresh(s)'
  BY <1>6, <1>j DEF Fresh, At
<1>7. ASSUME NEW d \in Drivers, Accept(d)  PROVE Fresh(s)'
  BY <1>6, <1>7 DEF Accept, events
<1>8. ASSUME NEW d \in Drivers, NEW p \in Place, Move(d, p)  PROVE Fresh(s)'
  BY <1>6, <1>8 DEF Move, events
<1>9. CASE Cancel
  BY <1>6, <1>9 DEF Cancel, events
<1>10. CASE Tick
  <2>1. job'[s] = IF s \in Asleep THEN [job[s] EXCEPT !.sleep = @ - 1] ELSE job[s]
    BY <1>10 DEF Tick
  <2>2. /\ job'[s].op = job[s].op
        /\ job'[s].cumulative = job[s].cumulative
        /\ job'[s].batch = job[s].batch
    BY <2>1, <1>j DEF Job
  <2>3. offered' = offered /\ (age = OfferWait => age' = OfferWait)
    BY <1>10, NumbersAssumption DEF Tick
  <2> QED  BY <1>j, <2>2, <2>3 DEF Fresh, At
<1>11. CASE Restart
  <2>1. job'[s] = Idle
    BY <1>11 DEF Restart
  <2> QED  BY <2>1 DEF Idle, Fresh, At
<1>12. CASE UNCHANGED vars
  BY <1>6, <1>12 DEF vars
<1> QED
  BY <1>1, <1>3, <1>4, <1>5, <1>7, <1>8, <1>9, <1>10, <1>11, <1>12 DEF Next

(* With one search at a time nobody is sent the same offer twice, also     *)
(* when searches are lost and started again.                               *)
THEOREM OnceCorrect == ASSUME OneAtATime PROVE Spec => OfferedOnce
<1>1. OnceInv => \A s \in Searches, d \in Drivers : Offer(s, d) => d \notin offered
  BY DEF OnceInv, Fresh, Offer
<1>2. OnceInv /\ [Next]_vars => OnceInv'
  BY OnceNext
<1>3. OnceInv /\ [Next]_vars =>
        [\A s \in Searches, d \in Drivers : Offer(s, d) => d \notin offered]_vars
  BY <1>1
<1> QED  BY <1>2, <1>3, OnceInit, PTL DEF Spec, OfferedOnce

(* Nor is the customer told while an offer is still open, also one made by *)
(* a search that was lost.                                                 *)
THEOREM EarlyCorrect == ASSUME OneAtATime PROVE Spec => NotFailedEarly
<1>1. OnceInv /\ [Next]_vars => [Told' /\ ~ Told => age = OfferWait]_vars
  <2> SUFFICES ASSUME OnceInv, Next, Told', ~ Told  PROVE age = OfferWait
    OBVIOUS
  <2>1. PICK s \in Searches : Tell(s)
    BY DEF Next, Step, Told, Save, Assign, Ring, OfferRound, WaitOver, Mark, DeferOver,
           Return, RetryOver, Offer, Trigger, Reassign, Collide, Accept, Move, Cancel,
           Tick, Restart, events
  <2> QED  BY <2>1 DEF OnceInv, Fresh, Tell
<1>2. OnceInv /\ [Next]_vars => OnceInv'
  BY OnceNext
<1> QED  BY <1>1, <1>2, OnceInit, PTL DEF Spec, NotFailedEarly

=============================================================================
