---------------------------- MODULE Fleet_proofs ----------------------------
(***************************************************************************)
(* Fleet for any number of owners, requests and keys: FleetTypeOK,         *)
(* NoTwinWrites and TwoFleetsHaveACause.                                   *)
(***************************************************************************)
EXTENDS Fleet, SequenceTheorems, TLAPS

(* A request that is past its lock still holds it, unless its key is known *)
(* to be unguarded.                                                        *)
HoldersHold ==
  \A r \in Asks, k \in Keys : Guarded(r, k) => k \in inflight \/ k \in unguarded

(* Between its check and its write no addition is overtaken by another     *)
(* owner's active membership, unless there is a cause on record.           *)
PastCheck(r) == ask[r].what = "add" /\ ask[r].at \in {"own", "write"}
ChecksHold ==
  \A r \in Asks : PastCheck(r) /\ ~blamed =>
    \A o \in Owners \ {ask[r].owner} : ~ActiveIn(o)

-----------------------------------------------------------------------------
LEMMA ReplacedIsSeq ==
  ASSUME NEW S, NEW s \in Seq(S), NEW i, NEW x \in S
  PROVE  [s EXCEPT ![i] = x] \in Seq(S)
<1>1. s \in [1 .. Len(s) -> S] /\ Len(s) \in Nat
  BY ElementOfSeq
<1>2. [s EXCEPT ![i] = x] \in [1 .. Len(s) -> S]
  BY <1>1
<1> QED BY <1>1, <1>2, SeqDef

(* Where a request goes, and that the others stay.                         *)
LEMMA NoAskIsAsk == NoAsk \in Ask
  BY FleetConstants DEF NoAsk, Ask, AskStep, Status

LEMMA BecomeMoves ==
  ASSUME ask \in [Asks -> Ask], NEW r \in Asks, NEW at \in AskStep, Become(r, at)
  PROVE  /\ ask' \in [Asks -> Ask]
         /\ at = "idle" => ask'[r] = NoAsk
         /\ at # "idle" => ask'[r] = [ask[r] EXCEPT !.at = at]
         /\ \A q \in Asks \ {r} : ask'[q] = ask[q]
<1>1. ask[r] \in Ask
  OBVIOUS
<1>2. [ask[r] EXCEPT !.at = at] \in Ask
  BY <1>1 DEF Ask
<1> QED BY <1>2, NoAskIsAsk DEF Become

(* A request at another step is otherwise the same, or has ended.          *)
LEMMA BecomeKeeps ==
  ASSUME ask \in [Asks -> Ask], NEW r \in Asks, NEW at \in AskStep, Become(r, at)
  PROVE  /\ ask'[r].at = at
         /\ at # "idle" => /\ ask'[r].key = ask[r].key
                           /\ ask'[r].what = ask[r].what
                           /\ ask'[r].owner = ask[r].owner
<1>1. ask[r] \in Ask
  OBVIOUS
<1>2. CASE at = "idle"
  <2>1. ask'[r] = NoAsk
    BY <1>2, BecomeMoves
  <2> QED BY <1>2, <2>1 DEF NoAsk
<1>3. CASE at # "idle"
  <2>1. ask'[r] = [ask[r] EXCEPT !.at = at]
    BY <1>3, BecomeMoves
  <2> QED BY <1>1, <1>3, <2>1 DEF Ask
<1> QED BY <1>2, <1>3

(* The calls of the cache.                                                 *)
LEMMA CacheCalls ==
  ASSUME CacheTypeOK, NEW k \in Keys
  PROVE  /\ Answered(k) => UNCHANGED cache
         /\ NotAnswered(k) => UNCHANGED cache
         /\ LockRefused(k) => UNCHANGED cache
         /\ LockTaken(k) => k \notin inflight /\ inflight' = inflight \cup {k} /\ unguarded' = unguarded
         /\ LockFailed(k) => inflight' = inflight /\ unguarded' = unguarded \cup {k}
         /\ Release(k) => inflight \ {k} \subseteq inflight' /\ unguarded' = unguarded
         /\ StoreAnswer(k) => inflight \ {k} \subseteq inflight' /\ unguarded' = unguarded
         /\ LockLapses(k) => inflight' = inflight \ {k} /\ unguarded' = unguarded \cup {k}
         /\ AnswerLapses(k) => inflight' = inflight /\ unguarded' = unguarded
  BY DEF CacheTypeOK, Answered, NotAnswered, LockRefused, LockTaken, LockFailed, Release,
         StoreAnswer, LockLapses, AnswerLapses, cache

LEMMA CacheTyped ==
  ASSUME CacheTypeOK, NEW k \in Keys,
         \/ Answered(k) \/ NotAnswered(k) \/ LockRefused(k) \/ LockTaken(k) \/ LockFailed(k)
         \/ Release(k) \/ StoreAnswer(k) \/ LockLapses(k) \/ AnswerLapses(k)
         \/ UNCHANGED cache
  PROVE  CacheTypeOK'
  BY DEF CacheTypeOK, Answered, NotAnswered, LockRefused, LockTaken, LockFailed, Release,
         StoreAnswer, LockLapses, AnswerLapses, cache

-----------------------------------------------------------------------------
(* A request in progress is somebody's, with a key.                        *)
AsksAreSomebodys ==
  \A r \in Asks : ask[r].at # "idle" => ask[r].owner \in Owners /\ ask[r].key \in Keys

LEMMA FleetInitTyped == FleetInit => FleetTypeOK /\ AsksAreSomebodys
<1> SUFFICES ASSUME FleetInit PROVE FleetTypeOK /\ AsksAreSomebodys
  OBVIOUS
<1>1. member \in [Owners -> Seq(Status)] /\ \A o \in Owners : Len(member[o]) <= MaxRows
  BY FleetConstants DEF FleetInit
<1>2. ask \in [Asks -> Ask] /\ \A r \in Asks : ask[r].at = "idle"
  BY NoAskIsAsk DEF FleetInit, NoAsk
<1>3. blamed \in BOOLEAN
  BY Zenon DEF FleetInit
<1>4. asked \in 0 .. MaxAsks /\ CacheTypeOK
  BY FleetConstants DEF FleetInit, CacheInit, CacheTypeOK
<1> QED BY <1>1, <1>2, <1>3, <1>4 DEF FleetTypeOK, AsksAreSomebodys

LEMMA FleetStepTyped ==
  FleetTypeOK /\ AsksAreSomebodys /\ [FleetNext]_fleetVars => FleetTypeOK' /\ AsksAreSomebodys'
<1> SUFFICES ASSUME FleetTypeOK, AsksAreSomebodys, [FleetNext]_fleetVars
             PROVE  FleetTypeOK' /\ AsksAreSomebodys'
  OBVIOUS
<1>t. ask \in [Asks -> Ask] /\ CacheTypeOK
  BY DEF FleetTypeOK
<1> DEFINE Kept == UNCHANGED <<member, asked, blamed>>
           Moved(r) == /\ ask' \in [Asks -> Ask]
                       /\ ask'[r].at # "idle" => ask'[r].owner = ask[r].owner /\ ask'[r].key = ask[r].key
                       /\ \A q \in Asks \ {r} : ask'[q] = ask[q]
<1>a. ASSUME NEW r \in Asks, Moved(r), ask[r].at # "idle" PROVE AsksAreSomebodys'
  BY <1>a DEF AsksAreSomebodys
<1>b. ASSUME Kept, ask' \in [Asks -> Ask], CacheTypeOK' PROVE FleetTypeOK'
  BY <1>b DEF FleetTypeOK
<1>m. ASSUME NEW r \in Asks, NEW at \in AskStep, Become(r, at) PROVE Moved(r)
  BY <1>t, <1>m, BecomeMoves, BecomeKeeps
<1>1. ASSUME NEW r \in Asks, NEW o \in Owners, NEW k \in Keys, ArriveAdd(r, o, k)
      PROVE FleetTypeOK' /\ AsksAreSomebodys'
  <2>1. [NoAsk EXCEPT !.at = "lookup", !.what = "add", !.owner = o, !.key = k] \in Ask
    BY NoAskIsAsk DEF Ask, AskStep
  <2>2. ask' \in [Asks -> Ask] /\ asked' \in 0 .. MaxAsks
    BY <1>1, <2>1, FleetConstants DEF ArriveAdd, FleetTypeOK
  <2>3. FleetTypeOK'
    BY <1>1, <2>2, CacheTyped DEF ArriveAdd, FleetTypeOK, CacheTypeOK, cache
  <2>4. AsksAreSomebodys'
    BY <1>t, <1>1 DEF ArriveAdd, AsksAreSomebodys, NoAsk
  <2> QED BY <2>3, <2>4
<1>2. ASSUME NEW r \in Asks, NEW o \in Owners, NEW k \in Keys, NEW i \in 1 .. MaxRows,
             NEW what \in {"active", "suspended", "removed", "same"}, ArrivePatch(r, o, i, what, k)
      PROVE FleetTypeOK' /\ AsksAreSomebodys'
  <2>0. member[o][i] \in Status
    BY <1>2 DEF ArrivePatch, FleetTypeOK
  <2>1. [NoAsk EXCEPT !.at = "lookup", !.what = what, !.owner = o,
                      !.key = k, !.row = i, !.seen = member[o][i]] \in Ask
    <3>1. what \in Status \cup {"add", "same"} /\ i \in 0 .. MaxRows
      BY FleetConstants DEF Status
    <3> QED BY <2>0, <3>1, NoAskIsAsk DEF Ask, AskStep
  <2>2. ask' \in [Asks -> Ask] /\ asked' \in 0 .. MaxAsks
    BY <1>2, <2>1, FleetConstants DEF ArrivePatch, FleetTypeOK
  <2>3. FleetTypeOK'
    BY <1>2, <2>2 DEF ArrivePatch, FleetTypeOK, CacheTypeOK, cache
  <2>4. AsksAreSomebodys'
    BY <1>t, <1>2 DEF ArrivePatch, AsksAreSomebodys, NoAsk
  <2> QED BY <2>3, <2>4
<1>3. ASSUME NEW r \in Asks, Lookup(r) PROVE FleetTypeOK' /\ AsksAreSomebodys'
  <2>1. Moved(r) /\ ask[r].at # "idle"
    BY <1>3, <1>m DEF Lookup, AskStep
  <2>2. CacheTypeOK'
    BY <1>t, <1>3, CacheTyped DEF Lookup, AsksAreSomebodys
  <2> QED BY <1>3, <1>a, <1>b, <2>1, <2>2 DEF Lookup
<1>4. ASSUME NEW r \in Asks, Lock(r) PROVE FleetTypeOK' /\ AsksAreSomebodys'
  <2>1. Moved(r) /\ ask[r].at # "idle"
    BY <1>4, <1>m DEF Lock, AskStep
  <2>2. CacheTypeOK'
    BY <1>t, <1>4, CacheTyped DEF Lock, AsksAreSomebodys
  <2> QED BY <1>4, <1>a, <1>b, <2>1, <2>2 DEF Lock
<1>5. ASSUME NEW r \in Asks, Check(r) PROVE FleetTypeOK' /\ AsksAreSomebodys'
  <2>0. ask[r].at # "idle" /\ Kept /\ CacheTypeOK'
    BY <1>t, <1>5, CacheTyped DEF Check, CacheTypeOK, cache
  <2>1. CASE Become(r, "release")
    BY <1>a, <1>b, <1>m, <2>0, <2>1 DEF AskStep
  <2>2. ASSUME NEW target \in {"invited", "active"},
               ask' = [ask EXCEPT ![r] = [@ EXCEPT !.at = "own", !.target = target]]
        PROVE FleetTypeOK' /\ AsksAreSomebodys'
    <3>1. [ask[r] EXCEPT !.at = "own", !.target = target] \in Ask
      BY <1>t DEF Ask, AskStep, Status
    <3>2. Moved(r)
      BY <1>t, <2>2, <3>1 DEF Ask
    <3> QED BY <1>a, <1>b, <2>0, <3>2
  <2> QED BY <1>5, <2>1, <2>2 DEF Check
<1>6. ASSUME NEW r \in Asks, Own(r) PROVE FleetTypeOK' /\ AsksAreSomebodys'
  <2> DEFINE rows == member[ask[r].owner]
             at == IF Len(rows) > 0 /\ rows[Len(rows)] \in {"active", "invited"} THEN "store" ELSE "write"
             seen == IF Len(rows) > 0 THEN rows[Len(rows)] ELSE "removed"
  <2>0. ask[r].at # "idle" /\ Kept /\ CacheTypeOK'
    BY <1>t, <1>6 DEF Own, CacheTypeOK, cache
  <2>1. rows \in Seq(Status) /\ Len(rows) \in 0 .. MaxRows /\ seen \in Status
    BY <2>0, FleetConstants DEF FleetTypeOK, AsksAreSomebodys, Status
  <2>2. ask' = [ask EXCEPT ![r] = [@ EXCEPT !.at = at, !.row = Len(rows), !.seen = seen]]
    BY <1>6 DEF Own
  <2>3. [ask[r] EXCEPT !.at = at, !.row = Len(rows), !.seen = seen] \in Ask
    BY <1>t, <2>1 DEF Ask, AskStep
  <2> HIDE DEF at, seen, rows
  <2>4. Moved(r)
    BY <1>t, <2>2, <2>3 DEF Ask
  <2> QED BY <1>a, <1>b, <2>0, <2>4
<1>7. ASSUME NEW r \in Asks, Write(r) PROVE FleetTypeOK' /\ AsksAreSomebodys'
  <2> DEFINE o == ask[r].owner
             i == IF ask[r].row = 0 THEN Len(member[o]) + 1 ELSE ask[r].row
             rows == IF ask[r].row = 0 THEN Append(member[o], Saved(r))
                                       ELSE [member[o] EXCEPT ![i] = Saved(r)]
  <2>0. ask[r].at # "idle" /\ CacheTypeOK' /\ asked' = asked
    BY <1>t, <1>7 DEF Write, CacheTypeOK, cache
  <2>1. Moved(r)
    BY <1>7, <1>m DEF Write, AskStep
  <2>2. CASE UNCHANGED <<member, blamed>>
    BY <1>a, <1>b, <2>0, <2>1, <2>2
  <2>3. CASE /\ Len(rows) <= MaxRows
             /\ member' = [member EXCEPT ![o] = rows]
             /\ blamed' = (blamed \/ (rows[i] = "active" /\ Unchecked(r)))
    <3>1. Saved(r) \in Status
      BY <1>t DEF Saved, Ask
    <3>2. o \in Owners /\ member[o] \in Seq(Status)
      BY <2>0 DEF AsksAreSomebodys, FleetTypeOK
    <3>3. rows \in Seq(Status)
      <4>1. [member[o] EXCEPT ![i] = Saved(r)] \in Seq(Status)
        BY <3>1, <3>2, ReplacedIsSeq
      <4>2. Append(member[o], Saved(r)) \in Seq(Status)
        BY <3>1, <3>2
      <4> QED BY <4>1, <4>2
    <3>4. blamed' \in BOOLEAN
      BY <2>3, Zenon DEF FleetTypeOK
    <3>5. member' \in [Owners -> Seq(Status)] /\ \A p \in Owners : Len(member'[p]) <= MaxRows
      BY <2>3, <3>2, <3>3 DEF FleetTypeOK
    <3> QED BY <1>a, <2>0, <2>1, <3>4, <3>5 DEF FleetTypeOK
  <2> QED BY <1>7, <2>2, <2>3 DEF Write
<1>8. ASSUME NEW r \in Asks, Store(r) PROVE FleetTypeOK' /\ AsksAreSomebodys'
  <2>1. Moved(r) /\ ask[r].at # "idle"
    BY <1>8, <1>m DEF Store, AskStep
  <2>2. CacheTypeOK'
    BY <1>t, <1>8, CacheTyped DEF Store, AsksAreSomebodys
  <2> QED BY <1>8, <1>a, <1>b, <2>1, <2>2 DEF Store
<1>9. ASSUME NEW r \in Asks, ReleaseKey(r) PROVE FleetTypeOK' /\ AsksAreSomebodys'
  <2>1. Moved(r) /\ ask[r].at # "idle"
    BY <1>9, <1>m DEF ReleaseKey, AskStep
  <2>2. CacheTypeOK'
    BY <1>t, <1>9, CacheTyped DEF ReleaseKey, AsksAreSomebodys
  <2> QED BY <1>9, <1>a, <1>b, <2>1, <2>2 DEF ReleaseKey
<1>10. ASSUME NEW r \in Asks, Crash(r) PROVE FleetTypeOK' /\ AsksAreSomebodys'
  <2>1. Moved(r) /\ ask[r].at # "idle" /\ Kept /\ CacheTypeOK'
    BY <1>t, <1>10, <1>m DEF Crash, AskStep, CacheTypeOK, cache
  <2> QED BY <1>a, <1>b, <2>1
<1>11. ASSUME NEW k \in Keys, Pass(k) PROVE FleetTypeOK' /\ AsksAreSomebodys'
  <2>1. CacheTypeOK' /\ Kept /\ ask' = ask
    BY <1>t, <1>11, CacheTyped DEF Pass
  <2> QED BY <1>t, <1>b, <2>1 DEF AsksAreSomebodys
<1>12. CASE UNCHANGED fleetVars
  BY <1>12 DEF fleetVars, cache, FleetTypeOK, CacheTypeOK, AsksAreSomebodys
<1> QED BY <1>1, <1>2, <1>3, <1>4, <1>5, <1>6, <1>7, <1>8, <1>9, <1>10, <1>11, <1>12 DEF FleetNext

(* The state stays within its types, whatever owners, crashes and the      *)
(* cache do.                                                               *)
THEOREM FleetTypeCorrect == FleetSpec => [](FleetTypeOK /\ AsksAreSomebodys)
<1> QED BY FleetInitTyped, FleetStepTyped, PTL DEF FleetSpec

-----------------------------------------------------------------------------
(* Requests with one key: every step keeps HoldersHold and NoTwinWrites.   *)
(* A step that takes no lock and puts no request behind one needs only     *)
(* what follows.                                                           *)
LEMMA GuardedGoOn ==
  ASSUME HoldersHold, NoTwinWrites,
         \A r \in Asks, k \in Keys : Guarded(r, k)' => Guarded(r, k),
         inflight' = inflight, unguarded' = unguarded
  PROVE  HoldersHold' /\ NoTwinWrites'
  BY DEF HoldersHold, NoTwinWrites

LEMMA GuardedLeaves ==
  ASSUME HoldersHold, NoTwinWrites, NEW r \in Asks,
         \A q \in Asks, k \in Keys : Guarded(q, k)' => q # r /\ Guarded(q, k),
         inflight \ {ask[r].key} \subseteq inflight', unguarded' = unguarded,
         \A k \in Keys : k = ask[r].key => Guarded(r, k)
  PROVE  HoldersHold' /\ NoTwinWrites'
  BY DEF HoldersHold, NoTwinWrites

LEMMA TwinsStep ==
  FleetTypeOK /\ AsksAreSomebodys /\ HoldersHold /\ NoTwinWrites /\ [FleetNext]_fleetVars
    => (HoldersHold /\ NoTwinWrites)'
<1> SUFFICES ASSUME FleetTypeOK, AsksAreSomebodys, HoldersHold, NoTwinWrites, [FleetNext]_fleetVars
             PROVE  HoldersHold' /\ NoTwinWrites'
  OBVIOUS
<1>t. ask \in [Asks -> Ask] /\ CacheTypeOK
  BY DEF FleetTypeOK
<1> DEFINE Past == {"check", "own", "write", "store", "release"}
           SameLocks == inflight' = inflight /\ unguarded' = unguarded
           Onward == \A q \in Asks, k \in Keys : Guarded(q, k)' => Guarded(q, k)
<1>a. ASSUME NEW r \in Asks, NEW at \in AskStep, Become(r, at), at \in Past => ask[r].at \in Past
      PROVE  Onward
  <2>1. ask'[r].at = at /\ (at # "idle" => ask'[r].key = ask[r].key)
    BY <1>t, <1>a, BecomeKeeps
  <2>2. \A q \in Asks \ {r} : ask'[q] = ask[q]
    BY <1>t, <1>a, BecomeMoves
  <2>3. \A k \in Keys : Guarded(r, k)' => Guarded(r, k)
    BY <1>a, <2>1 DEF Guarded
  <2> QED BY <2>2, <2>3 DEF Guarded
<1>b. ASSUME NEW r \in Asks, Become(r, "idle")
      PROVE  \A q \in Asks, k \in Keys : Guarded(q, k)' => q # r /\ Guarded(q, k)
  <2>1. ask'[r].at = "idle" /\ \A q \in Asks \ {r} : ask'[q] = ask[q]
    BY <1>t, <1>b, BecomeMoves, BecomeKeeps DEF AskStep
  <2> QED BY <2>1 DEF Guarded
<1>1. ASSUME NEW r \in Asks, NEW o \in Owners, NEW k \in Keys, ArriveAdd(r, o, k)
      PROVE HoldersHold' /\ NoTwinWrites'
  <2>1. ask'[r].at = "lookup" /\ \A q \in Asks \ {r} : ask'[q] = ask[q]
    BY <1>t, <1>1 DEF ArriveAdd, NoAsk
  <2> QED BY <1>1, <2>1, GuardedGoOn DEF ArriveAdd, Guarded, cache
<1>2. ASSUME NEW r \in Asks, NEW o \in Owners, NEW k \in Keys, NEW i \in 1 .. MaxRows,
             NEW what \in {"active", "suspended", "removed", "same"}, ArrivePatch(r, o, i, what, k)
      PROVE HoldersHold' /\ NoTwinWrites'
  <2>1. ask'[r].at = "lookup" /\ \A q \in Asks \ {r} : ask'[q] = ask[q]
    BY <1>t, <1>2 DEF ArrivePatch, NoAsk
  <2> QED BY <1>2, <2>1, GuardedGoOn DEF ArrivePatch, Guarded, cache
<1>3. ASSUME NEW r \in Asks, Lookup(r) PROVE HoldersHold' /\ NoTwinWrites'
  <2>1. ask[r].key \in Keys /\ (Become(r, "idle") \/ Become(r, "lock"))
    BY <1>3 DEF Lookup, AsksAreSomebodys
  <2>2. SameLocks
    BY <1>t, <1>3, <2>1, CacheCalls DEF Lookup, cache
  <2>3. Onward
    BY <1>a, <2>1 DEF AskStep
  <2> QED BY <2>2, <2>3, GuardedGoOn
<1>4. ASSUME NEW r \in Asks, Lock(r) PROVE HoldersHold' /\ NoTwinWrites'
  <2> DEFINE k == ask[r].key
  <2>1. k \in Keys /\ ask[r].at = "lock"
    BY <1>4 DEF Lock, AsksAreSomebodys
  <2>2. CASE LockRefused(k) /\ Become(r, "idle")
    <3>1. SameLocks
      BY <1>t, <2>1, <2>2, CacheCalls DEF cache
    <3>2. Onward
      BY <1>a, <2>2 DEF AskStep
    <3> QED BY <3>1, <3>2, GuardedGoOn
  <2>3. ASSUME LockTaken(k) \/ LockFailed(k), NEW at \in {"check", "write"}, Become(r, at)
        PROVE HoldersHold' /\ NoTwinWrites'
    <3>1. /\ ask'[r].key = k /\ ~(\E l \in Keys : Guarded(r, l))
          /\ \A q \in Asks \ {r} : ask'[q] = ask[q]
      BY <1>t, <2>1, <2>3, BecomeMoves, BecomeKeeps DEF Guarded, AskStep
    <3>2. \A q \in Asks \ {r}, l \in Keys : Guarded(q, l)' => Guarded(q, l)
      BY <3>1 DEF Guarded
    <3>3. \A l \in Keys : Guarded(r, l)' => l = k
      BY <3>1 DEF Guarded
    <3>4. CASE LockTaken(k)
      <4>1. k \notin inflight /\ inflight' = inflight \cup {k} /\ unguarded' = unguarded
        BY <1>t, <2>1, <3>4, CacheCalls
      <4>2. \A q \in Asks \ {r} : Guarded(q, k) => k \in unguarded
        BY <2>1, <4>1 DEF HoldersHold
      <4>3. HoldersHold'
        BY <2>1, <3>2, <3>3, <4>1 DEF HoldersHold
      <4>4. NoTwinWrites'
        BY <2>1, <3>2, <3>3, <4>1, <4>2 DEF NoTwinWrites
      <4> QED BY <4>3, <4>4
    <3>5. CASE LockFailed(k)
      <4>1. inflight' = inflight /\ unguarded' = unguarded \cup {k}
        BY <1>t, <2>1, <3>5, CacheCalls
      <4> QED BY <2>1, <3>2, <3>3, <4>1 DEF HoldersHold, NoTwinWrites
    <3> QED BY <2>3, <3>4, <3>5
  <2> QED BY <1>4, <2>2, <2>3 DEF Lock
<1>5. ASSUME NEW r \in Asks, Check(r) PROVE HoldersHold' /\ NoTwinWrites'
  <2>0. SameLocks /\ ask[r].at = "check"
    BY <1>5 DEF Check, cache
  <2>1. CASE Become(r, "release")
    <3>1. Onward
      BY <1>a, <2>0, <2>1 DEF AskStep
    <3> QED BY <2>0, <3>1, GuardedGoOn
  <2>2. ASSUME NEW target \in {"invited", "active"},
               ask' = [ask EXCEPT ![r] = [@ EXCEPT !.at = "own", !.target = target]]
        PROVE HoldersHold' /\ NoTwinWrites'
    <3>1. ask'[r].key = ask[r].key /\ \A q \in Asks \ {r} : ask'[q] = ask[q]
      BY <1>t, <2>2 DEF Ask
    <3>2. Onward
      BY <2>0, <3>1 DEF Guarded
    <3> QED BY <2>0, <3>2, GuardedGoOn
  <2> QED BY <1>5, <2>1, <2>2 DEF Check
<1>6. ASSUME NEW r \in Asks, Own(r) PROVE HoldersHold' /\ NoTwinWrites'
  <2>0. SameLocks /\ ask[r].at = "own"
    BY <1>6 DEF Own, cache
  <2>1. ask'[r].key = ask[r].key /\ \A q \in Asks \ {r} : ask'[q] = ask[q]
    BY <1>t, <1>6 DEF Own, Ask
  <2>2. Onward
    BY <2>0, <2>1 DEF Guarded
  <2> QED BY <2>0, <2>2, GuardedGoOn
<1>7. ASSUME NEW r \in Asks, Write(r) PROVE HoldersHold' /\ NoTwinWrites'
  <2>0. SameLocks /\ ask[r].at = "write" /\ (Become(r, "release") \/ Become(r, "store"))
    BY <1>7 DEF Write, cache
  <2>1. Onward
    BY <1>a, <2>0 DEF AskStep
  <2> QED BY <2>0, <2>1, GuardedGoOn
<1>8. ASSUME NEW r \in Asks, Store(r) PROVE HoldersHold' /\ NoTwinWrites'
  <2>1. ask[r].key \in Keys /\ Become(r, "idle") /\ Guarded(r, ask[r].key)
    BY <1>8 DEF Store, AsksAreSomebodys, Guarded
  <2>2. inflight \ {ask[r].key} \subseteq inflight' /\ unguarded' = unguarded
    BY <1>t, <1>8, <2>1, CacheCalls DEF Store
  <2> QED BY <1>b, <2>1, <2>2, GuardedLeaves
<1>9. ASSUME NEW r \in Asks, ReleaseKey(r) PROVE HoldersHold' /\ NoTwinWrites'
  <2>1. ask[r].key \in Keys /\ Become(r, "idle") /\ Guarded(r, ask[r].key)
    BY <1>9 DEF ReleaseKey, AsksAreSomebodys, Guarded
  <2>2. inflight \ {ask[r].key} \subseteq inflight' /\ unguarded' = unguarded
    BY <1>t, <1>9, <2>1, CacheCalls DEF ReleaseKey
  <2> QED BY <1>b, <2>1, <2>2, GuardedLeaves
<1>10. ASSUME NEW r \in Asks, Crash(r) PROVE HoldersHold' /\ NoTwinWrites'
  <2>1. Onward /\ SameLocks
    BY <1>b, <1>10 DEF Crash, cache
  <2> QED BY <2>1, GuardedGoOn
<1>11. ASSUME NEW k \in Keys, Pass(k) PROVE HoldersHold' /\ NoTwinWrites'
  <2>1. ask' = ask
    BY <1>11 DEF Pass
  <2>2. \/ inflight' = inflight \ {k} /\ unguarded' = unguarded \cup {k}
        \/ SameLocks
    BY <1>t, <1>11, CacheCalls DEF Pass
  <2> QED BY <2>1, <2>2 DEF HoldersHold, NoTwinWrites, Guarded
<1>12. CASE UNCHANGED fleetVars
  BY <1>12 DEF fleetVars, cache, HoldersHold, NoTwinWrites, Guarded
<1> QED BY <1>1, <1>2, <1>3, <1>4, <1>5, <1>6, <1>7, <1>8, <1>9, <1>10, <1>11, <1>12 DEF FleetNext

(* NoTwinWrites for any number of owners, requests and keys.               *)
THEOREM NoTwins == FleetSpec => []NoTwinWrites
<1>1. FleetInit => HoldersHold /\ NoTwinWrites
  BY DEF FleetInit, HoldersHold, NoTwinWrites, Guarded, NoAsk
<1> QED BY <1>1, FleetTypeCorrect, TwinsStep, PTL DEF FleetSpec

-----------------------------------------------------------------------------
(* TwoFleetsHaveACause: the steps that write no membership.                *)
LEMMA RowsStay ==
  ASSUME TwoFleetsHaveACause, ChecksHold, UNCHANGED <<member, blamed>>,
         \A r \in Asks : PastCheck(r)' => PastCheck(r) /\ ask'[r].owner = ask[r].owner
  PROVE  TwoFleetsHaveACause' /\ ChecksHold'
<1>1. \A o \in Owners : ActiveIn(o)' = ActiveIn(o)
  BY DEF ActiveIn
<1> QED BY <1>1 DEF TwoFleetsHaveACause, ChecksHold

(* A write touches one row of one owner.                                   *)
LEMMA WriteTouchesOneRow ==
  ASSUME FleetTypeOK, AsksAreSomebodys, NEW r \in Asks, Write(r), NEW o \in Owners, o = ask[r].owner
  PROVE  \/ UNCHANGED <<member, blamed>>
         \/ /\ \A p \in Owners \ {o} : ActiveIn(p)' = ActiveIn(p)
            /\ blamed => blamed'
            /\ (ActiveIn(o)' => ActiveIn(o)) \/ (Unchecked(r) => blamed')
<1> DEFINE i == IF ask[r].row = 0 THEN Len(member[o]) + 1 ELSE ask[r].row
           rows == IF ask[r].row = 0 THEN Append(member[o], Saved(r))
                                     ELSE [member[o] EXCEPT ![i] = Saved(r)]
<1>0. member[o] \in Seq(Status) /\ member \in [Owners -> Seq(Status)]
  BY DEF FleetTypeOK
<1>1. SUFFICES ASSUME member' = [member EXCEPT ![o] = rows],
                      blamed' = (blamed \/ (rows[i] = "active" /\ Unchecked(r)))
               PROVE  /\ \A p \in Owners \ {o} : ActiveIn(p)' = ActiveIn(p)
                      /\ blamed => blamed'
                      /\ (ActiveIn(o)' => ActiveIn(o)) \/ (Unchecked(r) => blamed')
  BY DEF Write
<1>2. \A p \in Owners \ {o} : ActiveIn(p)' = ActiveIn(p)
  BY <1>0, <1>1 DEF ActiveIn
<1>3. blamed => blamed'
  BY <1>1, Zenon
<1>4. CASE rows[i] = "active"
  BY <1>1, <1>2, <1>3, <1>4, Zenon
<1>5. CASE rows[i] # "active"
  <2>1. member'[o] = rows
    BY <1>0, <1>1
  <2>2. \A j \in DOMAIN rows : rows[j] = "active" => j \in DOMAIN member[o] /\ member[o][j] = "active"
    <3>1. CASE ask[r].row = 0
      <4>1. rows = Append(member[o], Saved(r)) /\ i = Len(member[o]) + 1
        BY <3>1
      <4>2. Len(member[o]) \in Nat /\ DOMAIN member[o] = 1 .. Len(member[o])
        BY <1>0
      <4>3. DOMAIN rows = 1 .. Len(member[o]) + 1
        BY <1>0, <4>1, AppendProperties
      <4>4. \A j \in 1 .. Len(member[o]) : rows[j] = member[o][j]
        BY <1>0, <4>1, AppendProperties
      <4> HIDE DEF rows, i
      <4> QED BY <1>5, <4>1, <4>2, <4>3, <4>4
    <3>2. CASE ask[r].row # 0
      <4>1. rows = [member[o] EXCEPT ![i] = Saved(r)]
        BY <3>2
      <4> HIDE DEF rows, i
      <4> QED BY <1>5, <4>1
    <3> QED BY <3>1, <3>2
  <2> HIDE DEF rows, i
  <2>3. ActiveIn(o)' => ActiveIn(o)
    BY <2>1, <2>2 DEF ActiveIn
  <2> QED BY <1>2, <1>3, <2>3
<1> QED BY <1>4, <1>5

LEMMA TwoFleetsStep ==
  FleetTypeOK /\ AsksAreSomebodys /\ TwoFleetsHaveACause /\ ChecksHold /\ [FleetNext]_fleetVars
    => (TwoFleetsHaveACause /\ ChecksHold)'
<1> SUFFICES ASSUME FleetTypeOK, AsksAreSomebodys, TwoFleetsHaveACause, ChecksHold,
                    [FleetNext]_fleetVars
             PROVE  TwoFleetsHaveACause' /\ ChecksHold'
  OBVIOUS
<1>t. ask \in [Asks -> Ask]
  BY DEF FleetTypeOK
<1>a. ASSUME NEW r \in Asks, NEW at \in AskStep, Become(r, at),
             at \in {"own", "write"} => PastCheck(r)
      PROVE  \A q \in Asks : PastCheck(q)' => PastCheck(q) /\ ask'[q].owner = ask[q].owner
  <2>1. ask'[r].at = at /\ (at # "idle" => ask'[r].owner = ask[r].owner)
    BY <1>t, <1>a, BecomeKeeps
  <2>2. \A q \in Asks \ {r} : ask'[q] = ask[q]
    BY <1>t, <1>a, BecomeMoves
  <2> QED BY <1>a, <2>1, <2>2 DEF PastCheck
<1>1. ASSUME NEW r \in Asks, NEW o \in Owners, NEW k \in Keys, ArriveAdd(r, o, k)
      PROVE TwoFleetsHaveACause' /\ ChecksHold'
  <2>1. ask'[r].at = "lookup" /\ \A q \in Asks \ {r} : ask'[q] = ask[q]
    BY <1>t, <1>1 DEF ArriveAdd, NoAsk
  <2> QED BY <1>1, <2>1, RowsStay DEF ArriveAdd, PastCheck
<1>2. ASSUME NEW r \in Asks, NEW o \in Owners, NEW k \in Keys, NEW i \in 1 .. MaxRows,
             NEW what \in {"active", "suspended", "removed", "same"}, ArrivePatch(r, o, i, what, k)
      PROVE TwoFleetsHaveACause' /\ ChecksHold'
  <2>1. ask'[r].at = "lookup" /\ \A q \in Asks \ {r} : ask'[q] = ask[q]
    BY <1>t, <1>2 DEF ArrivePatch, NoAsk
  <2> QED BY <1>2, <2>1, RowsStay DEF ArrivePatch, PastCheck
<1>3. ASSUME NEW r \in Asks, Lookup(r) PROVE TwoFleetsHaveACause' /\ ChecksHold'
  BY <1>a, <1>3, RowsStay DEF Lookup, AskStep
<1>4. ASSUME NEW r \in Asks, Lock(r) PROVE TwoFleetsHaveACause' /\ ChecksHold'
  <2>1. Become(r, "idle") \/ Become(r, "check") \/ (ask[r].what # "add" /\ Become(r, "write"))
    BY <1>4 DEF Lock
  <2>2. ASSUME ask[r].what # "add", Become(r, "write")
        PROVE  \A q \in Asks : PastCheck(q)' => PastCheck(q) /\ ask'[q].owner = ask[q].owner
    <3>1. ask'[r].what = ask[r].what /\ \A q \in Asks \ {r} : ask'[q] = ask[q]
      BY <1>t, <2>2, BecomeKeeps, BecomeMoves DEF AskStep
    <3> QED BY <2>2, <3>1 DEF PastCheck
  <2>3. \A q \in Asks : PastCheck(q)' => PastCheck(q) /\ ask'[q].owner = ask[q].owner
    BY <1>a, <2>1, <2>2 DEF AskStep
  <2> QED BY <1>4, <2>3, RowsStay DEF Lock
<1>5. ASSUME NEW r \in Asks, Check(r) PROVE TwoFleetsHaveACause' /\ ChecksHold'
  <2>0. UNCHANGED <<member, blamed>>
    BY <1>5 DEF Check
  <2>1. CASE Become(r, "release")
    BY <1>a, <2>0, <2>1, RowsStay DEF AskStep
  <2>2. ASSUME ~(\E o \in Owners \ {ask[r].owner} : ActiveIn(o)), NEW target \in {"invited", "active"},
               ask' = [ask EXCEPT ![r] = [@ EXCEPT !.at = "own", !.target = target]]
        PROVE TwoFleetsHaveACause' /\ ChecksHold'
    <3>1. ask'[r].owner = ask[r].owner /\ \A q \in Asks \ {r} : ask'[q] = ask[q]
      BY <1>t, <2>2 DEF Ask
    <3>2. \A o \in Owners : ActiveIn(o)' = ActiveIn(o)
      BY <2>0 DEF ActiveIn
    <3> QED BY <2>0, <2>2, <3>1, <3>2 DEF TwoFleetsHaveACause, ChecksHold, PastCheck
  <2> QED BY <1>5, <2>1, <2>2 DEF Check
<1>6. ASSUME NEW r \in Asks, Own(r) PROVE TwoFleetsHaveACause' /\ ChecksHold'
  <2>1. /\ ask'[r].owner = ask[r].owner /\ ask'[r].what = ask[r].what
        /\ ask[r].at = "own" /\ \A q \in Asks \ {r} : ask'[q] = ask[q]
    BY <1>t, <1>6 DEF Own, Ask
  <2> QED BY <1>6, <2>1, RowsStay DEF Own, PastCheck
<1>7. ASSUME NEW r \in Asks, Write(r) PROVE TwoFleetsHaveACause' /\ ChecksHold'
  <2>0. ask[r].at = "write" /\ (Become(r, "release") \/ Become(r, "store"))
    BY <1>7 DEF Write
  <2>1. ~PastCheck(r)' /\ \A q \in Asks \ {r} : ask'[q] = ask[q]
    BY <1>t, <2>0, BecomeKeeps, BecomeMoves DEF PastCheck, AskStep
  <2>2. CASE UNCHANGED <<member, blamed>>
    BY <2>1, <2>2, RowsStay DEF PastCheck
  <2>3. PICK o \in Owners : o = ask[r].owner
    BY <2>0 DEF AsksAreSomebodys
  <2>4. ASSUME \A p \in Owners \ {o} : ActiveIn(p)' = ActiveIn(p), blamed => blamed',
               ActiveIn(o)' => ActiveIn(o)
        PROVE TwoFleetsHaveACause' /\ ChecksHold'
    <3>1. \A p \in Owners : ActiveIn(p)' => ActiveIn(p)
      BY <2>4
    <3> QED BY <2>1, <2>4, <3>1 DEF TwoFleetsHaveACause, ChecksHold, PastCheck
  <2>5. ASSUME \A p \in Owners \ {o} : ActiveIn(p)' = ActiveIn(p), blamed => blamed',
               Unchecked(r) => blamed'
        PROVE TwoFleetsHaveACause' /\ ChecksHold'
    <3>1. SUFFICES ASSUME ~blamed' PROVE TwoFleetsHaveACause' /\ ChecksHold'
      BY DEF TwoFleetsHaveACause, ChecksHold
    <3>2. ~blamed /\ ~Unchecked(r)
      BY <2>5, <3>1
    <3>3. \A p \in Owners \ {o} : ~ActiveIn(p)'
      BY <2>0, <2>3, <2>5, <3>2 DEF ChecksHold, PastCheck, Unchecked
    <3>4. \A q \in Asks : PastCheck(q)' => q # r /\ ask'[q] = ask[q] /\ ask[q].owner = o
      BY <2>1, <2>3, <3>2 DEF PastCheck, Unchecked
    <3> QED BY <3>3, <3>4 DEF TwoFleetsHaveACause, ChecksHold
  <2> QED BY <1>7, <2>2, <2>3, <2>4, <2>5, WriteTouchesOneRow
<1>8. ASSUME NEW r \in Asks, Store(r) PROVE TwoFleetsHaveACause' /\ ChecksHold'
  BY <1>a, <1>8, RowsStay DEF Store, AskStep
<1>9. ASSUME NEW r \in Asks, ReleaseKey(r) PROVE TwoFleetsHaveACause' /\ ChecksHold'
  BY <1>a, <1>9, RowsStay DEF ReleaseKey, AskStep
<1>10. ASSUME NEW r \in Asks, Crash(r) PROVE TwoFleetsHaveACause' /\ ChecksHold'
  BY <1>a, <1>10, RowsStay DEF Crash, AskStep
<1>11. ASSUME NEW k \in Keys, Pass(k) PROVE TwoFleetsHaveACause' /\ ChecksHold'
  BY <1>11, RowsStay DEF Pass, PastCheck
<1>12. CASE UNCHANGED fleetVars
  BY <1>12, RowsStay DEF fleetVars, PastCheck
<1> QED BY <1>1, <1>2, <1>3, <1>4, <1>5, <1>6, <1>7, <1>8, <1>9, <1>10, <1>11, <1>12 DEF FleetNext

(* TwoFleetsHaveACause for any number of owners and requests: an addition  *)
(* that no other owner's overlaps leaves the driver in one fleet.          *)
THEOREM TwoFleets == FleetSpec => []TwoFleetsHaveACause
<1>1. FleetInit => TwoFleetsHaveACause /\ ChecksHold
  BY DEF FleetInit, TwoFleetsHaveACause, ChecksHold, ActiveIn, PastCheck, NoAsk
<1> QED BY <1>1, FleetTypeCorrect, TwoFleetsStep, PTL DEF FleetSpec

=============================================================================
