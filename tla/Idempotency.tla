---------------------------- MODULE Idempotency ----------------------------
(***************************************************************************)
(* The idempotency keys of common/api/idempotency.py: for every key an     *)
(* answer, kept a minute, and a lock, kept fifteen seconds, both in the    *)
(* cache.  A key is the client's header or a fingerprint of the request.   *)
(* Every operator is one call of the cache; a cache that fails answers     *)
(* nothing and refuses nothing.                                            *)
(***************************************************************************)
EXTENDS Naturals, FiniteSets, Sequences

CONSTANT Keys

VARIABLES
  answered,  \* idempotency:resp:<key>, the keys that have one
  inflight,  \* idempotency:lock:<key>, the keys that are locked
  unguarded  \* history: keys whose lock lapsed or was refused to nobody

cache == <<answered, inflight, unguarded>>

CacheTypeOK == answered \subseteq Keys /\ inflight \subseteq Keys /\ unguarded \subseteq Keys
CacheInit == answered = {} /\ inflight = {} /\ unguarded = {}

(* get_cached_idempotency_response: a miss may be a failure.               *)
Answered(k) == k \in answered /\ UNCHANGED cache
NotAnswered(k) == UNCHANGED cache

(* mutant: the lock is read and then set                                   *)
LockRead(k) ==
  /\ inflight' = inflight \cup {k}
  /\ UNCHANGED <<answered, unguarded>>

(* check_and_set_idempotency_lock: TRUE, by cache.add or because it        *)
(* failed; and FALSE.                                                      *)
LockTaken(k) ==
  /\ k \notin inflight
  /\ inflight' = inflight \cup {k}
  /\ UNCHANGED <<answered, unguarded>>
LockFailed(k) ==
  /\ unguarded' = unguarded \cup {k}
  /\ UNCHANGED <<answered, inflight>>
LockRefused(k) == k \in inflight /\ UNCHANGED cache

(* release_idempotency_lock asks nobody whose lock it is.                  *)
Release(k) ==
  /\ inflight' \in {inflight, inflight \ {k}}
  /\ UNCHANGED <<answered, unguarded>>

(* store_idempotency_response: the answer, then the lock; a failure of the *)
(* first leaves both.                                                      *)
StoreAnswer(k) ==
  \/ /\ answered' = answered \cup {k}
     /\ inflight' \in {inflight, inflight \ {k}}
     /\ UNCHANGED unguarded
  \/ UNCHANGED cache

(* The times to live pass.                                                 *)
LockLapses(k) ==
  /\ k \in inflight
  /\ inflight' = inflight \ {k}
  /\ unguarded' = unguarded \cup {k}
  /\ UNCHANGED answered
AnswerLapses(k) ==
  /\ k \in answered
  /\ answered' = answered \ {k}
  /\ UNCHANGED <<inflight, unguarded>>

=============================================================================
