------------------------------ MODULE Presence ------------------------------
(***************************************************************************)
(* Where drivers are: availability and post_location of drivers/api.py,    *)
(* driver_location_update of tracking/consumers.py, tracking/services.py   *)
(* and the Redis index of tracking/redis_geo.py, from which dispatch reads *)
(* and beside which calculate_zone_availability counts the live rows.      *)
(*                                                                         *)
(* A request works through the row, the index and the driver's metadata    *)
(* one after the other; requests of one driver overlap when the phone does *)
(* not wait for an answer.                                                 *)
(***************************************************************************)
EXTENDS Zones

CONSTANTS
  Phones,        \* drivers
  Requests,      \* requests that can be in progress at once
  Points,        \* places a phone may report
  NoPoint,
  ZoneRing,      \* the polygon of the city's zone
  Configured,    \* what administrators may store as its sections
  Targets,       \* what the sections' target_drivers may be
  MaxErrors,     \* bound: Redis errors in a behaviour
  MaxSwitches    \* bound: drivers going on- or offline, zones configured

ASSUME PresenceConstants ==
  /\ Points \subseteq Corners /\ NoPoint \notin Points /\ IsFiniteSet(Phones)
  /\ ZoneRing \in Seq(Corners) /\ ZoneRing # <<>>
  /\ Targets \subseteq [Direction -> Int]
  /\ MaxErrors \in Nat /\ MaxSwitches \in Nat

VARIABLES
  sockets,   \* drivers whose phones report by WebSocket
  online,    \* DriverProfile.is_online
  live,      \* DriverLiveLocation row, its point
  geo,       \* drivers:geo, who is in it
  meta,      \* driver:meta:<id>: absent, expiring, or with no time to live
  throttled, \* driver_location_throttle:<id>
  request,   \* the step each request takes next
  sections,  \* ServiceZone.directional_sections
  errors, switches

presenceVars == <<sockets, online, live, geo, meta, throttled, request,
                  sections, errors, switches>>
redis == <<geo, meta>>

RequestStep == {"idle", "first", "row", "geoadd", "hset", "expire", "throttle", "zrem", "delete"}
NoDriverYet == [at |-> "idle", driver |-> NoPoint, point |-> NoPoint]

PresenceTypeOK ==
  /\ sockets \subseteq Phones
  /\ online \in [Phones -> BOOLEAN]
  /\ live \in [Phones -> Points \cup {NoPoint}]
  /\ geo \subseteq Phones
  /\ meta \in [Phones -> {"absent", "expiring", "lasting"}]
  /\ throttled \in [Phones -> BOOLEAN]
  /\ request \in [Requests ->
       [at : RequestStep, driver : Phones \cup {NoPoint}, point : Points \cup {NoPoint}]]
  /\ sections \in Configured \cup {<<>>}
  /\ errors \in 0 .. MaxErrors /\ switches \in 0 .. MaxSwitches

PresenceInit ==
  /\ sockets \in SUBSET Phones
  /\ online = [d \in Phones |-> FALSE]
  /\ live = [d \in Phones |-> NoPoint]
  /\ geo = {}
  /\ meta = [d \in Phones |-> "absent"]
  /\ throttled = [d \in Phones |-> FALSE]
  /\ request = [q \in Requests |-> NoDriverYet]
  /\ sections = <<>>
  /\ errors = 0 /\ switches = 0

-----------------------------------------------------------------------------
(* update_driver_location, called with a point to store: nothing happens   *)
(* while the driver is throttled, his first row excepted.                  *)
Throttled(d) == live[d] # NoPoint /\ throttled[d]
Called(q, d, point) ==
  request' = [request EXCEPT ![q] =
    IF Throttled(d) THEN NoDriverYet ELSE [at |-> "row", driver |-> d, point |-> point]]

(* mutants: nobody is refused; the driver is stored for the point; the     *)
(* throttle never times out                                                *)
ReportUnasked(q, d, point) ==
  /\ request[q].at = "idle"
  /\ Called(q, d, point)
  /\ UNCHANGED <<sockets, online, live, redis, throttled, sections, errors, switches>>
FirstSwapped(q) ==
  /\ request[q].at = "first"
  /\ Called(q, request[q].driver, request[q].driver)
  /\ UNCHANGED <<sockets, online, live, redis, throttled, sections, errors, switches>>
NeverUnthrottle(d) == throttled[d] /\ FALSE /\ UNCHANGED presenceVars

(* post_location refuses a driver who is offline; the socket asks nobody.  *)
Report(q, d, point) ==
  /\ request[q].at = "idle"
  /\ d \notin sockets => online[d]
  /\ Called(q, d, point)
  /\ UNCHANGED <<sockets, online, live, redis, throttled, sections, errors, switches>>

(* availability saves the flag; then, off, it leaves the index, and, on,   *)
(* it stores the position the phone sent with it, if any.                  *)
GoOnline(q, d, point) ==
  /\ request[q].at = "idle" /\ switches < MaxSwitches
  /\ switches' = switches + 1
  /\ online' = [online EXCEPT ![d] = TRUE]
  /\ request' = IF point = NoPoint THEN request
                ELSE [request EXCEPT ![q] = [at |-> "first", driver |-> d, point |-> point]]
  /\ UNCHANGED <<sockets, live, redis, throttled, sections, errors>>
First(q) ==
  /\ request[q].at = "first"
  /\ Called(q, request[q].driver, request[q].point)
  /\ UNCHANGED <<sockets, online, live, redis, throttled, sections, errors, switches>>

GoOffline(q, d) ==
  /\ request[q].at = "idle" /\ switches < MaxSwitches
  /\ switches' = switches + 1
  /\ online' = [online EXCEPT ![d] = FALSE]
  /\ request' = [request EXCEPT ![q] = [at |-> "zrem", driver |-> d, point |-> NoPoint]]
  /\ UNCHANGED <<sockets, live, redis, throttled, sections, errors>>

-----------------------------------------------------------------------------
(* The steps of a request.  A Redis error ends write_driver_geo or         *)
(* remove_driver_geo, is logged, and the request goes on after it.         *)
Proceed(q, at) ==
  request' = [request EXCEPT ![q] = IF at = "idle" THEN NoDriverYet ELSE [@ EXCEPT !.at = at]]

WriteRow(q) ==
  LET d == request[q].driver
  IN  /\ request[q].at = "row"
      /\ live' = [live EXCEPT ![d] = request[q].point]
      /\ Proceed(q, "geoadd")
      /\ UNCHANGED <<sockets, online, redis, throttled, sections, errors, switches>>

GeoAdd(q) ==
  /\ request[q].at = "geoadd"
  /\ geo' = geo \cup {request[q].driver}
  /\ Proceed(q, "hset")
  /\ UNCHANGED <<sockets, online, live, meta, throttled, sections, errors, switches>>

(* HSET keeps the time to live the hash may have.                          *)
HSet(q) ==
  /\ request[q].at = "hset"
  /\ meta' = [meta EXCEPT ![request[q].driver] = IF @ = "absent" THEN "lasting" ELSE @]
  /\ Proceed(q, "expire")
  /\ UNCHANGED <<sockets, online, live, geo, throttled, sections, errors, switches>>

Expire(q) ==
  /\ request[q].at = "expire"
  /\ meta' = [meta EXCEPT ![request[q].driver] = IF @ = "absent" THEN @ ELSE "expiring"]
  /\ Proceed(q, "throttle")
  /\ UNCHANGED <<sockets, online, live, geo, throttled, sections, errors, switches>>

Throttle(q) ==
  /\ request[q].at = "throttle"
  /\ throttled' = [throttled EXCEPT ![request[q].driver] = TRUE]
  /\ Proceed(q, "idle")
  /\ UNCHANGED <<sockets, online, live, redis, sections, errors, switches>>

ZRem(q) ==
  /\ request[q].at = "zrem"
  /\ geo' = geo \ {request[q].driver}
  /\ Proceed(q, "delete")
  /\ UNCHANGED <<sockets, online, live, meta, throttled, sections, errors, switches>>

DeleteMeta(q) ==
  /\ request[q].at = "delete"
  /\ meta' = [meta EXCEPT ![request[q].driver] = "absent"]
  /\ Proceed(q, "idle")
  /\ UNCHANGED <<sockets, online, live, geo, throttled, sections, errors, switches>>

RedisError(q) ==
  /\ errors < MaxErrors
  /\ errors' = errors + 1
  /\ \/ request[q].at \in {"geoadd", "hset", "expire"} /\ Proceed(q, "throttle")
     \/ request[q].at \in {"zrem", "delete"} /\ Proceed(q, "idle")
  /\ UNCHANGED <<sockets, online, live, redis, throttled, sections, switches>>

-----------------------------------------------------------------------------
(* LOCATION_THROTTLE_SECONDS and LOCATION_TTL_SECONDS pass.                *)
Unthrottle(d) ==
  /\ throttled[d]
  /\ throttled' = [throttled EXCEPT ![d] = FALSE]
  /\ UNCHANGED <<sockets, online, live, redis, request, sections, errors, switches>>

MetaExpires(d) ==
  /\ meta[d] = "expiring"
  /\ meta' = [meta EXCEPT ![d] = "absent"]
  /\ UNCHANGED <<sockets, online, live, geo, throttled, request, sections, errors, switches>>

(* configure_sections stores whatever dictionary it is sent.               *)
ConfigureSections(s) ==
  /\ switches < MaxSwitches
  /\ switches' = switches + 1
  /\ sections' = s
  /\ UNCHANGED <<sockets, online, live, redis, throttled, request, errors>>

Work(q) ==
  \/ First(q) \/ WriteRow(q) \/ GeoAdd(q) \/ HSet(q) \/ Expire(q)
  \/ Throttle(q) \/ ZRem(q) \/ DeleteMeta(q)

PresenceNext ==
  \/ \E q \in Requests, d \in Phones, point \in Points : Report(q, d, point)
  \/ \E q \in Requests, d \in Phones, point \in Points :
       GoOnline(q, d, point)
  \/ \E q \in Requests, d \in Phones : GoOnline(q, d, NoPoint)
  \/ \E q \in Requests, d \in Phones : GoOffline(q, d)
  \/ \E q \in Requests : Work(q)
  \/ \E q \in Requests : RedisError(q)
  \/ \E d \in Phones : Unthrottle(d)
  \/ \E d \in Phones : MetaExpires(d)
  \/ \E s \in Configured : ConfigureSections(s)

(* A request goes on once begun, time passes, and a phone keeps reporting  *)
(* while its driver is online.                                             *)
PresenceFairness ==
  /\ \A q \in Requests : WF_presenceVars(Work(q))
  /\ \A d \in Phones :
       /\ WF_presenceVars(Unthrottle(d))
       /\ WF_presenceVars(MetaExpires(d))
       /\ SF_presenceVars(\E q \in Requests, point \in Points :
                            online[d] /\ ~Throttled(d) /\ Report(q, d, point))

PresenceSpec == PresenceInit /\ [][PresenceNext]_presenceVars /\ PresenceFairness

-----------------------------------------------------------------------------
(* georadius_active_drivers returns those with metadata.                   *)
Indexed(d) == d \in geo /\ meta[d] # "absent"

(* A driver who stays online comes into the index, and comes back whenever *)
(* he drops out of it, whatever was in progress when he went online:       *)
(* an earlier removal that overtakes his first position, a throttle that   *)
(* swallows it, or a Redis error.                                          *)
OnlineIsFoundAgain ==
  \A d \in Phones : <>[]online[d] => []<>Indexed(d)

(* A driver who stays offline is forgotten by the index, even when a       *)
(* position that was on its way puts him back after his removal; unless    *)
(* his phone reports by WebSocket, which does not ask, or Redis failed     *)
(* between writing the metadata and giving it a time to live.              *)
OfflineIsForgotten ==
  \A d \in Phones :
    d \notin sockets /\ <>[]~online[d] => <>[](~Indexed(d) \/ meta[d] = "lasting")

(* By the sections a zone has until it is configured, every driver's       *)
(* position within the zone counts in exactly one section, those on the    *)
(* borders between two or on the zone's northern and eastern border too;   *)
(* and a position outside the zone in none.                                *)
WithinBox(p, b) ==
  /\ b.minLat < p.lat /\ p.lat <= b.maxLat
  /\ b.minLng < p.lng /\ p.lng <= b.maxLng
Positioned == {d \in Phones : live[d] # NoPoint}
EveryDriverCountedOnce ==
  Cardinality(DOMAIN sections) < 4 =>
    ZoneTotal(Sections(sections, ZoneRing), live, Positioned)
      = Cardinality({d \in Positioned : WithinBox(live[d], Box(ZoneRing))})

(* Whichever drivers are free, however the sections overlap and whatever   *)
(* their targets, none of them negative, the level shown for the zone is   *)
(* none worse than that of its worst section and none better than that of  *)
(* its best.                                                               *)
LevelsAgree ==
  \A free \in SUBSET Positioned \ {{}} :
    LET cover == [dir \in Direction |->
                    CountIn(SectionRing(Sections(sections, ZoneRing), dir), live, free)]
        total == ZoneTotal(Sections(sections, ZoneRing), live, free)
    IN  \A targets \in {t \in Targets : \A dir \in Direction : t[dir] >= 0} :
          LET level == Level(total, Quota(targets))
          IN  /\ \E dir \in Direction : Level(cover[dir], targets[dir]) <= level
              /\ \E dir \in Direction : Level(cover[dir], targets[dir]) >= level

=============================================================================
