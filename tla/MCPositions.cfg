SPECIFICATION PositionsSpec
CONSTANTS
 d1=d1
 s1=s1
 s2=s2
 NoDriver=NoDriver
 NoSearch=NoSearch
 Drivers={d1}
 Approved={d1}
 Searches={s1,s2}
 Rings=1
 MaxBatch=1
 OfferWait=2
 RetryWait=1
 MaxStarts=3
 MaxFailures=0
 p1=p1
 q1=q1
 q2=q2
 Phones={p1}
 Requests={q1,q2}
 Points<-PointsMC
 NoPoint=NoPoint
 ZoneRing<-RingMC
 Configured<-ConfiguredMC
 Targets<-TargetsMC
 MaxErrors=1
 MaxSwitches=3
INVARIANTS PresenceTypeOK EveryDriverCountedOnce LevelsAgree
PROPERTIES Resolves OnlineIsFoundAgain OfflineIsForgotten
CHECK_DEADLOCK FALSE
