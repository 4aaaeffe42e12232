SPECIFICATION PartnersSpec
CONSTANTS
 k1=k1
 k2=k2
 e1=e1
 e2=e2
 Clerks={e1,e2}
 Kinds={k1,k2}
 NoKind=NoKind
 NoDoc=NoDoc
 NoProfile=NoProfile
 MaxFiles=2
 a1=a1
 a2=a2
 oa=oa
 ob=ob
 ka=ka
 kb=kb
 Asks={a1,a2}
 Owners={oa,ob}
 Keys={ka,kb}
 Nobody=Nobody
 MaxAsks=3
 MaxRows=2
 l1=l1
 l2=l2
 Logins={l1,l2}
 Bootstrap=TRUE
 MaxCodes=2
 d1=d1
 d2=d2
 t1=t1
 t2=t2
 Drivers={d1,d2}
 Trips={t1,t2}
 Fares={0,3}
 Estimate=2
 WeekDays=2
 MonthDays=3
 NoReport=NoReport
 NoRow=NoRow
 NoDriver=NoDriver
 MaxDays=1
 MaxEvents=2
INVARIANTS OnboardingTypeOK LastApprovalApproves FleetTypeOK TwoFleetsHaveACause NoTwinWrites AccountTypeOK OwnerNeverDrives ReportsAgree
PROPERTIES CodeSpentOnce
CHECK_DEADLOCK FALSE
SYMMETRY Alike
