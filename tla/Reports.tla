------------------------------ MODULE Reports ------------------------------
(***************************************************************************)
(* What a fleet owner is shown (fleet/services.py): the dashboard, the     *)
(* roster, the alerts, the trips and the earnings, over the drivers who    *)
(* are members of his fleet and over their bookings; and the overview of   *)
(* the admin portal, over all bookings.                                    *)
(*                                                                         *)
(* Nothing is read in one transaction: fleet_earnings queries the          *)
(* members twice and the bookings twice, and drivers, bookings,            *)
(* memberships and the day go on between.  A completed booking does not    *)
(* stay as it is: handlers save columns of rows they read before.          *)
(***************************************************************************)
EXTENDS Integers, FiniteSets, Functions

CONSTANTS
  Drivers, Trips, NoDriver,
  Fares,            \* final fares
  Estimate,         \* estimated_fare, of every trip
  NoRow,
  WeekDays, MonthDays, \* length of a week and of a month
  NoReport,
  MaxDays,          \* bound: days in a behaviour
  MaxEvents         \* bound: changes of memberships, drivers and bookings

ASSUME ReportConstants ==
  /\ IsFiniteSet(Drivers) /\ IsFiniteSet(Trips) /\ NoDriver \notin Drivers
  /\ Fares \subseteq Nat /\ Estimate \in Nat /\ WeekDays \in Nat \ {0} /\ MonthDays \in Nat \ {0}
  /\ MaxDays \in Nat /\ MaxEvents \in Nat

VARIABLES
  standing,  \* each driver's membership of the fleet; "removed", if there is none
  driver,    \* DriverProfile: is_online and whether the KYC is approved
  trip,      \* Booking: its driver, phase, final_fare and the day of updated_at
  edit,      \* the row that an edit of a route has read, and will save whole
  due,       \* trips whose final_fare the handler that completed them has yet to write
  today,     \* the day it is
  report,    \* what an earnings report in progress has read
  happened,  \* history: what changed since the report began,
  lost,      \* history: the fares of completed trips that saves undid between its reads,
  gained,    \* history: and those that saves put on completed trips
  events

bookingVars == <<trip, edit, due>>
historyVars == <<happened, lost, gained>>
reportVars == <<standing, driver, bookingVars, today, report, historyVars, events>>

Standing == {"invited", "active", "suspended", "removed"}
(* off: cancelled, failed, or some other text; not one that has no quote.  *)
Phase == {"ahead", "underway", "completed", "off"}
Trip == [driver : Drivers \cup {NoDriver}, phase : Phase, fare : Fares, day : 0 .. MaxDays]
ASSUME NoRowRead == NoRow \notin [of : Trips, row : Trip]

ReportInit ==
  /\ standing \in [Drivers -> Standing]
  /\ driver \in [Drivers -> [online : BOOLEAN, approved : BOOLEAN]]
  /\ trip \in [Trips -> {t \in Trip : t.day = 0 /\ t.phase # "underway"}]
  /\ edit = NoRow /\ due = {}
  /\ today = 0
  /\ report = NoReport
  /\ happened = {} /\ lost = 0 /\ gained = 0
  /\ events = 0

-----------------------------------------------------------------------------
(* owner_active_memberships.                                               *)
Members == {d \in Drivers : standing[d] # "removed"}

(* The bookings of some drivers, and sums over them.                       *)
OnTrip(D) == {trip[t].driver : t \in {u \in Trips : trip[u].driver \in D /\ trip[u].phase = "underway"}}
Completed(D, since) ==
  {t \in Trips : trip[t].driver \in D /\ trip[t].phase = "completed" /\ trip[t].day >= since}
Stats(D, since) ==
  LET done == Completed(D, since)
  IN  [earnings |-> SumFunction([t \in done |-> trip[t].fare]), trips |-> Cardinality(done)]

WeekStart  == today - (today % WeekDays)
MonthStart == today - (today % MonthDays)

(* mutant: the totals are those of the drivers who work now                *)
TotalsOfActive(D) ==
  LET A == {d \in D : standing[d] = "active"}
  IN  [today |-> Stats(A, today), week |-> Stats(A, WeekStart),
       month |-> Stats(A, MonthStart), lifetime |-> Stats(A, 0)]

(* fleet_dashboard: counts of the members, and totals of their trips.      *)
Totals(D) ==
  [today |-> Stats(D, today), week |-> Stats(D, WeekStart),
   month |-> Stats(D, MonthStart), lifetime |-> Stats(D, 0)]
Dashboard ==
  [drivers |-> Cardinality(Members),
   online  |-> Cardinality({d \in Members : driver[d].online}),
   onTrip  |-> Cardinality(OnTrip(Members)),
   pending |-> Cardinality({d \in Members : ~driver[d].approved}),
   totals  |-> Totals(Members)]

(* serialize_membership, a member by himself, and serialize_memberships_-  *)
(* batch, all by two queries.                                              *)
Row(d) ==
  [online |-> driver[d].online, approved |-> driver[d].approved,
   onTrip |-> \E t \in Trips : trip[t].driver = d /\ trip[t].phase = "underway",
   today  |-> Stats({d}, today)]
Batch ==
  LET busy == OnTrip(Members)
  IN  [d \in Members |->
         [online |-> driver[d].online, approved |-> driver[d].approved,
          onTrip |-> d \in busy, today |-> Stats({d}, today)]]

(* fleet_alerts; the list ends after forty.                                *)
Alerts ==
  {<<"kyc", d>>       : d \in {e \in Members : ~driver[e].approved}} \cup
  {<<"offline", d>>   : d \in {e \in Members : standing[e] = "active" /\ ~driver[e].online}} \cup
  {<<"suspended", d>> : d \in {e \in Members : standing[e] = "suspended"}}

(* fleet_trips, of some members; it ends after fifty.  A trip that is not  *)
(* completed, or completed for nothing, shows its estimate.                *)
TripsPage(D) ==
  [t \in {u \in Trips : trip[u].driver \in D} |->
     IF trip[t].phase = "completed" /\ trip[t].fare # 0 THEN trip[t].fare ELSE Estimate]

(* PortalOverviewView: the trips ahead and underway are the active ones,   *)
(* and the revenue is that of the estimates.                               *)
Overview ==
  LET done == {t \in Trips : trip[t].phase = "completed"}
  IN  [total |-> Cardinality(Trips),
       active |-> Cardinality({t \in Trips : trip[t].phase \in {"ahead", "underway"}}),
       completed |-> Cardinality(done), revenue |-> Estimate * Cardinality(done)]

-----------------------------------------------------------------------------
(* fleet_earnings: the dashboard reads the members, then their bookings;   *)
(* then the members are read again, and their bookings by driver.          *)
Unmoved == UNCHANGED <<standing, driver, bookingVars, today, events>>
ReadMembers ==
  /\ report = NoReport
  /\ report' = [at |-> "totals", members |-> Members]
  /\ happened' = {} /\ lost' = 0 /\ gained' = 0
  /\ Unmoved
ReadTotals ==
  /\ report # NoReport /\ report.at = "totals"
  /\ report' = [at |-> "members", totals |-> Totals(report.members), day |-> today]
  /\ Unmoved /\ UNCHANGED historyVars
ReadAgain ==
  /\ report # NoReport /\ report.at = "members"
  /\ report' = [at |-> "lines", totals |-> report.totals, day |-> today, members |-> Members]
  /\ Unmoved /\ UNCHANGED historyVars
ReadByDriver ==
  /\ report # NoReport /\ report.at = "lines"
  /\ report' = [at |-> "shown", totals |-> report.totals,
                lines |-> [d \in report.members |->
                             [today |-> Stats({d}, report.day), lifetime |-> Stats({d}, 0)]]]
  /\ Unmoved /\ UNCHANGED historyVars
Leave ==
  /\ report # NoReport /\ report.at = "shown"
  /\ report' = NoReport
  /\ happened' = {} /\ lost' = 0 /\ gained' = 0
  /\ Unmoved

(* What goes on meanwhile.                                                 *)
InProgress == report # NoReport /\ report.at # "shown"
Event(what) ==
  /\ events < MaxEvents
  /\ events' = events + 1
  /\ happened' = IF InProgress THEN happened \cup {what} ELSE happened
  /\ UNCHANGED <<report, today>>
MemberChanges(d, s) ==
  /\ standing' = [standing EXCEPT ![d] = s]
  /\ Event("member")
  /\ UNCHANGED <<driver, bookingVars, lost, gained>>
DriverChanges(d) ==
  /\ driver' = [driver EXCEPT ![d].online = ~@]
  /\ Event("driver")
  /\ UNCHANGED <<standing, bookingVars, lost, gained>>

(* A save of a booking: it sets updated_at, and some of the other columns, *)
(* whatever they are by now.                                               *)
BetweenReads == report # NoReport /\ report.at \in {"members", "lines"}
Undoes(row, old) ==
  old.phase = "completed" /\
    (row.phase # "completed" \/ row.driver # old.driver \/ row.fare < old.fare)
SaveTrip(t, row) ==
  /\ trip' = [trip EXCEPT ![t] = [row EXCEPT !.day = today]]
  /\ lost' = IF BetweenReads /\ Undoes(row, trip[t]) THEN lost + trip[t].fare ELSE lost
  /\ gained' = IF BetweenReads /\ row.phase = "completed" THEN gained + row.fare ELSE gained
  /\ Event("trip")
  /\ UNCHANGED <<standing, driver>>

(* The state alone, by a transition decided on a row read before, by the   *)
(* end of a search, or by what a phone sends over the socket; and after a  *)
(* transition to completed, the fare.                                      *)
TripMoves(t, phase) ==
  /\ SaveTrip(t, [trip[t] EXCEPT !.phase = phase])
  /\ \/ UNCHANGED due
     \/ phase = "completed" /\ due' = due \cup {t}
  /\ UNCHANGED edit
FareWritten(t, fare) ==
  /\ t \in due
  /\ SaveTrip(t, [trip[t] EXCEPT !.fare = fare])
  /\ due' = due \ {t}
  /\ UNCHANGED edit

(* The driver and the state: an accept; and a reassignment, which asks for *)
(* nothing of the state it finds.                                          *)
TripHanded(t, d) ==
  /\ SaveTrip(t, [trip[t] EXCEPT !.driver = d, !.phase = IF d = NoDriver THEN "ahead" ELSE "underway"])
  /\ UNCHANGED <<edit, due>>

(* Every column: an edit of a route saves the whole row it read.           *)
EditReads(t) ==
  /\ edit = NoRow
  /\ edit' = [of |-> t, row |-> trip[t]]
  /\ UNCHANGED <<standing, driver, trip, due, today, report, historyVars, events>>
EditSaves ==
  /\ edit # NoRow
  /\ SaveTrip(edit.of, edit.row)
  /\ edit' = NoRow
  /\ UNCHANGED due

Midnight ==
  /\ today < MaxDays
  /\ today' = today + 1
  /\ happened' = IF report = NoReport THEN happened ELSE happened \cup {"midnight"}
  /\ UNCHANGED <<standing, driver, bookingVars, report, lost, gained, events>>

ReportNext ==
  \/ ReadMembers \/ ReadTotals \/ ReadAgain \/ ReadByDriver \/ Leave
  \/ \E d \in Drivers, s \in Standing : MemberChanges(d, s)
  \/ \E d \in Drivers : DriverChanges(d)
  \/ \E t \in Trips, phase \in Phase : TripMoves(t, phase)
  \/ \E t \in Trips, fare \in Fares : FareWritten(t, fare)
  \/ \E t \in Trips, d \in Drivers \cup {NoDriver} : TripHanded(t, d)
  \/ \E t \in Trips : EditReads(t)
  \/ EditSaves
  \/ Midnight

ReportSpec == ReportInit /\ [][ReportNext]_reportVars

-----------------------------------------------------------------------------
(* The dashboard, the roster in one batch or row by row, and the alerts,   *)
(* read at the moment a report is begun, say the same.  So do the trips:   *)
(* who is on one is shown to be, and the fares of the completed ones add   *)
(* up to the earnings if none was for nothing.  The overview counts them,  *)
(* and takes for revenue what they would show at their estimates.          *)
TripsAgree ==
  LET page == TripsPage(Members)
      done == Completed(Members, 0)
      paid == SumFunctionOnSet(page, done)
      lifetime == Dashboard.totals.lifetime
  IN  /\ Dashboard.onTrip <= Cardinality({t \in DOMAIN page : trip[t].phase = "underway"})
      /\ lifetime.earnings <= paid
      /\ (\A t \in done : trip[t].fare # 0) => lifetime.earnings = paid
      /\ Dashboard.onTrip <= Overview.active /\ lifetime.trips <= Overview.completed
      /\ Overview.revenue >= Estimate * lifetime.trips
Shown(P(_)) == Cardinality({d \in Members : P(Batch[d])})
PagesAgree ==
  report # NoReport /\ report.at = "totals" =>
    /\ TripsAgree
    /\ \A d \in Members : Batch[d] = Row(d)
    /\ Dashboard.online  = Shown(LAMBDA row : row.online)
    /\ Dashboard.onTrip  = Shown(LAMBDA row : row.onTrip)
    /\ Dashboard.pending = Cardinality({x \in Alerts : x[1] = "kyc"})
    /\ Dashboard.totals.today.earnings = SumFunction([d \in Members |-> Batch[d].today.earnings])

(* A report of earnings, although it reads everything twice: while members *)
(* and the day stay, its lines add up to its totals but for the trips      *)
(* saved between the reads of the two.  They fall short by no more than    *)
(* the fares of completed trips that lost their state, driver or fare, and *)
(* exceed them by no more than those of trips that were saved completed.   *)
LinesTotal(span) == SumFunction([d \in DOMAIN report.lines |-> report.lines[d][span].earnings])
LinesAddUp ==
  report # NoReport /\ report.at = "shown" /\ happened \cap {"member", "midnight"} = {} =>
    \A span \in {"today", "lifetime"} :
      /\ LinesTotal(span) + lost >= report.totals[span].earnings
      /\ LinesTotal(span) <= report.totals[span].earnings + gained

(* The pages of a fleet agree with each other, and a report of its         *)
(* earnings with itself.                                                   *)
ReportsAgree == PagesAgree /\ LinesAddUp

=============================================================================
