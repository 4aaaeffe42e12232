SPECIFICATION FairMoneySpec

CONSTANTS
  t1 = t1
  t2 = t2
  d1 = d1
  d2 = d2
  w1 = w1
  w2 = w2
  p1 = p1
  p2 = p2
  Parts = {"trips", "payouts"}
  NoDriver = NoDriver
  NoTrip = NoTrip
  NoPayout = NoPayout
  NoWorker = NoWorker
  Trips = {t1}
  Drivers = {d1, d2}
  Workers = {w1, w2}
  Payouts = {p1}
  Withdrawing = {d2}
  Estimate = 10
  Toll = 0
  Commission = 2
  FreeRides = 1
  Amounts = {6}
  MaxWebhooks = 2

INVARIANTS OneEntryPerReference LedgerMatches FreeIsRecorded
PROPERTIES CompletedIsSettled

CHECK_DEADLOCK FALSE
