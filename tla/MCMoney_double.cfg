SPECIFICATION MoneySpec

CONSTANTS
  t1 = t1
  t2 = t2
  d1 = d1
  d2 = d2
  w1 = w1
  w2 = w2
  p1 = p1
  p2 = p2
  Parts = {"trips"}
  NoDriver = NoDriver
  NoTrip = NoTrip
  NoPayout = NoPayout
  NoWorker = NoWorker
  Trips = {t1}
  Drivers = {d1}
  Workers = {w1, w2}
  Payouts = {}
  Withdrawing = {}
  Estimate = 10
  Toll = 1
  Commission = 2
  FreeRides = 1
  Amounts = {6}
  MaxWebhooks = 1

INVARIANTS SettledOneWay

CHECK_DEADLOCK FALSE
