\* One booking, two drivers: the races for its timeline, and who gets the trip.
SPECIFICATION BookingsSpec
CONSTANTS
  b1 = b1
  b2 = b2
  d1 = d1
  d2 = d2
  w1 = w1
  w2 = w2
  w3 = w3
  Parts = {"race", "award"}
  Bookings = {b1}
  Drivers = {d1, d2}
  Workers = {w1, w2, w3}
  NoDriver = NoDriver
  NoBooking = NoBooking
  NoWorker = NoWorker
  CustomerOf <- OneCustomer
  RouteEdited = {}
  SocketDriven = {b1}
  Pushed = {"searching_driver", "driver_accepted", "completed", "other"}
  MaxEvents <- Longest
SYMMETRY Alike3
INVARIANTS
  TimelineGapless
  AcceptNeverCollides
  AssignedWasOffered
  WinnerKeepsTrip
PROPERTIES
  DriverSetOnlyWhileOpen
  AwardsTrips
CHECK_DEADLOCK FALSE
