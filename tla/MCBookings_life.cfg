\* The whole life of a trip, and a second booking that ends the first.
SPECIFICATION BookingsSpec
CONSTANTS
  b1 = b1
  b2 = b2
  d1 = d1
  d2 = d2
  w1 = w1
  w2 = w2
  w3 = w3
  Parts = {"life", "repeat"}
  Bookings = {b1, b2}
  Drivers = {d1}
  Workers = {w1, w2}
  NoDriver = NoDriver
  NoBooking = NoBooking
  NoWorker = NoWorker
  CustomerOf <- OneCustomer
  RouteEdited = {b1}
  SocketDriven = {}
  Pushed = {}
  MaxEvents <- Longest
SYMMETRY Alike2
INVARIANTS
  TypeOK
  StartedHasPhoto
CHECK_DEADLOCK FALSE
