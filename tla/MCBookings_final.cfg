\* One booking, no socket pushes and no route edits.
SPECIFICATION BookingsSpec
CONSTANTS
  b1 = b1
  b2 = b2
  d1 = d1
  d2 = d2
  w1 = w1
  w2 = w2
  w3 = w3
  Parts = {"cancel"}
  Bookings = {b1}
  Drivers = {d1}
  Workers = {w1, w2}
  NoDriver = NoDriver
  NoBooking = NoBooking
  NoWorker = NoWorker
  CustomerOf <- OneCustomer
  RouteEdited = {}
  SocketDriven = {}
  Pushed = {}
  MaxEvents <- Longest
SYMMETRY Alike2
PROPERTY FinalIsFinal
CHECK_DEADLOCK FALSE
