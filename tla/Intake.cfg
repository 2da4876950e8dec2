SPECIFICATION Spec
CONSTANTS
  Calls = {c1, c2}
  Users = {u1, u2}
  Bookings = {b1, b2}
  MaxSaves = 2
  MaxDeaths = 1
  NoUser = NoUser
SYMMETRY Alike
INVARIANTS DataReachable DetailsAsSaid ErasureLeavesNothing
