CONSTANTS
  Launches = {l1}
  Pads = {p1}
  Controllers = {1}
  Guests = {g1}
  MaxSeats = 2
  MaxPads = 1
  MaxEvents = 1
  None = None
SPECIFICATION Spec
INVARIANTS
    TypeOK
    SeatsMatchSources
    InputIsAuthorized
    ViewIsTrue
PROPERTIES
    SeatsAreKept
