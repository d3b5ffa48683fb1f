SPECIFICATION PagesSpec
CONSTANTS
  a = a
  b = b
  c1 = c1
  c2 = c2
  None = None
  Merchants = {a, b}
  Maintainer = b
  Listings = {1, 2, 3}
  Owner <- OwnerOf
  Calls = {c1, c2}
  Votes = 2
  Remarks = 2
  Texts = {1, 2, 3}
  MaxDay = 2
  Instants = {1, 2}
  PageLimit = 2
SYMMETRY Interchangeable
CONSTRAINT SmallInstance
INVARIANTS
  VotesCounted
  PagesWhole
CHECK_DEADLOCK FALSE
