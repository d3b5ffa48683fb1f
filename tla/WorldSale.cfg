SPECIFICATION Spec
CONSTANTS
  l1 = l1  l2 = l2  b1 = b1  b2 = b2  t1 = t1  t2 = t2
  Listings = {l1, l2}  Buyers = {b1, b2}  Txs = {t1, t2}
  Slots = {1, 2}
  Life = 1
  Lead = 0
  Window = 1
  MaxTime = 3
  Closings = {"removed", "withdrawn", "canceled", "stale"}
  Calls = {c1, c2}
  Covers <- MCCovers
  Says <- MCSays
  None = None
  Rival = Rival
SYMMETRY Interchangeable
CONSTRAINT SmallInstance
INVARIANTS TypeOK SoldOnce
PROPERTIES BorderDecides LedgerSpec
