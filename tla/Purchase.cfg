SPECIFICATION Spec
CONSTANTS
  l1 = l1  o1 = o1  o2 = o2  w1 = w1  w2 = w2  t1 = t1  t2 = t2
  Orders = {o1, o2}  Listings = {l1}  Wallets = {w1, w2}  Txs = {t1, t2}
  TTL = 1
  MaxTime = 2
  Kinds = {"intent", "claim", "buy"}
  Exits = {"removed", "withdrawn"}
  Requests = {r1, r2}
  ListingOf <- MCListingOf
  Controls <- MCControls
  From <- MCFrom
  Covers <- MCCovers
  None = None
  Rival = Rival
SYMMETRY Interchangeable
CONSTRAINT SmallInstance
INVARIANTS TypeOK PaidFor Reserved
PROPERTIES NothingSoldAfterLeaving NoSecondIntent LedgerSpec
