SPECIFICATION Spec
CONSTANTS
  a1 = a1  k1 = k1  v1 = v1  kv = kv  d1 = d1  d2 = d2  dk = dk
  t1 = t1  t2 = t2  p1 = p1  p2 = p2  seller = seller  keeper = keeper
  Bodies = {a1, k1, v1, kv}  Artifacts = {a1, k1}  Worlds = {v1, kv}
  Drafts = {d1, d2, dk}  Copies = {p1, p2}  Txs = {t1, t2}
  Calls = {c1, c2}  Ids = {1, 2}
  Lookback = 1  DraftLife = 1  MaxTime = 3
  Sent <- MCSent
  Keeper <- MCKeeper
  Free <- MCFree
  Covers <- MCCovers
  CopyOf <- MCCopyOf
  DraftOf <- MCDraftOf
  SellerOf <- MCSellerOf
  None = None
  Rival = Rival
SYMMETRY Interchangeable
CONSTRAINT SmallInstance
INVARIANTS TypeOK FeeBuysOneListing AnswersHold CanceledOwesNothing
PROPERTIES NoSecondFee SoldAsListed LedgerSpec
