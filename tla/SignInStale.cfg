SPECIFICATION Spec
CONSTANTS
  Merchants = {m1}  Hosted = {h1}  Direct = {d1}
  Pairings = {x1}  Pages = {p1}  Calls = {c1}
  None = None
  MaxKeys = 2  MaxTokens = 1
CONSTRAINT SmallInstance
CHECK_DEADLOCK FALSE
INVARIANT CodeDiesWithItsKey
