SPECIFICATION Spec
CONSTANTS
  Merchants = {m1, m2}  Hosted = {h1, h2}  Direct = {d1, d2}
  Pairings = {x1, x2}  Pages = {p1, p2}  Calls = {c1, c2}
  None = None
  MaxKeys = 2  MaxTokens = 3
SYMMETRY Interchangeable
CONSTRAINT SmallInstance
CHECK_DEADLOCK FALSE
INVARIANTS TypeOK AnswersHold PairsOnce GrantDiesWithKey SpentOnce ReplayEndsFamily
PROPERTY ImplementsTokens
