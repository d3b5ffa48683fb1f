SPECIFICATION Spec
CONSTANTS
  Rotations = {s1, s2}  Recoveries = {s3, s4}  Slots = {c1, c2}
  Requests = {r1, r2}
  First = First
  None = None
  DailyLimit = 1
  MaxGeneration = 4
SYMMETRY Interchangeable
CONSTRAINT SmallInstance
INVARIANTS TypeOK OvertakenStaysDead AnswersHold OneCodeOneRecovery
PROPERTY HistoryKept
