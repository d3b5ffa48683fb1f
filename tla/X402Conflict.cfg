SPECIFICATION Spec
CONSTANTS
  p1 = p1  p2 = p2  p3 = p3  a1 = a1  a2 = a2  t1 = t1  t2 = t2
  Ops = {o1, o2}  Proofs = {p1, p2}  Auths = {a1}  Txs = {t1}
  MaxTime = 1
  Requests = {r1, r2}
  AuthOf <- MCAuthOf
  Pays <- MCPays
  None = None
  Rival = Rival
SYMMETRY Interchangeable
PROPERTIES ConflictPreserved
