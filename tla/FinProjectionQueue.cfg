SPECIFICATION Spec
CONSTANTS
  Writer = {w1, w2}
  Admin = {}
  Replayer = {r1}
  Backfiller = {}
  Nobody = Nobody
  NoDoc = NoDoc
  NoLeg = NoLeg
  MaxRetries = 2
  Doc = {"e1", "e2"}
  Key <- MCKey
  Leg <- MCLeg
  KeyOf <- MCKeyOf
  Project <- MCProject
  Exact <- MCKey
INVARIANTS SettledLedgerIsFaithful
 
SYMMETRY WriterSymmetry
