SPECIFICATION Spec
CONSTANTS
  Writer = {w1, w2}
  Admin = {}
  Replayer = {}
  Backfiller = {}
  Nobody = Nobody
  NoDoc = NoDoc
  NoLeg = NoLeg
  MaxRetries = 2
  Doc = {"e1", "e2"}
  Key <- MCKey
  Leg <- MCLeg
  KeyOf <- MCKeyOf
  Project <- MCProject
  Exact <- MCKey
INVARIANT NoLegacyLeg
