SPECIFICATION Spec
CONSTANTS
  Writer = {w1}
  Admin = {a1}
  Replayer = {}
  Backfiller = {b1}
  Nobody = Nobody
  NoDoc = NoDoc
  NoLeg = NoLeg
  MaxRetries = 2
  Doc = {"none", "i1", "i2"}
  Key <- MCKey
  Leg <- MCLeg
  KeyOf <- MCKeyOf
  Project <- MCProject
  Exact <- MCExact
INVARIANTS LoneProjectionHeals
PROPERTIES KeepsContract
