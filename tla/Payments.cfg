SPECIFICATION Spec
CONSTANTS
  Request = {r1, r2}
  Clerk = {c1, c2, c3}
  Opening = opening
  Amount = {5, 7}
  Stake = {5}
  Party = {"vendor", "supplier"}
  Nothing = nothing
  LinkBill = {"b"}
  LinkOrder = {"w"}
  LinkExpense = {"e"}
  LinkAmount = {1, 2}
  ImportVehicle = {"v1", "v2"}
  ImportManual <- MCImportManual
  ImportRegistered <- MCImportRegistered
  ImportEntered <- MCImportEntered
  ImportStatement <- MCImportStatement
  MasterTyped <- MCMasterTyped
  MasterLegacy <- MCMasterLegacy
SYMMETRY MCSymmetric
CHECK_DEADLOCK FALSE
INVARIANTS
  AllOrNothing
  NeverLost
  TrailMatches
  
  NetsZero
  
  ImportsAgree
PROPERTIES
  ReversalIsFinal
