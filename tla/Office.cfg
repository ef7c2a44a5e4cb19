SPECIFICATION Spec
CONSTANTS
  Three = {r1, r2, r3}
  Two = {q1, q2}
  Couple = {t1, t2}
  nothing = nothing
  NoteAmount = {1, 2}
  NoteTotal = 2
  TripDriver = {"d1", "d2"}
  TripAmount = {0, 1, 2}
  TripSheet <- MCTripSheet
  PolicySheet <- MCPolicySheet
  PolicyChoice <- MCPolicyChoice
  PolicyLimit = {50}
  PolicyDay = {2}
  PolicyCharge = {7}
  PolicyCrowd = 1
  Routes = {"a", "b", "c"}
  RouterConfig <- MCRouterConfig
  RouterBucket <- MCRouterBucket
  RouterTtl = 1
  RouterThreshold = 2
  RouterCooldown = 2
  RouterHorizon = 4
  BookSupplier = {"s"}
  BookOpening = {6}
  BookRow = {"x", "y"}
  BookAmount = {2}
  BookDay = {1, 3}
  BookSheets <- MCBookSheets
  BookPayments <- MCBookPayments
  BookExpenses <- MCBookExpenses
  CustomerDocs <- MCCustomerDocs
  CustomerDays = {5, 6, 7, 8, 12, 14, 15}
  PartyDocs <- MCPartyDocs
  PartyDays = {1, 2, 3, 4, 5}
  PartyOpening = 6
  WalletDocs <- MCWalletDocs
  LastBookDay = 20
  DriverMonth <- MCDriverMonth
  DriverSalary = {10}
  DriverPaid = {0, 7}
  DriverStart = {1, 2, 3}
  DriverManual = {"m"}
  TaxRequest <- MCTaxRequest
  TaxCustomer = {"c1"}
  TaxLarge = 8
  TaxHorizon = 3
  TaxDraft <- MCTaxDraft
  TaxBill <- MCTaxBill
  TaxTotal <- MCTaxTotal
  TaxState <- MCTaxState
  ReceiptTrip = {"t1", "t2", "t3"}
  ReceiptCompany = {"A", "B"}
  ReceiptFirst <- MCReceiptFirst
  ReceiptTyped = {2}
  ReceiptLimit = 2
SYMMETRY MCSymmetric
CHECK_DEADLOCK FALSE
INVARIANTS
  
  
  ChangesAgree
  
  
  ReturnsAgree
  
PROPERTIES
  SyncHeals
  KillTakesEffect
  SettledStands
