\* Two requests at a time, which may die, on one trip, two invoices and a payment.
CONSTANTS
  Trip = {t1}
  Price = {p1}
  Invoice = {i1, i2}
  Receipt = {r1}
  Remittance = {}
  Clerk = {c1, c2}
  Nothing = Nothing
  Deaths = TRUE
SPECIFICATION Spec
SYMMETRY Symmetry
INVARIANTS
  MarkIsGenuine
  
PROPERTIES
  RecomputeHeals
\* No trip, no invoice and no fresh id may be left.
CHECK_DEADLOCK FALSE
