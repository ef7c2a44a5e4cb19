\* One request after the other, on three trips, two invoices and two payments.
CONSTANTS
  Trip = {t1, t2, t3}
  Price = {p1, p2}
  Invoice = {i1, i2}
  Receipt = {r1, r2}
  Remittance = {m1}
  Clerk = {c1}
  Nothing = Nothing
  Deaths = FALSE
SPECIFICATION Spec
SYMMETRY Symmetry
INVARIANTS
  TripOnOneBill
  MarksAgree
  BooksAgree
  PaymentsOnRecord
\* No trip, no invoice and no fresh id may be left.
CHECK_DEADLOCK FALSE
