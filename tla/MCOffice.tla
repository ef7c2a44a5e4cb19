------------------------------- MODULE MCOffice -------------------------------
(***************************************************************************)
(* What the desks of the office are given in the run: small sets of        *)
(* documents, chosen so that the interesting cases come up.                *)
(***************************************************************************)
EXTENDS Office, TLC

MCSymmetric == Permutations(Three) \cup Permutations(Two) \cup Permutations(Couple)

-----------------------------------------------------------------------------
(* Trips: a toll, another line, and a recovery of one of two drivers.      *)

Form(toll, other, driver, recovery) ==
  [lines |-> [l \in {"toll", "other"} |-> IF l = "toll" THEN toll ELSE other],
   driver |-> driver, recovery |-> recovery]
MCTripSheet == {Form(1, 0, "d1", 1), Form(2, 1, "d2", 1), Form(0, 1, "d1", 0)}

-----------------------------------------------------------------------------
(* Policies: a vehicle of one's own that has lost 300 of 10,000 kilograms  *)
(* and one of a supplier that has lost 150; one policy bills what was      *)
(* loaded and deducts beyond two per cent, the other bills what was        *)
(* unloaded and deducts all once 100 kilograms are exceeded.               *)

Own ==
  [date |-> 2, historical |-> FALSE, invoiced |-> FALSE, vehicle_type |-> "own",
   tons |-> 10000, loaded_qty |-> 0, unloaded_qty |-> 9700, rate |-> 100,
   snap |-> [method |-> "per_ton_loading", deduct |-> "net_shortage", limit |-> 0,
             limit_type |-> "none", product |-> 1, supplier_limit |-> 0],
   freight_mode |-> "per_ton", freight_override |-> 0, fixed_amount |-> 0,
   freight_amount |-> 0, freight_qty |-> 0, kms |-> 0, km_rate |-> 0,
   product_rate |-> 1000, shortage_override |-> FALSE, shortage_amount |-> 0,
   shortage_qty |-> 0, excess_override |-> FALSE, excess_amount |-> 0, excess_qty |-> 0,
   loading_date |-> 1, unloading_date |-> 4, total_halting_days |-> 0, grace_days |-> 1,
   halting_rate |-> 5, halting_override |-> FALSE, halting_amount |-> 0,
   lines |-> 40, customer_diesel |-> 10, cash_advance |-> 3, other_income |-> 2,
   receipts |-> {}, diesel_received |-> 0,
   supplier_mode |-> "per_ton", supplier_rate |-> 80, supplier_fixed |-> 0,
   supplier_freight |-> 0, supplier_override |-> FALSE, supplier_shortage |-> 0,
   supplier_halting |-> 0, supplier_advance |-> 30, advances |-> {}, supplier_diesel |-> 0,
   diesels |-> {}, supplier_recoveries |-> 0, supplier_income |-> 0, supplier_net |-> 0,
   expense |-> 0, profit |-> 0, settlement |-> 0, recovery |-> nothing]
Hired == [Own EXCEPT !.date = 1, !.vehicle_type = "supplier", !.unloaded_qty = 9850]
MCPolicySheet == {Own, Hired}
MCPolicyChoice ==
  {[method |-> "per_ton_loading", deduct |-> "net_shortage", limit |-> 2, limit_type |-> "pct"],
   [method |-> "per_ton_unloading", deduct |-> "full_after_limit", limit |-> 100,
    limit_type |-> "kg"]}

-----------------------------------------------------------------------------
(* The router: a configuration that serves two routes and, each in its own *)
(* way, five that serve fewer or none.                                     *)

Serving == [on |-> TRUE, percent |-> 50, routes |-> {"a", "b"}, allowed |-> Routes,
            deferred |-> {"c"}, matches |-> [t \in Routes |-> 1]]
MCRouterConfig ==
  {[Serving EXCEPT !.deferred = {}], [Serving EXCEPT !.deferred = {}, !.percent = 100],
   Serving, [Serving EXCEPT !.deferred = {}, !.matches["a"] = 2],
   [Serving EXCEPT !.deferred = {}, !.allowed = {"a"}], [Serving EXCEPT !.on = FALSE]}
MCRouterBucket == [t \in Routes |-> IF t = "b" THEN 70 ELSE 10]

-----------------------------------------------------------------------------
(* A supplier with one trip or with two, payments of every kind, and an    *)
(* expense that it settles.                                                *)

Journey(id, day, advance, diesel, rows) ==
  [id |-> id, supplier |-> "s", date |-> day, historical |-> FALSE, freight |-> 50,
   halting |-> IF id = "t2" THEN 4 ELSE 0, income |-> 1, fuel |-> 3, shortage |-> 2,
   recoveries |-> 1, billed |-> 60,
   net |-> 45 - advance - diesel + IF id = "t2" THEN 4 ELSE 0,
   flat |-> [k \in {"advance", "diesel"} |-> IF k = "advance" THEN advance ELSE diesel],
   rows |-> [k \in {"advance", "diesel"} |-> IF k = "diesel" THEN rows ELSE {}]]
Remitted(id, day, out, reversed, historical) ==
  [id |-> id, party |-> "s", date |-> day, amount |-> 9, out |-> out,
   is_reversed |-> reversed, is_deleted |-> FALSE, historical |-> historical]
Repaired == [id |-> "e", party |-> "s", date |-> 2, amount |-> 11, is_deleted |-> FALSE,
             is_reversed |-> FALSE, supplier_mode |-> "supplier_paid"]
MCBookSheets ==
  {{Journey("t1", 1, 5, 7, {})},
   {Journey("t1", 1, 5, 0, {}),
    Journey("t2", 2, 0, 7, {[id |-> "d", date |-> 3, amount |-> 7, deleted |-> FALSE]})}}
MCBookPayments ==
  {{}, {Remitted("p1", 1, TRUE, FALSE, FALSE), Remitted("p2", 3, FALSE, FALSE, FALSE)},
   {Remitted("p1", 1, TRUE, TRUE, FALSE), Remitted("p2", 3, TRUE, FALSE, TRUE)}}
MCBookExpenses == {{}, {Repaired}}

-----------------------------------------------------------------------------
(* Documents of customers, of a vendor and of two wallets.                 *)

Bill1(amount, day, historical, payments) ==
  [type |-> "invoice", id |-> "i1", party |-> "c1", amount |-> amount, date |-> day,
   historical |-> historical, offset |-> 0, payments |-> payments]
Receipt(id, amount, day) == [id |-> id, amount |-> amount, date |-> day, mode |-> "Cash"]
Bill2 == [type |-> "invoice", id |-> "i2", party |-> "c2", amount |-> 5, date |-> 7,
          historical |-> FALSE, offset |-> 0, payments |-> {Receipt("p3", 1, 15)}]
NoteOf(id, kind, status, day) ==
  [type |-> "credit_debit_note", id |-> id, invoice |-> IF id = "n1" THEN "i1" ELSE "i2",
   party |-> IF id = "n1" THEN "c1" ELSE "c2", kind |-> kind, amount |-> 1, date |-> day,
   status |-> status, historical |-> FALSE]
Haul(id, party, expense, invoiced, historical, receipts) ==
  [type |-> "trip", id |-> id, party |-> party, date |-> 6, freight |-> 9, halting |-> 2,
   excess |-> 1, shortage |-> 3, expense |-> expense, invoiced |-> invoiced,
   historical |-> historical, receipts |-> receipts]

MCCustomerDocs ==
  {Bill1(amount, day, historical, payments) :
     amount \in {0, 4}, day \in {5, 12}, historical \in BOOLEAN,
     payments \in {{}, {Receipt("p1", 1, 6), Receipt("p2", 2, 14)}}}
  \cup {NoteOf("n1", kind, status, 8) :
           kind \in {"credit", "debit"}, status \in {"issued", "draft"}}
  \cup {Bill2, NoteOf("n2", "debit", "issued", 15), NoteOf("n2", "credit", "cancelled", 6),
        Haul("t1", "c1", 4, TRUE, FALSE, {}), Haul("t2", "c2", 0, FALSE, TRUE, {}),
        Haul("t1", "c1", 4, FALSE, FALSE,
             {[id |-> "r", kind |-> "receipt", amount |-> 2, date |-> 7, mode |-> "Cash"]})}

VendorBill(id, amount, day, deleted) ==
  [type |-> "vendor_bill", id |-> id, party |-> "v", amount |-> amount, date |-> day,
   is_deleted |-> deleted, vehicle |-> "m1"]
VendorPayment(id, day, out, reversed, link) ==
  [type |-> "vendor_payment", id |-> id, party |-> "v", amount |-> 3, date |-> day, out |-> out,
   is_deleted |-> FALSE, is_reversed |-> reversed, mode |-> "Cash", link |-> link,
   historical |-> FALSE]
Twin(bill, amount, deleted) ==
  [type |-> "expense", id |-> "e", party |-> "v", amount |-> amount, date |-> 4,
   is_deleted |-> deleted, is_reversed |-> FALSE, historical |-> FALSE,
   supplier_mode |-> "none", source_type |-> "manual", bill |-> bill, order |-> "none",
   cash_now |-> FALSE]

MCPartyDocs ==
  {VendorBill("b1", 5, 1, FALSE), VendorBill("b1", 5, 1, TRUE), VendorBill("b2", 7, 3, FALSE),
   VendorPayment("p1", 3, TRUE, FALSE, "b1"), VendorPayment("p1", 3, TRUE, TRUE, "b1"),
   VendorPayment("p2", 5, FALSE, FALSE, "none"),
   Twin("b1", 5, FALSE), Twin("b1", 5, TRUE), Twin("b2", 7, FALSE), Twin("b2", 6, FALSE)}

Movement(type, id, wallet, amount, deleted) ==
  [type |-> type, id |-> id, wallet |-> wallet, to |-> "WALLET_FASTAG", mode |-> "Cash",
   increase |-> amount > 2, amount |-> amount, date |-> 2, is_deleted |-> deleted]
Imported(source, amount, mode, deleted, historical) ==
  [Twin("none", amount, deleted) EXCEPT !.id = source, !.source_type = source,
     !.supplier_mode = mode, !.historical = historical]

MCWalletDocs ==
  {Movement("wallet_recharge", "r", "WALLET_FUEL", 9, deleted) : deleted \in BOOLEAN}
  \cup {Movement("wallet_transfer", "t", wallet, 4, FALSE) :
           wallet \in {"WALLET_FUEL", "WALLET_FASTAG"}}
  \cup {Movement("wallet_adjustment", "a", "WALLET_FASTAG", amount, deleted) :
           amount \in {1, 3}, deleted \in BOOLEAN}
  \cup {Imported("fastag_import", 2, mode, deleted, FALSE) :
           mode \in {"none", "company_borne"}, deleted \in BOOLEAN}
  \cup {Imported("fleet_card_import", 5, "none", FALSE, historical) : historical \in BOOLEAN}

-----------------------------------------------------------------------------
(* A driver's salary over two months; notes of two customers, one of them  *)
(* registered or about to be; the receipts of two trips, one of which has  *)
(* lost its customer, and of a third that is yet to be created.            *)

MCDriverMonth == 1 .. 2

Draft(id, party, kind, day, gst, igst) ==
  [id |-> id, party |-> party, kind |-> kind, date |-> day, amount |-> 5, gst |-> gst,
   igst |-> igst, reason |-> id = "n1", fits |-> TRUE]
MCTaxRequest == {nothing}
MCTaxDraft == {Draft("n1", "c1", "credit", 2, TRUE, FALSE), Draft("n2", "c2", "debit", 1, FALSE, TRUE)}
MCTaxBill == {[id |-> "i2", party |-> "c9", date |-> 2, amount |-> 4]}
MCTaxTotal == [n \in {"n1", "n2"} |-> 9]
MCTaxState == [c \in {"c1", "c2"} |-> IF c = "c1" THEN "36" ELSE "none"]

MCReceiptFirst == [t \in {"t1", "t2"} |-> [company |-> "A", customer |-> t # "t2"]]
=============================================================================
