-------------------------------- MODULE Office --------------------------------
(***************************************************************************)
(* The desks of the office: notes, trips, policies, the router to Node,    *)
(* the books of suppliers, customers, parties and wallets, the drivers'    *)
(* ledger, tax returns, lorry receipts, and the Reconciliation Center that *)
(* looks at the books.                                                     *)
(*                                                                         *)
(* A behaviour is at one of them: see OfficeDesks, which has the variables *)
(* and the desks of the notes, trips, router, drivers, receipts, returns.  *)
(***************************************************************************)
EXTENDS OfficeDesks

CONSTANTS
  PolicySheet, PolicyChoice, PolicyLimit, PolicyDay, PolicyCharge, PolicyCrowd,
  BookSupplier, BookOpening, BookRow, BookAmount, BookDay, BookSheets, BookPayments,
  BookExpenses,
  CustomerDocs, CustomerDays, PartyDocs, PartyDays, PartyOpening, WalletDocs, LastBookDay

(* What the desks do not use.                                              *)
rest6 == <<v6, v7, v8>>
rest5 == <<v5, rest6>>
rest4 == <<v4, rest5>>
rest3 == <<v3, rest4>>
Empty6 == v6 = {} /\ v7 = {} /\ v8 = {}
Empty5 == v5 = {} /\ Empty6
Empty4 == v4 = {} /\ Empty5
Empty3 == v3 = {} /\ Empty4

-----------------------------------------------------------------------------
C == INSTANCE Policies WITH
       Request <- Three, Trip <- Couple, Sheet <- PolicySheet, Policy <- PolicyChoice,
       Limit <- PolicyLimit, Day <- PolicyDay, Charge <- PolicyCharge,
       Crowd <- PolicyCrowd, Nothing <- nothing,
       customer <- v1, rule <- v2, trips <- v3, events <- v4, was <- v5

(* What is entered for a trip is a trip, of the days that are told apart;  *)
(* a policy, a limit and a charge are numbers; and what is not there is    *)
(* none of these, nor a request.                                           *)
ASSUME OfficePolicies ==
  /\ IsFiniteSet(Couple)
  /\ PolicyChoice \subseteq C!PolicyDoc /\ PolicySheet \subseteq C!TripDoc
  /\ PolicyLimit \cup PolicyCharge \subseteq Int
  /\ nothing \notin Int /\ nothing \notin Three
  /\ nothing \notin C!TripDoc /\ nothing \notin C!EventDoc

S == INSTANCE SupplierBooks WITH
       Request <- Two, Supplier <- BookSupplier, Opening <- BookOpening, Row <- BookRow,
       Amount <- BookAmount, Day <- BookDay, Nothing <- nothing, Sheets <- BookSheets,
       Payments <- BookPayments, Expenses <- BookExpenses,
       trips <- v1, payments <- v2, expenses <- v3, opening <- v4, given <- v5

-----------------------------------------------------------------------------
(* The books of customers, of vendors and of wallets: any documents of a   *)
(* catalogue.                                                              *)

P == INSTANCE PartyLedger
K == INSTANCE Reconciliation

Catalogue ==
  CASE desk = "customers" -> CustomerDocs
    [] desk = "parties"   -> PartyDocs
    [] desk = "wallets"   -> WalletDocs
Parties(docs) == {d.party : d \in docs}

(* A note refers to an invoice of its customer.                            *)
Sound(docs) ==
  \A n \in docs : n.type = "credit_debit_note" =>
    \E i \in docs : i.type = "invoice" /\ i.id = n.invoice

Save(d) == v1' = {x \in v1 : x.id # d.id} \cup {d}
Remove(d) == d \in v1 /\ v1' = v1 \ {d}

-----------------------------------------------------------------------------
Init ==
  \/ desk = "notes"     /\ N!Init /\ Empty5
  \/ desk = "trips"     /\ T!Init /\ Empty6
  \/ desk = "policies"  /\ C!Init /\ Empty6
  \/ desk = "router"    /\ R!Init /\ marred = {}
  \/ desk = "suppliers" /\ S!Init /\ Empty6
  \/ /\ desk \in {"customers", "parties", "wallets"}
     /\ pc = {} /\ hand = {} /\ marred = {} /\ v1 = {} /\ v2 = {} /\ Empty3
  \/ desk = "drivers"   /\ D!Init /\ Empty4
  \/ desk = "returns"   /\ G!Init /\ marred = {} /\ Empty6
  \/ desk = "receipts"  /\ Z!Init /\ Empty4

NotesDesk     == desk = "notes"     /\ N!Next /\ UNCHANGED <<desk, rest5>>
TripsDesk     == desk = "trips"     /\ T!Next /\ UNCHANGED <<desk, rest6>>
PoliciesDesk  == desk = "policies"  /\ C!Next /\ UNCHANGED <<desk, rest6>>
RouterDesk    == desk = "router"    /\ R!Next /\ UNCHANGED <<desk, marred>>
SuppliersDesk == desk = "suppliers" /\ S!Next /\ UNCHANGED <<desk, rest6>>
BooksDesk ==
  /\ desk \in {"customers", "parties", "wallets"}
  /\ \E d \in Catalogue : Save(d) \/ Remove(d)
  /\ Sound(v1')
  /\ UNCHANGED <<desk, pc, hand, marred, v2, rest3>>
DriversDesk   == desk = "drivers"   /\ D!Next /\ UNCHANGED <<desk, rest4>>
ReturnsDesk   == desk = "returns"   /\ G!Next /\ UNCHANGED <<desk, marred, rest6>>
ReceiptsDesk  == desk = "receipts"  /\ Z!Next /\ UNCHANGED <<desk, rest4>>

Next ==
  \/ NotesDesk \/ TripsDesk \/ PoliciesDesk \/ RouterDesk \/ SuppliersDesk \/ BooksDesk
  \/ DriversDesk \/ ReturnsDesk \/ ReceiptsDesk

Spec == Init /\ [][Next]_vars

-----------------------------------------------------------------------------
(* The properties of the modules, each at its desk.                        *)

(* No two notes share a number, no invoice is credited beyond its amount,  *)
(* none is deleted under a note, and the ledger shows what is issued - as  *)
(* long as what the module names as exceptions has not happened.           *)
NotesAgree == desk = "notes" => N!NotesAgree

(* Every line of a trip is charged once, the recovery is in the ledger of  *)
(* its driver, and the toll belongs to a trip, between requests that come  *)
(* one after the other.                                                    *)
TripsAgree == desk = "trips" => T!TripsAgree

(* A request that meets no other repairs its trip, whatever was wrong.     *)
SyncHeals == [][desk = "trips" => T!Healed]_vars

(* A change of policy does what its preview showed and is undone exactly.  *)
ChangesAgree == desk = "policies" => C!ChangesAgree

(* The figures of a trip are those of its snapshot, and the screens that   *)
(* repeat the arithmetic come to the same.                                 *)
FiguresAgree == desk = "policies" => C!FiguresAgree

(* The kill file stops what it should, whatever was looked up before.      *)
KillTakesEffect == [][desk = "router" => R!KillHeeded]_vars

(* The books that are computed in several ways come to one balance, and    *)
(* one period begins where the one before it ends: of a supplier, of the   *)
(* customers, of a vendor, of a driver.  The Reconciliation Center does    *)
(* not complain of what is right, and does of a document that was not      *)
(* projected.                                                              *)
LedgersAgree ==
  /\ desk = "suppliers" => S!SupplierBooksAgree
  /\ desk = "customers" =>
       /\ \A c \in Parties(CustomerDocs) : /\ K!ReceivablesAgree(v1, c)
                                           /\ \A d \in CustomerDays : K!LedgersMeet(v1, c, d)
       /\ K!DebtorsAgree(v1, Parties(CustomerDocs))
       /\ K!ProfitAddsUp(v1, 1, LastBookDay)
  /\ desk = "parties" =>
       \A v \in Parties(PartyDocs) :
         /\ \A d \in PartyDays : P!PeriodsMeet(v1, "vendor", v, PartyOpening, d)
         /\ P!PayableAgrees(v1, "vendor", v)
  /\ desk = "drivers" => D!DriverBooks
  /\ desk \in {"customers", "parties", "wallets"} =>
       K!NoFalseAlarm(v1) /\ \A d \in v1 : K!AlarmIsRaised(v1, K!Ledger(v1 \ {d}))

(* A note that a return has listed is in every later return of its month,  *)
(* and a return adds up to the register of the same moment.                *)
ReturnsAgree == desk = "returns" => G!ReturnsAgree

(* All receipts of a trip bear its number, no two trips share one, and an  *)
(* archive has or accounts for what was asked for.                         *)
ReceiptsAgree == desk = "receipts" => Z!ReceiptsAgree

(* What is settled stands: an issued note, the figures of an invoiced      *)
(* trip, the limit a driver answers for, the salary of a month that is     *)
(* over.                                                                   *)
SettledStands ==
  [][/\ desk = "notes" => N!Settled
     /\ desk = "policies" => C!InvoicedKept /\ C!RecoveryKept
     /\ desk = "drivers" => D!PastSalaryKept]_vars

=============================================================================
