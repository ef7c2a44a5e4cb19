------------------------------ MODULE OfficeDesks ------------------------------
(***************************************************************************)
(* The variables of the office, and the desks of the notes, of the trips,  *)
(* of the router to Node, of the drivers' ledger, of the lorry receipts    *)
(* and of the tax returns; Office has the others.                          *)
(*                                                                         *)
(* The desks share no document, so a behaviour is at one desk, chosen at   *)
(* the beginning.  v1, v2, ... are the variables of the module of that     *)
(* desk in the order in which it declares them, pc, hand and marred are    *)
(* its variables of those names, and what it does not use is empty.        *)
(***************************************************************************)
EXTENDS Integers, FiniteSets

CONSTANTS
  Three, Two, Couple, nothing,  \* requests, requests, trips, and no document
  NoteAmount, NoteTotal,
  TripDriver, TripAmount, TripSheet,
  Routes, RouterConfig, RouterBucket, RouterTtl, RouterThreshold, RouterCooldown,
  RouterHorizon,
  DriverMonth, DriverSalary, DriverPaid, DriverStart, DriverManual,
  ReceiptTrip, ReceiptCompany, ReceiptFirst, ReceiptTyped, ReceiptLimit,
  TaxRequest, TaxCustomer, TaxLarge, TaxHorizon, TaxDraft, TaxBill, TaxTotal, TaxState

VARIABLES desk, pc, hand, marred, v1, v2, v3, v4, v5, v6, v7, v8

vars == <<desk, pc, hand, marred, v1, v2, v3, v4, v5, v6, v7, v8>>

-----------------------------------------------------------------------------
N == INSTANCE Notes WITH
       Request <- Three, Amount <- NoteAmount, Total <- NoteTotal, Nothing <- nothing,
       company <- v1, invoice <- v2, notes <- v3, legs <- v4

(* What is not there is no request, no document and no number.  A note has *)
(* an amount, and what is counted comes to an end.                         *)
ASSUME OfficeNotes ==
  /\ IsFiniteSet(Three) /\ nothing \notin Three
  /\ NoteAmount \subseteq Nat /\ NoteTotal \in Nat
  /\ nothing \notin N!Note \cup N!Number \cup N!Company \cup (N!Kind \X NoteAmount)

T == INSTANCE Trips WITH
       Request <- Two, Trip <- Couple, Driver <- TripDriver, Amount <- TripAmount,
       Sheet <- TripSheet, Nothing <- nothing,
       trips <- v1, expenses <- v2, fastag <- v3, entries <- v4, met <- v5

(* A line or a recovery may come to nothing; a sheet has a line of each    *)
(* kind, a driver and a recovery; and what is not there is none of these.  *)
ASSUME OfficeTrips ==
  /\ TripAmount \subseteq Nat /\ 0 \in TripAmount
  /\ TripSheet \subseteq
       [lines : [T!Line -> TripAmount], driver : TripDriver, recovery : TripAmount]
  /\ nothing \notin Couple \cup T!TripDoc \cup T!ExpenseDoc \cup T!EntryDoc

R == INSTANCE NodeRouter WITH
       Request <- Three, Route <- Routes, Config <- RouterConfig, Bucket <- RouterBucket,
       Ttl <- RouterTtl, Threshold <- RouterThreshold, Cooldown <- RouterCooldown,
       Horizon <- RouterHorizon,
       config <- v1, now <- v2, killFile <- v3, since <- v4, seen <- v5, seenAt <- v6,
       failures <- v7, openUntil <- v8, route <- hand

(* What is looked up is remembered for some time, or for none.             *)
ASSUME OfficeRouter == RouterTtl \in Nat

D == INSTANCE DriverLedger WITH
       Request <- Three, Month <- DriverMonth, Salary <- DriverSalary, Paid <- DriverPaid,
       Start <- DriverStart, Manual <- DriverManual, Nothing <- nothing,
       masters <- v1, entries <- v2, died <- v3

(* Months are counted from one, what is paid is an amount, and no entry by *)
(* hand has the id of one that is posted.                                  *)
ASSUME OfficeDrivers ==
  /\ IsFiniteSet(DriverMonth) /\ DriverMonth = 1 .. Cardinality(DriverMonth)
  /\ DriverStart \subseteq D!Day /\ DriverSalary \cup DriverPaid \subseteq Nat
  /\ nothing \notin Three /\ DriverManual \cap (Three \cup {nothing}) = {}

Z == INSTANCE LorryReceipts WITH
       Request <- Two, Trip <- ReceiptTrip, Company <- ReceiptCompany, First <- ReceiptFirst,
       Typed <- ReceiptTyped, Limit <- ReceiptLimit,
       trips <- v1, counter <- v2, papers <- v3, stale <- marred

(* Somebody types numbers, and the trips there are at first belong to      *)
(* companies of the account.                                               *)
ASSUME OfficeReceipts ==
  /\ ReceiptTyped \subseteq Nat
  /\ \A t \in DOMAIN ReceiptFirst :
       ReceiptFirst[t] \in [company : ReceiptCompany, customer : BOOLEAN]

G == INSTANCE TaxReturns WITH
       Request <- TaxRequest, Customers <- TaxCustomer, Large <- TaxLarge,
       Horizon <- TaxHorizon, Drafts <- TaxDraft, Bills <- TaxBill, Total <- TaxTotal,
       State <- TaxState,
       today <- v1, notes <- v2, invoices <- v3, registered <- v4, filed <- v5

(* Notes and bills are finitely many and have amounts; a note has an id, a *)
(* kind and a customer, who like all that may be registered is known.      *)
ASSUME OfficeReturns ==
  /\ TaxHorizon \in Nat /\ IsFiniteSet(TaxDraft) /\ IsFiniteSet(TaxBill)
  /\ \A n \in TaxDraft :
       /\ n.id # "none" /\ n.party \in DOMAIN TaxState /\ n.kind \in {"credit", "debit"}
       /\ n.date \in Nat /\ n.amount \in Int
       /\ {n.gst, n.igst, n.reason, n.fits} \subseteq BOOLEAN
  /\ \A i \in TaxBill : i.date \in Nat /\ i.amount \in Int
  /\ TaxCustomer \subseteq DOMAIN TaxState

=============================================================================
