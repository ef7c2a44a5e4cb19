------------------------------- MODULE Payments -------------------------------
(***************************************************************************)
(* The desks where money is spent: driver payments, payments to vendors,   *)
(* mechanics and suppliers, adjustments of a wallet, expenses that stand   *)
(* for bills and work orders, imported expenses, and the masters of those  *)
(* who are paid.  They share no document, so a behaviour is at one desk,   *)
(* chosen at the beginning.                                                *)
(***************************************************************************)
EXTENDS Naturals, Sequences

CONSTANTS
  Request,  \* requests on payments, imports and masters
  Clerk,    \* requests on the wallet adjustments and on the expenses
  Stake,    \* amounts of the wallet adjustments
  Opening,
  Amount,
  Party,
  Nothing,
  LinkBill, LinkOrder, LinkExpense, LinkAmount,
  ImportVehicle, ImportManual, ImportRegistered, ImportEntered, ImportStatement,
  MasterTyped, MasterLegacy  \* of each kind

VARIABLES
  desk,                                               \* which of them
  dPayments, dAudits, dLegs, dOwed, dPc, dHand, dUndo, dMarred,
  pParty, pBill, pPayments, pCorrections, pLegs, pPc, pHand, pMarred,
  wAdjustments, wLegs, wPc, wHand, wMarred,
  lDocs, lLedger, lPc, lHand, lMarred,
  iExpenses, iMaps, iPc, iHand, iAnswer, iEdited, iMapMarred,
  mMasters, mLog, mBackfill, mPc, mHand, mMarred

dVars == <<dPayments, dAudits, dLegs, dOwed, dPc, dHand, dUndo, dMarred>>
pVars == <<pParty, pBill, pPayments, pCorrections, pLegs, pPc, pHand, pMarred>>
wVars == <<wAdjustments, wLegs, wPc, wHand, wMarred>>
lVars == <<lDocs, lLedger, lPc, lHand, lMarred>>
iVars == <<iExpenses, iMaps, iPc, iHand, iAnswer, iEdited, iMapMarred>>
mVars == <<mMasters, mLog, mBackfill, mPc, mHand, mMarred>>

D == INSTANCE DriverPayments WITH
       payments <- dPayments, audits <- dAudits, legs <- dLegs, owed <- dOwed,
       pc <- dPc, hand <- dHand, undo <- dUndo, marred <- dMarred
P == INSTANCE PartyPayments WITH
       party <- pParty, bill <- pBill, payments <- pPayments,
       corrections <- pCorrections, legs <- pLegs, pc <- pPc, hand <- pHand,
       marred <- pMarred
W == INSTANCE WalletAdjustments WITH
       Request <- Clerk, Amount <- Stake, adjustments <- wAdjustments, legs <- wLegs,
       pc <- wPc, hand <- wHand, marred <- wMarred
L == INSTANCE ExpenseLinks WITH
       Request <- Clerk, Bill <- LinkBill, Order <- LinkOrder, Expense <- LinkExpense,
       Amount <- LinkAmount, docs <- lDocs, ledger <- lLedger, pc <- lPc, hand <- lHand,
       marred <- lMarred

(* Bills, orders and expenses do not share their ids, none of which stands *)
(* for no link, and what is spent is something.                            *)
ASSUME LinkIds ==
  /\ LinkBill \cap LinkOrder = {} /\ LinkExpense \cap (LinkBill \cup LinkOrder) = {}
  /\ "none" \notin LinkBill \cup LinkOrder
  /\ LinkAmount \subseteq Nat \ {0}

I == INSTANCE Imports WITH
       Vehicle <- ImportVehicle, Manual <- ImportManual, Registered <- ImportRegistered,
       Entered <- ImportEntered, Statement <- ImportStatement,
       expenses <- iExpenses, maps <- iMaps, pc <- iPc, hand <- iHand, answer <- iAnswer,
       edited <- iEdited, mapMarred <- iMapMarred

(* A statement is of one of the kinds and has rows.                        *)
ASSUME ImportStatements ==
  \A s \in ImportStatement :
    /\ s.source \in I!Source
    /\ DOMAIN s.rows = 1 .. Len(s.rows) /\ Len(s.rows) \in Nat \ {0}

M(kind) == INSTANCE Masters WITH
       Typed <- MasterTyped[kind], Legacy <- MasterLegacy[kind],
       masters <- mMasters, log <- mLog, backfill <- mBackfill, pc <- mPc, hand <- mHand,
       marred <- mMarred

(* The Reconciliation Center looks at the books of the expenses.           *)
K == INSTANCE Reconciliation

(* What is not there is no row, no amount and no document, and the payment *)
(* or adjustment that there is from the beginning is of no request.        *)
ASSUME NoDocument ==
  /\ Nothing \notin Request \cup Clerk \cup {Opening} \cup Amount
  /\ Nothing \notin D!Payment \cup D!Audit
  /\ Nothing \notin P!Payment \cup P!Correction
  /\ Nothing \notin W!Effect \cup W!Adjustment
  /\ Opening \notin Request \cup Clerk

Kinds == {"customer", "supplier", "vehicle"}

(* A vehicle has no tax numbers and is told by its number.                 *)
ASSUME MasterForms ==
  /\ "legacy" \notin Request
  /\ \A kind \in Kinds :
       /\ \A f \in MasterTyped[kind] \cup MasterLegacy[kind] : f.kind \in Kinds
       /\ \A f, g \in MasterTyped[kind] : f.kind = "vehicle" /\ g.kind = "vehicle" =>
            f.tax = "none" /\ f.pan = "none" /\ (f.name = g.name => f = g)

(* A desk that is closed holds nothing.                                    *)
DClosed ==
  /\ dPayments = {} /\ dAudits = {} /\ dLegs = {} /\ dOwed = {}
  /\ dPc = {} /\ dHand = {} /\ dUndo = {} /\ dMarred = {}
PClosed ==
  /\ pParty = {} /\ pBill = {} /\ pPayments = {} /\ pCorrections = {}
  /\ pLegs = {} /\ pPc = {} /\ pHand = {} /\ pMarred = {}
WClosed ==
  wAdjustments = {} /\ wLegs = {} /\ wPc = {} /\ wHand = {} /\ wMarred = {}

LClosed == lDocs = {} /\ lLedger = {} /\ lPc = {} /\ lHand = {} /\ lMarred = {}
IClosed ==
  /\ iExpenses = {} /\ iMaps = {} /\ iPc = {} /\ iHand = {} /\ iAnswer = {} /\ iEdited = {}
  /\ iMapMarred = {}
MClosed ==
  mMasters = {} /\ mLog = {} /\ mBackfill = {} /\ mPc = {} /\ mHand = {} /\ mMarred = {}

Init ==
  \/ desk = "driver"  /\ D!Init /\ PClosed /\ WClosed /\ LClosed /\ IClosed /\ MClosed
  \/ desk = "party"   /\ P!Init /\ DClosed /\ WClosed /\ LClosed /\ IClosed /\ MClosed
  \/ desk = "wallet"  /\ W!Init /\ DClosed /\ PClosed /\ LClosed /\ IClosed /\ MClosed
  \/ desk = "links"   /\ L!Init /\ DClosed /\ PClosed /\ WClosed /\ IClosed /\ MClosed
  \/ desk = "imports" /\ I!Init /\ DClosed /\ PClosed /\ WClosed /\ LClosed /\ MClosed
  \/ /\ \E kind \in Kinds : desk = kind /\ M(kind)!Init
     /\ DClosed /\ PClosed /\ WClosed /\ LClosed /\ IClosed

DriverDesk == desk = "driver" /\ D!Next /\ UNCHANGED <<desk, pVars, wVars, lVars, iVars, mVars>>
PartyDesk  == desk = "party"  /\ P!Next /\ UNCHANGED <<desk, dVars, wVars, lVars, iVars, mVars>>
WalletDesk == desk = "wallet" /\ W!Next /\ UNCHANGED <<desk, dVars, pVars, lVars, iVars, mVars>>
LinksDesk  == desk = "links"  /\ L!Next /\ UNCHANGED <<desk, dVars, pVars, wVars, iVars, mVars>>
ImportsDesk ==
  desk = "imports" /\ I!Next /\ UNCHANGED <<desk, dVars, pVars, wVars, lVars, mVars>>
MastersDesk ==
  \E kind \in Kinds :
    desk = kind /\ M(kind)!Next /\ UNCHANGED <<desk, dVars, pVars, wVars, lVars, iVars>>

Next ==
  DriverDesk \/ PartyDesk \/ WalletDesk \/ LinksDesk \/ ImportsDesk \/ MastersDesk

vars == <<desk, dVars, pVars, wVars, lVars, iVars, mVars>>

Spec == Init /\ [][Next]_vars

-----------------------------------------------------------------------------
(* The properties of the modules, each where it is about something.  *)

(* The values that each desk holds have their types.                       *)
TypeOK ==
  /\ desk \in {"driver", "party", "wallet", "links", "imports"} \cup Kinds
  /\ desk = "driver" => D!TypeOK
  /\ desk = "party" => P!TypeOK
  /\ desk = "wallet" => W!TypeOK

(* A correction of a driver payment's amount takes place altogether or not *)
(* at all, as long as requests come one after the other.                   *)
AllOrNothing == desk = "driver" => D!AllOrNothing

(* Whatever overlaps, a driver payment is not lost without a death.        *)
NeverLost == desk = "driver" => D!NeverLost

(* The corrections of a supplier's payment tell how it came to be what it  *)
(* is, as long as requests come one after the other.                       *)
TrailMatches == desk = "party" => P!TrailMatches

(* The ledger shows every party payment as it is when nobody is at work.   *)
LedgerFollows == desk = "party" => P!LedgerFollows

(* A reversal and what it reverses cancel out.                             *)
NetsZero == desk = "wallet" => W!NetsZero

(* However requests overlap, the ledger is the projection of expenses,     *)
(* bills and orders as they are; while it is not, the Reconciliation       *)
(* Center names what lacks its legs or has legs too many, and when it is,  *)
(* the Center does not complain.                                           *)
ExpensesAgree ==
  desk = "links" =>
    /\ L!ExpensesAgree
    /\ K!AlarmIsRaised(lDocs, lLedger)
    /\ lLedger = K!Ledger(lDocs) => K!NoFalseAlarm(lDocs)

(* A statement that is sent again, by others, or after a crash, is         *)
(* imported once, and the answers to it are true; no party or vehicle is   *)
(* entered twice, however it is spelled, and the log of a vehicle says     *)
(* whether it is in service.                                               *)
ImportsAgree ==
  /\ desk = "imports" => I!ImportsAgree
  /\ \A kind \in Kinds : desk = kind => M(kind)!MastersAgree

(* A reversal is final: of a wallet adjustment it is never changed,        *)
(* deleted or reversed, and a supplier's payment stays reversed.           *)
ReversalIsFinal ==
  [][/\ desk = "wallet" => W!Final
     /\ desk = "party" => P!Frozen({"supplier"})]_vars

=============================================================================
