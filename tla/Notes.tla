-------------------------------- MODULE Notes --------------------------------
(***************************************************************************)
(* Credit and debit notes on ONE invoice: routers/notes.py, the numbering  *)
(* of notes in services.py, the deletion of the invoice in                 *)
(* routers/invoices.py and the saving of the settings in                   *)
(* routers/companies.py, which hold the counters.                          *)
(*                                                                         *)
(* A note is a draft when the company asks for an approval and is issued   *)
(* at once otherwise.  The credit of all notes is compared with the        *)
(* invoice when a credit note is created and at no other time.             *)
(*                                                                         *)
(* A request does one operation; a note has the id of the request that     *)
(* creates it.  Dates, tax and rounding of a note are left out: an amount  *)
(* is what the note adds or takes away.  The hook is one step here.        *)
(***************************************************************************)
EXTENDS Naturals, FiniteSets, Functions

CONSTANTS
  Request,  \* requests, each of which runs at most once
  Amount,   \* amounts of a note, none of them zero
  Total,    \* the amount of the invoice
  Nothing   \* no document, no number

Kind == {"credit", "debit"}
Seq == Nat

VARIABLES
  company,  \* the counter of each kind, and require_cdn_approval
  invoice,  \* "live" or "deleted"
  notes,    \* db.credit_debit_notes
  legs,     \* what fin_txn shows of each note
  pc,       \* where each request is
  hand,     \* what it has read and been asked for
  marred    \* history: what has happened besides one request after the other

vars == <<company, invoice, notes, legs, pc, hand, marred>>

-----------------------------------------------------------------------------
(* Data.                                                                   *)

Company == [next : [Kind -> Seq], approval : BOOLEAN]

(* A number: the series whose prefix it bears, and its sequence.           *)
Number == Kind \X Seq

Note ==
  [kind : Kind, amount : Amount, status : {"draft", "issued", "cancelled"},
   number : Number \cup {Nothing}]

Exists(n) == notes[n] # Nothing
Having(status) == {n \in Request : Exists(n) /\ notes[n].status = status}
Active == Having("draft") \cup Having("issued")

(* _effective_invoice_totals: the issued notes of one kind.                *)
Sum(kind) ==
  LET of == {n \in Having("issued") : notes[n].kind = kind}
  IN  SumFunction([n \in of |-> notes[n].amount])

(* project_credit_debit_note: only an issued note has legs.                *)
View(n) ==
  IF n \in Having("issued") THEN <<notes[n].kind, notes[n].amount>> ELSE Nothing

Blank == [note |-> Nothing, doc |-> Nothing, series |-> Nothing, settings |-> Nothing]

Busy == {r \in Request : pc[r] \notin {"new", "done"}}

Init ==
  /\ company \in [next : [Kind -> {1}], approval : BOOLEAN]
  /\ invoice = "live"
  /\ notes = [n \in Request |-> Nothing]
  /\ legs = [n \in Request |-> Nothing]
  /\ pc = [r \in Request |-> "new"]
  /\ hand = [r \in Request |-> Blank]
  /\ marred = {}

-----------------------------------------------------------------------------
(* Requests.                                                               *)

Mark(what) == marred' = marred \cup what

Begin(r, at, what) ==
  /\ pc[r] = "new"
  /\ pc' = [pc EXCEPT ![r] = at]
  /\ hand' = [hand EXCEPT ![r] = what]
  /\ Mark(IF Busy = {} THEN {} ELSE {"overlap"})
  /\ UNCHANGED <<company, invoice, notes, legs>>

(* A request goes on with what it holds, or ends and forgets it.           *)
Goto(r, from, to, what) ==
  /\ pc[r] = from
  /\ pc' = [pc EXCEPT ![r] = to]
  /\ hand' = [hand EXCEPT ![r] = IF to = "done" THEN Blank ELSE what]

Read(r, from, to, what) ==
  /\ Goto(r, from, to, what)
  /\ UNCHANGED <<company, invoice, notes, legs, marred>>

Write(r, from, to, n, doc) ==
  /\ Goto(r, from, to, [hand[r] EXCEPT !.note = n])
  /\ notes' = [notes EXCEPT ![n] = doc]
  /\ UNCHANGED <<company, invoice, legs>>

(* A mutant: the number is read and counted up by two calls.               *)
TakeNumberRead(r, series, to) ==
  Read(r, "number", to, [hand[r] EXCEPT !.doc.number = <<series, company.next[series]>>])

(* _next_credit_note_number_for_company and its twin: one $inc that        *)
(* returns the count from before.                                          *)
TakeNumber(r, series, to) ==
  /\ Goto(r, "number", to,
          [hand[r] EXCEPT !.doc.number = <<series, company.next[series]>>])
  /\ company' = [company EXCEPT !.next[series] = @ + 1]
  /\ UNCHANGED <<invoice, notes, legs, marred>>

(* hook_after_source_write on the note.                                    *)
Hook(r) ==
  /\ pc[r] = "hook"
  /\ Goto(r, "hook", "done", Blank)
  /\ legs' = [legs EXCEPT ![hand[r].note] = View(hand[r].note)]
  /\ UNCHANGED <<company, invoice, notes, marred>>

(* The process dies, or a call of the database raises: nothing is undone.  *)
Die(r) ==
  /\ r \in Busy
  /\ pc' = [pc EXCEPT ![r] = "done"]
  /\ hand' = [hand EXCEPT ![r] = Blank]
  /\ Mark({"death"})
  /\ UNCHANGED <<company, invoice, notes, legs>>

-----------------------------------------------------------------------------
(* create_credit_note and create_debit_note.                               *)

CreateFind(r, kind, a) ==
  /\ invoice = "live"
  /\ Begin(r, IF kind = "credit" THEN "guard" ELSE "flag",
           [Blank EXCEPT !.doc = [kind |-> kind, amount |-> a, status |-> "issued",
                                  number |-> Nothing]])

(* The over-credit guard sums the notes that are issued now.               *)
OverCredit(a) == Sum("credit") + a > Total + Sum("debit")

CreateGuard(r) ==
  /\ pc[r] = "guard"
  /\ Read(r, "guard", IF OverCredit(hand[r].doc.amount) THEN "done" ELSE "flag", hand[r])

CreateFlag(r) ==
  \/ /\ ~company.approval
     /\ Read(r, "flag", "number", hand[r])
  \/ /\ company.approval
     /\ Read(r, "flag", "insert", [hand[r] EXCEPT !.doc.status = "draft"])

CreateNumber(r) ==
  /\ pc[r] = "number" /\ hand[r].note = Nothing
  /\ TakeNumber(r, hand[r].doc.kind, "insert")

CreateInsert(r) ==
  /\ pc[r] = "insert"
  /\ Write(r, "insert", "hook", r, hand[r].doc)
  /\ Mark(IF hand[r].doc.status = "draft" THEN {"draft"} ELSE {})

-----------------------------------------------------------------------------
(* issue_credit_note and issue_debit_note.  The former looks for a note of *)
(* either kind, and numbers it as a credit note.                           *)

Answers(series, n) == Exists(n) /\ (series = "debit" => notes[n].kind = "debit")

IssueFind(r, n, series) ==
  /\ Answers(series, n)
  /\ notes[n].status = "draft"
  /\ Begin(r, "number", [Blank EXCEPT !.note = n, !.doc = notes[n], !.series = series])

IssueNumber(r) ==
  /\ pc[r] = "number" /\ hand[r].note # Nothing
  /\ TakeNumber(r, hand[r].series, "issue")

(* A mutant: the write of an issue does not ask for a draft again.         *)
IssueWriteAny(r) ==
  LET n == hand[r].note
  IN  /\ pc[r] = "issue"
      /\ Write(r, "issue", "hook", n,
               [notes[n] EXCEPT !.status = "issued", !.number = hand[r].doc.number])
      /\ UNCHANGED marred

IssueWrite(r) ==
  LET n == hand[r].note
  IN  /\ pc[r] = "issue"
      /\ \/ /\ notes[n].status = "draft"
            /\ Write(r, "issue", "hook", n,
                     [notes[n] EXCEPT !.status = "issued", !.number = hand[r].doc.number])
            /\ UNCHANGED marred
         \/ /\ notes[n].status # "draft"
            /\ Read(r, "issue", "done", Blank)

-----------------------------------------------------------------------------
(* cancel_credit_note and cancel_debit_note.                               *)

CancelFind(r, n, series) ==
  /\ Answers(series, n)
  /\ notes[n].status # "cancelled"
  /\ Begin(r, "cancel", [Blank EXCEPT !.note = n])

CancelWrite(r) ==
  LET n == hand[r].note
  IN  /\ pc[r] = "cancel"
      /\ Write(r, "cancel", "hook", n, [notes[n] EXCEPT !.status = "cancelled"])
      /\ Mark(IF notes[n].kind = "debit" THEN {"debit cancelled"} ELSE {})

-----------------------------------------------------------------------------
(* update_credit_note and update_debit_note: no guard on the new amount.   *)

EditFind(r, n, series, a) ==
  /\ Answers(series, n)
  /\ notes[n].status = "draft"
  /\ Begin(r, "edit invoice", [Blank EXCEPT !.note = n, !.doc = [notes[n] EXCEPT !.amount = a]])

EditInvoice(r) ==
  Read(r, "edit invoice", IF invoice = "live" THEN "edit" ELSE "done", hand[r])

EditWrite(r) ==
  LET n == hand[r].note
  IN  /\ pc[r] = "edit"
      /\ \/ /\ notes[n].status = "draft"
            /\ Write(r, "edit", "hook", n, [notes[n] EXCEPT !.amount = hand[r].doc.amount])
            /\ UNCHANGED marred
         \/ /\ notes[n].status # "draft"
            /\ Read(r, "edit", "hook", hand[r])

-----------------------------------------------------------------------------
(* delete_invoice, and PUT /company, which writes back a company that was  *)
(* read before, the counters included.                                     *)

InvoiceCount(r) ==
  /\ invoice = "live"
  /\ Active = {}
  /\ Begin(r, "delete invoice", Blank)

InvoiceDelete(r) ==
  /\ Goto(r, "delete invoice", "done", Blank)
  /\ invoice' = "deleted"
  /\ UNCHANGED <<company, notes, legs, marred>>

SettingsRead(r, approval) ==
  Begin(r, "save", [Blank EXCEPT !.settings = [company EXCEPT !.approval = approval]])

SettingsWrite(r) ==
  LET lost == {k \in Kind : hand[r].settings.next[k] < company.next[k]}
  IN  /\ pc[r] = "save"
      /\ Goto(r, "save", "done", Blank)
      /\ company' = hand[r].settings
      /\ Mark(IF lost = {} THEN {} ELSE {"rolled back"})
      /\ UNCHANGED <<invoice, notes, legs>>

-----------------------------------------------------------------------------
Start(r) ==
  \/ \E kind \in Kind, a \in Amount : CreateFind(r, kind, a)
  \/ \E n \in Request, series \in Kind :
       \/ IssueFind(r, n, series)
       \/ CancelFind(r, n, series)
       \/ \E a \in Amount : EditFind(r, n, series, a)
  \/ InvoiceCount(r)
  \/ \E approval \in BOOLEAN : SettingsRead(r, approval)

Step(r) ==
  \/ CreateGuard(r) \/ CreateFlag(r) \/ CreateNumber(r) \/ CreateInsert(r)
  \/ IssueNumber(r) \/ IssueWrite(r) \/ CancelWrite(r)
  \/ EditInvoice(r) \/ EditWrite(r)
  \/ InvoiceDelete(r) \/ SettingsWrite(r) \/ Hook(r)

Next == \E r \in Request : Start(r) \/ Step(r) \/ Die(r)

Spec == Init /\ [][Next]_vars

-----------------------------------------------------------------------------
Hand ==
  [note : Request \cup {Nothing}, doc : Note \cup {Nothing},
   series : Kind \cup {Nothing}, settings : Company \cup {Nothing}]

TypeOK ==
  /\ company \in Company
  /\ invoice \in {"live", "deleted"}
  /\ notes \in [Request -> Note \cup {Nothing}]
  /\ legs \in [Request -> (Kind \X Amount) \cup {Nothing}]
  /\ hand \in [Request -> Hand]
  /\ marred \subseteq {"overlap", "death", "draft", "debit cancelled", "rolled back"}

(* "Uses $inc so two concurrent issues cannot collide" and "Cancelled      *)
(* notes never re-use a sequence": however requests overlap and die, no    *)
(* two notes have one number, unless the settings put a counter back.      *)
NumbersUnique ==
  "rolled back" \notin marred =>
    \A n, m \in Request :
      Exists(n) /\ Exists(m) /\ n # m /\ notes[n].number # Nothing
        => notes[n].number # notes[m].number

(* A note that is issued keeps its number and its amount for ever, and a   *)
(* cancelled note is touched by no request, whatever that had read before. *)
Settled ==
  \A n \in Request : Exists(n) =>
    /\ notes[n].status = "issued" =>
         notes'[n] \in {notes[n], [notes[n] EXCEPT !.status = "cancelled"]}
    /\ notes[n].status = "cancelled" => notes'[n] = notes[n]

IssuedIsFixed == [][Settled]_vars

(* The guard keeps the credit within the invoice as long as requests come  *)
(* one after the other, notes are issued as they are created, and no debit *)
(* note is cancelled; each exception lets an invoice become negative.      *)
NeverOverCredited ==
  marred \cap {"overlap", "draft", "debit cancelled"} = {} =>
    Sum("credit") <= Total + Sum("debit")

(* "Block deletion while any non-cancelled CN/DN references this invoice": *)
(* so it is as long as requests come one after the other.                  *)
NotesHaveInvoice ==
  "overlap" \notin marred /\ invoice = "deleted" => Active = {}

(* When nobody is at work and nobody has died, the ledger shows the notes  *)
(* that are issued and no others.                                          *)
LedgerShowsIssued ==
  Busy = {} /\ "death" \notin marred =>
    \A n \in Request :
      legs[n] = IF Exists(n) /\ notes[n].status = "issued"
                THEN <<notes[n].kind, notes[n].amount>> ELSE Nothing

(* What holds of the notes, the invoice, the counters and the ledger at    *)
(* once: numbers, credit, deletion and projection.                         *)
NotesAgree == NumbersUnique /\ NeverOverCredited /\ NotesHaveInvoice /\ LedgerShowsIssued
=============================================================================
