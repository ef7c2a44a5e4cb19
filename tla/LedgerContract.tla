-------------------------- MODULE LedgerContract --------------------------
(***************************************************************************)
(* What the fin_txn projection promises about ONE source document,         *)
(* whatever the processes that maintain it do: fin_txn is a rebuildable    *)
(* view of the document.  The view may be wrong only while somebody owes   *)
(* it a repair, and a debt is paid off only in a state where the view is   *)
(* exactly the projection of the document.                                 *)
(*                                                                         *)
(* FinProjection implements this specification (FinProjection!Contract).   *)
(***************************************************************************)
CONSTANTS
  Doc,      \* contents of the source document
  View,     \* [Doc -> Ledger]: what a content projects to
  Ledger,   \* every ledger content, right or wrong
  Reason    \* why a repair may be owed

VARIABLES
  doc,      \* the authoritative document
  ledger,   \* what the ledger holds for it
  debt      \* the reasons a repair is owed

vars == <<doc, ledger, debt>>

Init ==
  /\ doc \in Doc
  /\ ledger = View[doc]
  /\ debt = {}

(* The document is rewritten; from then on its projection is owed.         *)
Write ==
  /\ doc' \in Doc
  /\ debt' \in (SUBSET Reason) \ {{}}
  /\ UNCHANGED ledger

(* A repair is taken on although the document did not change.              *)
Undertake ==
  /\ debt = {}
  /\ debt' \in (SUBSET Reason) \ {{}}
  /\ UNCHANGED <<doc, ledger>>

(* While a repair is owed the ledger may pass through any content.         *)
Repair ==
  /\ debt # {}
  /\ debt' \in (SUBSET Reason) \ {{}}
  /\ ledger' \in Ledger
  /\ UNCHANGED doc

(* The last debt is paid off: the ledger shows the document.               *)
Settle ==
  /\ debt # {}
  /\ debt' = {}
  /\ ledger' = View[doc]
  /\ UNCHANGED doc

Next == Write \/ Undertake \/ Repair \/ Settle

Spec == Init /\ [][Next]_vars
=============================================================================
