------------------------------ MODULE MCPayments ------------------------------
(***************************************************************************)
(* What the desks of the payments are given in the run.                    *)
(***************************************************************************)
EXTENDS Payments, TLC

MCSymmetric == Permutations(Request) \cup Permutations(Clerk)

-----------------------------------------------------------------------------
(* Two statements, one with a card and one with registrations, and a pump. *)

Line(ref, vehicle, day, amount, place) ==
  [ref |-> ref, vehicle |-> vehicle, date |-> day, amount |-> amount, place |-> place,
   error |-> FALSE]
MCImportManual == {[id |-> "m", vehicle |-> "v1"]}
MCImportRegistered ==
  [x \in {"reg1", "reg2", "card1", "v1"} |-> IF x = "reg1" THEN "v1" ELSE Nothing]
MCImportEntered ==
  {[kind |-> "trip", category |-> c, vehicle |-> "v2", date |-> 2, amount |-> 5,
    place |-> "p", canonical |-> FALSE] : c \in {"Diesel", "Toll"}}
MCImportStatement ==
  {[source |-> "fuel", rows |-> <<Line("none", "card1", 1, 5, "p"),
                                  Line("n2", "card1", 2, 6, "q")>>],
   [source |-> "toll", rows |-> <<Line("t1", "reg1", 2, 5, "p"),
                                  Line("t2", "reg2", 1, 5, "p")>>],
   [source |-> "quick", rows |-> <<Line("q1", "v1", 2, 5, "none")>>]}

-----------------------------------------------------------------------------
(* Masters of each kind, spelled in two ways.                              *)

Called(kind, tax, pan, spelling) ==
  [kind |-> kind, tax |-> tax, pan |-> pan, name |-> <<"a", spelling>>]
MCMasterTyped ==
  [kind \in Kinds |->
     CASE kind = "customer" -> {Called(kind, "g", "p", "a"), Called(kind, "none", "p", "A.")}
       [] kind = "supplier" -> {Called(kind, "g", "p", "A.")}
       [] kind = "vehicle"  -> {Called(kind, "none", "none", x) : x \in {"a", "A."}}]
MCMasterLegacy ==
  [kind \in Kinds |->
     CASE kind = "customer" -> {Called(kind, "none", "p", "a")}
       [] kind = "supplier" -> {Called(kind, "none", "p", x) : x \in {"a", "A."}}
       [] kind = "vehicle"  -> {Called(kind, "none", "none", "a")}]
=============================================================================
