-------------------------- MODULE SettlementPromise --------------------------
(***************************************************************************)
(* What the settlement runtime promises the two parties about the money of *)
(* one obligation: it moves once, to the claimant only for a delivery that *)
(* was bound and checked, or back to the payer; and the journal's book     *)
(* shows the move only after it happened, and then for good.               *)
(*                                                                         *)
(* SettlementJournal implements this specification with a mechanism that   *)
(* leaves it to the journal to record collections and reclaims.            *)
(***************************************************************************)
VARIABLES
  delivery,  \* "none", "bound" once it has a reference, "checked"
  money,     \* "held", "paid" to the claimant, "refunded" to the payer
  book       \* "open", or what the journal records: "paid" or "refunded"

vars == <<delivery, money, book>>

Init ==
  /\ delivery = "none"
  /\ money = "held"
  /\ book = "open"

BindDelivery ==
  /\ delivery = "none"
  /\ delivery' = "bound"
  /\ UNCHANGED <<money, book>>

CheckDelivery ==
  /\ delivery = "bound"
  /\ delivery' = "checked"
  /\ UNCHANGED <<money, book>>

Pay ==
  /\ money = "held"
  /\ delivery = "checked"
  /\ money' = "paid"
  /\ UNCHANGED <<delivery, book>>

Refund ==
  /\ money = "held"
  /\ money' = "refunded"
  /\ UNCHANGED <<delivery, book>>

Record ==
  /\ book = "open"
  /\ money # "held"
  /\ book' = money
  /\ UNCHANGED <<delivery, money>>

Next == BindDelivery \/ CheckDelivery \/ Pay \/ Refund \/ Record

Spec == Init /\ [][Next]_vars

=============================================================================
