---------------------------- MODULE MCCreditDeal ----------------------------
(* An instance of CreditDeal for TLC. *)
EXTENDS CreditDeal

=============================================================================
