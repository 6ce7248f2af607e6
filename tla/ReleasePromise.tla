--------------------------- MODULE ReleasePromise ---------------------------
(***************************************************************************)
(* What the provisioning service promises about the capacity of one lease: *)
(* it is given back only while nothing was delivered against it, or once   *)
(* what was delivered is proven gone; nothing is delivered against capacity*)
(* that was given back; and the storefront is told afterwards.  Only an    *)
(* operator's override, after which nothing is promised, gives capacity    *)
(* back without proof.                                                     *)
(*                                                                         *)
(* LeaseLifecycle implements this specification.                           *)
(***************************************************************************)
VARIABLES
  held,        \* whether the reservation holds its capacity
  workload,    \* "none", "possible" once a create was submitted, "gone"
  overridden,  \* whether an operator gave the capacity back
  told         \* whether the storefront acknowledged that it is free

vars == <<held, workload, overridden, told>>

Init ==
  /\ held = TRUE
  /\ workload = "none"
  /\ overridden = FALSE
  /\ told = FALSE

Deliver ==
  /\ workload = "none"
  /\ held \/ overridden
  /\ workload' = "possible"
  /\ UNCHANGED <<held, overridden, told>>

ProveGone ==
  /\ workload = "possible"
  /\ workload' = "gone"
  /\ UNCHANGED <<held, overridden, told>>

GiveBack ==
  /\ held
  /\ workload # "possible"
  /\ held' = FALSE
  /\ UNCHANGED <<workload, overridden, told>>

Override ==
  /\ held
  /\ held' = FALSE
  /\ overridden' = TRUE
  /\ UNCHANGED <<workload, told>>

Tell ==
  /\ ~held
  /\ told' = TRUE
  /\ UNCHANGED <<held, workload, overridden>>

Next == Deliver \/ ProveGone \/ GiveBack \/ Override \/ Tell

Spec == Init /\ [][Next]_vars

=============================================================================
