----------------------- MODULE MCSettlementServicing -----------------------
(* Instances of SettlementServicing for TLC: a timer loop t, a request q   *)
(* that services at once, the seller's own requests m.                     *)
EXTENDS SettlementServicing

CONSTANTS t, q, m, w, wm

Passes == {"status", "fulfill", "check", "collect", "cleanup"}

\* A bare-metal storefront's timer and its start-up adoption.
TimerCallers == {t, m}
TimerWorkers == [c \in TimerCallers |-> IF c = t THEN w ELSE wm]
TimerDuties == [c \in TimerCallers |-> IF c = t THEN Passes ELSE {"materialize"}]

\* The same storefront while a settle request services the obligation: both
\* passes present the storefront's one worker id.
PokedCallers == {t, q, m}
PokedWorkers == [c \in PokedCallers |-> IF c = m THEN wm ELSE w]
PokedDuties == [c \in PokedCallers |-> IF c = m THEN {"materialize"} ELSE Passes]

\* A VM storefront: the seller's requests adopt the escrow, bind the delivery
\* and claim it by hand.
VmDuties ==
  [c \in TimerCallers |-> IF c = t THEN Passes ELSE {"materialize", "bind", "check", "collect"}]

AlkahestReports == {"ready", "expired", "failed", "manual_required"}
AlkahestDecisions == {"pending", "ready", "manual_required"}
=============================================================================
