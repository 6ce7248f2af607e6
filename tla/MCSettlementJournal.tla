------------------------ MODULE MCSettlementJournal ------------------------
(* Instances of SettlementJournal for TLC.                                 *)
EXTENDS SettlementJournal

CONSTANTS s, p, ws, wp

\* The claimant's servicing worker against a payer that reclaims.
PayerCallers == {s, p}
PayerWorkers == [c \in PayerCallers |-> IF c = p THEN wp ELSE ws]

Servicing == {"materialize", "status", "fulfill", "check", "collect", "cleanup"}

PayerDuties ==
  [c \in PayerCallers |-> IF c = p THEN {"reclaim", "materialize"} ELSE Servicing]

PortDuties ==
  [c \in PayerCallers |-> IF c = p THEN {"materialize", "reclaim"}
                         ELSE {"status", "bind", "check", "collect"}]

\* A mechanism that tells collection from reclaim, as the port allows.
PortReports == {"pending", "ready", "collected", "reclaimed"}
PortDecisions == {"ready", "failed"}

\* What the Alkahest client answers.
AlkahestReports == {"ready", "expired", "failed", "manual_required"}
AlkahestDecisions == {"pending", "ready", "manual_required"}
=============================================================================
