---------------------------- MODULE MCSiteLedger ----------------------------
(***************************************************************************)
(* Small instances of the site capacity ledger: which claims are made, how *)
(* resources are declared, and which of them share a host.                 *)
(***************************************************************************)
EXTENDS SiteLedger, TLC

CONSTANTS r1, r2, res1, res2, host, gpu, ram

Ask(g, m) == gpu :> g @@ ram :> m
Claim(fits, units, start, len, ttl) ==
  [fits |-> fits, units |-> units, start |-> start, len |-> len, ttl |-> ttl]

\* Slices of a machine and the whole machine, declared on one host.
Hosts == res1 :> host @@ res2 :> host
Modes == res1 :> "shareable" @@ res2 :> "exclusive"

\* What is asked for: a duration without a start and a negotiated window, both
\* of which either resource can serve, and a slice without an end.
DealClaims ==
  {Claim({res1, res2}, Ask(1, 2), 0, 1, 1),
   Claim({res1, res2}, Ask(1, 0), 2, 1, 0),
   Claim({res1}, Ask(1, 0), 0, 0, 0)}

\* A declaration that shrinks and is withdrawn under what is held.
Shrinking ==
  {[cap |-> Ask(2, 2), enabled |-> TRUE], [cap |-> Ask(1, 2), enabled |-> FALSE]}
=============================================================================
