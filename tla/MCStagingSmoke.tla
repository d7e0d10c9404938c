--------------------------- MODULE MCStagingSmoke ---------------------------
(***************************************************************************)
(* Two smokes against a gateway with processing off and on; a client may   *)
(* lack the permission, have a secret of its own for Meta, or a clock that *)
(* is behind, so that what it sends may come too late.                     *)
(***************************************************************************)
EXTENDS StagingSmoke, TLC

MCEnvironments ==
  {[secrets |-> {"line", "meta"}, window |-> 1, processing |-> p] : p \in BOOLEAN}

MCClients ==
  {LocalClient,
   [LocalClient EXCEPT !.allowed = FALSE],
   [LocalClient EXCEPT !.meta = "wrong"],
   [LocalClient EXCEPT !.pages = "off"],
   [LocalClient EXCEPT !.pages = "unreachable"],
   [LocalClient EXCEPT !.ahead = -MaxAhead]}

SmokeSymmetry == Permutations(Smokes)
=============================================================================
