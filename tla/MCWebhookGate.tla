--------------------------- MODULE MCWebhookGate ---------------------------
(***************************************************************************)
(* An instance of WebhookGate with one provider: a well signed tuple that  *)
(* the clock passes by, from its future to its expiry, and a badly signed  *)
(* one.  Other environments and providers are in MCStagingSmoke.           *)
(***************************************************************************)
EXTENDS WebhookGate, TLC

CONSTANTS signed, forged

MCProvider  == [t \in Tuples |-> "line"]
MCSignature == [t \in Tuples |-> IF t = forged THEN "invalid" ELSE "valid"]
MCStamp     == [t \in Tuples |-> 2]

MCEnvironments == {[secrets |-> {"line"}, window |-> 1, processing |-> TRUE]}

RequestSymmetry == Permutations(Requests)
=============================================================================
