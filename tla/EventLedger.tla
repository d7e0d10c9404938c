----------------------------- MODULE EventLedger -----------------------------
(***************************************************************************)
(* What the lead pipeline promises about an event, whatever goes on inside *)
(* it: a request key is taken once, an event taken on is settled by being  *)
(* processed or by a dead letter, a dead letter may be replayed and settles*)
(* again, and nothing else is ever settled.                                *)
(***************************************************************************)
EXTENDS Naturals, Sequences

CONSTANTS
  Events,    (* the events clients may post                                  *)
  Key,       (* Key[e]: the idempotency key of the request that carries e    *)
  Reliable   (* no call to the store fails; otherwise an event whose         *)
             (* settlement was recorded by a call that failed settles again  *)

VARIABLES
  keys,       (* the keys the running process remembers                      *)
  open,       (* events taken on and not settled                             *)
  processed,  (* processed[e]: how often e was processed                     *)
  letters     (* the events of the dead letters, in the order of arrival     *)

Buried(e)  == \E d \in DOMAIN letters : letters[d] = e
Settled(e) == processed[e] > 0 \/ Buried(e)
MaySettle(e) == e \in open \/ Buried(e) \/ (~Reliable /\ Settled(e))

Init ==
  /\ keys = {} /\ open = {}
  /\ processed = [e \in Events |-> 0]
  /\ letters = <<>>

TakeOn(e) ==
  /\ Key[e] \notin keys
  /\ e \notin open /\ ~Settled(e)
  /\ keys' = keys \cup {Key[e]}
  /\ open' = open \cup {e}
  /\ UNCHANGED <<processed, letters>>

Process(e) ==
  /\ MaySettle(e)
  /\ processed' = [processed EXCEPT ![e] = @ + 1]
  /\ open' = open \ {e}
  /\ UNCHANGED <<keys, letters>>

Bury(e) ==
  /\ MaySettle(e)
  /\ letters' = Append(letters, e)
  /\ open' = open \ {e}
  /\ UNCHANGED <<keys, processed>>

(* A new process over the same tables: no key is remembered, an open event  *)
(* is open no more unless a row of the store still speaks of it.            *)
Restart ==
  /\ keys' = {}
  /\ open' \in SUBSET open
  /\ UNCHANGED <<processed, letters>>

Next ==
  \/ \E e \in Events : TakeOn(e) \/ Process(e) \/ Bury(e)
  \/ Restart

Spec == Init /\ [][Next]_<<keys, open, processed, letters>>
=============================================================================
