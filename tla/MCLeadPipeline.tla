--------------------------- MODULE MCLeadPipeline ---------------------------
(***************************************************************************)
(* Small instances of LeadPipeline: one or two calculator requests, mock   *)
(* events, of which one is a repeat, about the same lead or forced to      *)
(* fail, and a replay.                                                     *)
(***************************************************************************)
EXTENDS LeadPipeline

CONSTANTS s1, s2, m1, m2, m3, r1, r2

(* m1 and m2 are the same request posted twice; m3 has a key of its own but *)
(* the event id of m1; every other submission is distinct.                  *)
MCKey     == [s \in Submissions |-> IF s = m2 THEN m1 ELSE s]
MCEventId == [s \in Submissions |-> IF s \in {m2, m3} THEN m1 ELSE s]

(* The mock events name the same lead; a calculator event has none. *)
MCLeadId  == [s \in Submissions |-> IF s \in {m1, m2, m3} THEN m1 ELSE None]
=============================================================================
