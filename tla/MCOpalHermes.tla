---------------------------- MODULE MCOpalHermes ----------------------------
(***************************************************************************)
(* Bills on both sides of every threshold of matchTier and of the          *)
(* guardrail: whole, with a fraction, rounded up to a threshold, equal to  *)
(* a package price up to the fraction, negative.                           *)
(***************************************************************************)
EXTENDS OpalHermes

Baht(whole, frac) == [negative |-> FALSE, whole |-> whole, frac |-> frac]
Owed(whole)       == [negative |-> TRUE, whole |-> whole, frac |-> 0]

MCBills ==
  {Baht(0, 0), Baht(4000, 0), Baht(4000, 5000), Baht(9999, 9996),
   Baht(10000, 0), Baht(15000, 0), Baht(15000, 7500), Baht(125000, 5000),
   Owed(1), Owed(15000)}
=============================================================================
