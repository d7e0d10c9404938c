----------------------------- MODULE OpalHermes -----------------------------
(***************************************************************************)
(* One lead through the pure part of the pipeline: the calculator's input  *)
(* normalization or the mock webhook's validation, OPAL's tier matching,   *)
(* Hermes' reply draft and the pricing guardrail the draft must pass.  A   *)
(* draft the guardrail rejects makes the attempt throw: that is what       *)
(* LeadPipeline's constant Unprocessable stands for.                       *)
(***************************************************************************)
EXTENDS Naturals

CONSTANTS
  None,   (* null, or an absent field                                         *)
  Bills   (* the current_bill values a client may send                        *)

CustomerTypes == {"home", "home_office", "shop", "office", "sme", "factory",
                  "industrial", "unknown"}
UsagePatterns == {"daytime_heavy", "mixed", "nighttime_heavy", "unknown"}
PhaseTypes    == {"single_phase", "three_phase", "unknown"}
Tiers         == {"START", "PRO", "ENTERPRISE"}

(* A bill in baht: sign, whole part, and fraction in ten-thousandths. *)
ASSUME BillAssumption ==
  /\ Bills \subseteq [negative : BOOLEAN, whole : Nat, frac : 0 .. 9999]
  /\ None \notin Bills
  /\ None \notin CustomerTypes \cup UsagePatterns \cup PhaseTypes \cup Tiers

(* opal.pricing.2026-mvp1.json *)
PackagePrice  == [START |-> 125000, PRO |-> 315000, ENTERPRISE |-> 4990000]

(* What a client posts; "other" is a value outside the enumeration, and     *)
(* injecting says whether the text matches an injection pattern.            *)
Inputs ==
  [via : {"calculator", "mock"}, bill : Bills \cup {None},
   customer : CustomerTypes \cup {None, "other"},
   usage : UsagePatterns \cup {None, "other"},
   phase : PhaseTypes \cup {None, "other"},
   province : BOOLEAN, injecting : BOOLEAN]

VARIABLES
  stage,   (* "idle", "received", "matched", "drafted", "refused", "failed"   *)
  event,   (* the accepted lead event, or None                                *)
  match,   (* matchTier's result                                              *)
  draft    (* the draft: its kind and the package it quotes                   *)

vars == <<stage, event, match, draft>>

NoMatch == [tier |-> None, more |-> TRUE]
NoDraft == [kind |-> "none", tier |-> None]

Init ==
  /\ stage = "idle"
  /\ event = None
  /\ match = NoMatch
  /\ draft = NoDraft

-----------------------------------------------------------------------------
(* normalizeCalculatorInput: values outside an enumeration become "unknown"; *)
(* of the text it writes only the province is free.                         *)

(* Mutant: they are kept as they came. *)
EnumOrDefaultKept(value, allowed) == value
EnumOrDefault(value, allowed)     == IF value \in allowed THEN value ELSE "unknown"

Normalized(in) ==
  [in EXCEPT !.customer = EnumOrDefault(@, CustomerTypes),
             !.usage = EnumOrDefault(@, UsagePatterns),
             !.phase = EnumOrDefault(@, PhaseTypes)]

(* validateLeadIntentDetectedEvent: null is allowed, other values are not;  *)
(* a bill may be any number.                                                *)
Valid(in) == "other" \notin {in.customer, in.usage, in.phase}

Receive(in) ==
  /\ \/ /\ in.via = "calculator"
        /\ in.bill # None => ~in.bill.negative
        /\ in.injecting => in.province
        /\ event' = Normalized(in)
     \/ in.via = "mock" /\ Valid(in) /\ event' = in
  /\ stage' = "received"
  /\ UNCHANGED <<match, draft>>

(* normalizeCalculatorInput throws, or the validation answers 400. *)
Refuse(in) ==
  /\ \/ in.via = "calculator" /\ in.bill # None /\ in.bill.negative
     \/ in.via = "mock" /\ ~Valid(in)
  /\ stage' = "refused"
  /\ UNCHANGED <<event, match, draft>>

Submit == stage = "idle" /\ \E in \in Inputs : Receive(in) \/ Refuse(in)

-----------------------------------------------------------------------------
(* matchTier *)

(* Mutant: equality for the threshold. *)
AtLeastExactly(bill, n) == bill # None /\ ~bill.negative /\ bill.whole = n
AtLeast(bill, n)        == bill # None /\ ~bill.negative /\ bill.whole >= n

Business(e)   == e.customer \in {"factory", "industrial", "sme"}
OfficeLike(e) == e.customer \in {"home_office", "shop", "office"}

(* Mutant: an unknown phase counts as known. *)
MissingSiteContextPhaseless(e) == ~e.province \/ e.bill = None \/ e.phase = None
MissingSiteContext(e) ==
  ~e.province \/ e.bill = None \/ e.phase \in {None, "unknown"}

(* Mutant: the bill is looked at before the customer type. *)
MatchTierBillFirst(e) ==
  IF e.customer = None /\ e.bill = None /\ e.usage = None THEN NoMatch
  ELSE IF AtLeast(e.bill, 10000) \/ e.usage = "daytime_heavy" \/ OfficeLike(e)
       THEN [tier |-> "PRO", more |-> MissingSiteContext(e)]
  ELSE IF Business(e)
       THEN [tier |-> "ENTERPRISE", more |-> MissingSiteContext(e)]
  ELSE [tier |-> "START", more |-> TRUE]

(* The two START results differ in confidence and wording only. *)
MatchTier(e) ==
  IF e.customer = None /\ e.bill = None /\ e.usage = None THEN NoMatch
  ELSE IF Business(e)
       THEN [tier |-> "ENTERPRISE", more |-> MissingSiteContext(e)]
  ELSE IF AtLeast(e.bill, 10000) \/ e.usage = "daytime_heavy" \/ OfficeLike(e)
       THEN [tier |-> "PRO", more |-> MissingSiteContext(e)]
  ELSE [tier |-> "START", more |-> TRUE]

MatchEvent ==
  /\ stage = "received"
  /\ match' = MatchTier(event)
  /\ stage' = "matched"
  /\ UNCHANGED <<event, draft>>

-----------------------------------------------------------------------------
(* validateDraftPricing on the text createHermesDraft assembles             *)

(* formatNumber prints at most three decimals, rounded half up: the digits  *)
(* before the point, which the guardrail reads as a number of their own.    *)
PrintedWhole(bill) == bill.whole + (IF bill.frac >= 9995 THEN 1 ELSE 0)

(* The numbers the guardrail finds in a draft that quotes tier; the digits  *)
(* after the point stay below 1000 and the sign is not read.                *)
NumbersIn(e, tier) ==
  {PackagePrice[tier]} \cup (IF e.bill = None THEN {} ELSE {PrintedWhole(e.bill)})

(* allowedContextNumbers, as far as a sequence of digits can equal one.     *)
(* Mutant: the bill is not allowed as context.                              *)
ContextNumbersNone(e) == {}
ContextNumbers(e) ==
  IF e.bill = None \/ e.bill.negative \/ e.bill.frac # 0 THEN {}
  ELSE {e.bill.whole}

PackagePrices == {PackagePrice[t] : t \in Tiers}

(* The wording checks never fail on the fixed template. *)
Violations(e, tier) ==
  {n \in NumbersIn(e, tier) :
     n >= 10000 /\ n \notin PackagePrices \cup ContextNumbers(e)}

-----------------------------------------------------------------------------
(* createHermesDraft *)

HumanReviewDraft ==
  /\ stage = "matched" /\ event.injecting
  /\ draft' = [kind |-> "human_review", tier |-> match.tier]
  /\ stage' = "drafted"
  /\ UNCHANGED <<event, match>>

AskDraft ==
  /\ stage = "matched" /\ ~event.injecting /\ match.tier = None
  /\ draft' = [kind |-> "ask", tier |-> None]
  /\ stage' = "drafted"
  /\ UNCHANGED <<event, match>>

PricedDraft ==
  /\ stage = "matched" /\ ~event.injecting /\ match.tier # None
  /\ Violations(event, match.tier) = {}
  /\ draft' = [kind |-> "priced", tier |-> match.tier]
  /\ stage' = "drafted"
  /\ UNCHANGED <<event, match>>

GuardrailThrows ==
  /\ stage = "matched" /\ ~event.injecting /\ match.tier # None
  /\ Violations(event, match.tier) # {}
  /\ stage' = "failed"
  /\ UNCHANGED <<event, match, draft>>

-----------------------------------------------------------------------------
Next ==
  \/ Submit
  \/ MatchEvent
  \/ HumanReviewDraft \/ AskDraft \/ PricedDraft \/ GuardrailThrows

Spec == Init /\ [][Next]_vars

-----------------------------------------------------------------------------
(* Properties *)

Matched == stage \in {"matched", "drafted", "failed"}
Drafted == stage \in {"drafted", "failed"}

Rank(tier) ==
  CASE tier = "START" -> 1 [] tier = "PRO" -> 2 [] tier = "ENTERPRISE" -> 3
    [] OTHER -> 0

(* bill a is not above bill b. *)
NotAbove(a, b) ==
  LET Smaller(x, y) == x.whole < y.whole \/ (x.whole = y.whole /\ x.frac <= y.frac)
  IN  \/ a.negative /\ ~b.negative
      \/ ~a.negative /\ ~b.negative /\ Smaller(a, b)
      \/ a.negative /\ b.negative /\ Smaller(b, a)

(* Every variable keeps its shape; an event that got past the boundary has  *)
(* enumeration values only (createLeadIntentEvent.mjs:67-92,                *)
(* leadIntentDetected.mjs).                                                 *)
TypeOK ==
  /\ stage \in {"idle", "received", "matched", "drafted", "refused", "failed"}
  /\ stage \in {"idle", "refused"} => event = None
  /\ stage \notin {"idle", "refused"} => event \in Inputs /\ Valid(event)
  /\ match.tier \in Tiers \cup {None} /\ match.more \in BOOLEAN
  /\ draft.kind \in {"none", "human_review", "ask", "priced"}

(* The order of matchTier's early returns implements the policy's table,    *)
(* read without an order: business customers and only they are ENTERPRISE,  *)
(* nothing is matched only if nothing is known, PRO is for the other heavy  *)
(* or office users (OPAL_PRICING_POLICY.md:20-26).                          *)
PolicyFollowed ==
  Matched =>
    LET Unknown == event.customer = None /\ event.bill = None /\ event.usage = None
        Heavy   == event.usage = "daytime_heavy" \/ OfficeLike(event)
                     \/ (event.bill # None /\ ~event.bill.negative
                           /\ event.bill.whole >= 10000)
    IN  /\ match.tier = None <=> Unknown
        /\ match.tier = "ENTERPRISE" <=> Business(event)
        /\ match.tier = "PRO" <=> Heavy /\ ~Business(event)

(* A higher bill never gets a lower tier, all else being equal. *)
TierMonotone ==
  Matched /\ event.bill # None =>
    \A b \in Bills : NotAbove(event.bill, b) =>
      Rank(match.tier) <= Rank(MatchTier([event EXCEPT !.bill = b]).tier)

(* An estimate that asks for nothing more knows province, phase and bill,   *)
(* and is never the START default (matchTier.mjs:20-21, 63-79).             *)
FirmNeedsContext ==
  Matched /\ ~match.more =>
    /\ event.province /\ event.bill # None
    /\ event.phase \in {"single_phase", "three_phase"}
    /\ match.tier \in {"PRO", "ENTERPRISE"}

(* Whatever a calculator user fills in or leaves out, a whole bill or none  *)
(* is matched to a tier, and its draft passes the guardrail: such a request *)
(* is not dead-lettered by its own bill text.                               *)
CalculatorAnswered ==
  Drafted /\ event.via = "calculator"
    /\ (event.bill = None \/ event.bill.frac = 0) =>
      /\ match.tier \in Tiers
      /\ stage = "drafted" /\ draft.kind \in {"priced", "human_review"}

(* Every bill the calculator accepts, "zero or greater", is drafted for.    *)
(* False: the guardrail reads "15,000.75" as the foreign price 15000.       *)
AcceptedBillDrafted ==
  stage = "failed" => event.via # "calculator"
=============================================================================
