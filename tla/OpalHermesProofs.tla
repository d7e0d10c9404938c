--------------------------- MODULE OpalHermesProofs ---------------------------
(***************************************************************************)
(* Tier matching and drafting for every set of bills a client may send.    *)
(* The invariant says what each stage knows of the event: the match is     *)
(* matchTier's of the event, a calculator event is normalized, a failed    *)
(* draft has a violation.                                                  *)
(***************************************************************************)
EXTENDS OpalHermes, TLAPS

Accepted == stage \in {"received", "matched", "drafted", "failed"}

NormalizedEvent ==
  Accepted /\ event.via = "calculator" =>
    event.customer \in CustomerTypes /\ (event.bill # None => ~event.bill.negative)

DraftOfMatch ==
  /\ stage = "drafted" /\ draft.kind = "ask" => match.tier = None
  /\ stage = "drafted" => draft.kind # "none"
  /\ stage = "failed" =>
       match.tier \in Tiers /\ Violations(event, match.tier) # {}

IInv ==
  /\ TypeOK
  /\ Matched => match = MatchTier(event)
  /\ NormalizedEvent
  /\ DraftOfMatch

-----------------------------------------------------------------------------
(* Facts about the operators *)

(* matchTier returns a tier or null, and says whether it needs more. *)
LEMMA MatchTyped ==
  ASSUME NEW e \in Inputs
  PROVE  MatchTier(e).tier \in Tiers \cup {None} /\ MatchTier(e).more \in BOOLEAN
<1>1. MissingSiteContext(e) \in BOOLEAN
  BY DEF MissingSiteContext
<1> DEFINE site == MissingSiteContext(e)
<1> HIDE DEF site
<1>2. site \in BOOLEAN
  BY <1>1 DEF site
<1>3. MatchTier(e) \in {NoMatch, [tier |-> "ENTERPRISE", more |-> site],
                      [tier |-> "PRO", more |-> site],
                      [tier |-> "START", more |-> TRUE]}
  BY DEF MatchTier, site
<1>4. \A r \in [tier : Tiers \cup {None}, more : BOOLEAN] :
        r.tier \in Tiers \cup {None} /\ r.more \in BOOLEAN
  OBVIOUS
<1>5. \A t \in Tiers \cup {None}, m \in BOOLEAN :
        [tier |-> t, more |-> m] \in [tier : Tiers \cup {None}, more : BOOLEAN]
  OBVIOUS
<1>6. {"ENTERPRISE", "PRO", "START", None} \subseteq Tiers \cup {None}
  BY DEF Tiers
<1> QED
  BY <1>2, <1>3, <1>4, <1>5, <1>6 DEF NoMatch

(* What a tier's rank depends on, for an event whose bill is known.         *)
LEMMA RankOfMatch ==
  ASSUME NEW e \in Inputs, e.bill # None
  PROVE  Rank(MatchTier(e).tier) =
           IF Business(e) THEN 3
           ELSE IF AtLeast(e.bill, 10000) \/ e.usage = "daytime_heavy" \/ OfficeLike(e)
                THEN 2
           ELSE 1
<1>1. CASE Business(e)
  BY <1>1 DEF MatchTier, Rank
<1>2. CASE ~Business(e) /\ (AtLeast(e.bill, 10000) \/ e.usage = "daytime_heavy" \/ OfficeLike(e))
  BY <1>2 DEF MatchTier, Rank
<1>3. CASE ~Business(e) /\ ~(AtLeast(e.bill, 10000) \/ e.usage = "daytime_heavy" \/ OfficeLike(e))
  BY <1>3 DEF MatchTier, Rank
<1> QED
  BY <1>1, <1>2, <1>3

(* A threshold that a bill reaches, every bill that is not lower reaches.   *)
LEMMA ThresholdMonotone ==
  ASSUME NEW a \in Bills, NEW b \in Bills, NEW n \in Nat, NotAbove(a, b),
         AtLeast(a, n)
  PROVE  AtLeast(b, n)
<1> DEFINE Amounts == [negative : BOOLEAN, whole : Nat, frac : 0 .. 9999]
<1>a. Bills \subseteq Amounts /\ None \notin Bills
  BY BillAssumption
<1>1. a \in Amounts /\ b \in Amounts /\ b # None
  <2> HIDE DEF Amounts
  <2> QED
    BY <1>a, Zenon
<1>2. ~a.negative /\ a.whole >= n
  BY DEF AtLeast
<1>3. ~b.negative /\ (a.whole < b.whole \/ a.whole = b.whole)
  BY <1>2 DEF NotAbove
<1>4. b.whole >= n
  BY <1>1, <1>2, <1>3
<1> QED
  BY <1>1, <1>3, <1>4 DEF AtLeast

(* matchTier's early returns, read without their order. *)
LEMMA MatchPolicy ==
  ASSUME NEW e \in Inputs, Valid(e)
  PROVE  /\ MatchTier(e).tier = None <=>
              e.customer = None /\ e.bill = None /\ e.usage = None
         /\ MatchTier(e).tier = "ENTERPRISE" <=> Business(e)
         /\ MatchTier(e).tier = "PRO" <=>
              /\ \/ e.usage = "daytime_heavy" \/ OfficeLike(e)
                 \/ AtLeast(e.bill, 10000)
              /\ ~Business(e)
BY BillAssumption DEF MatchTier, NoMatch, Business, OfficeLike, AtLeast, Tiers,
   CustomerTypes, UsagePatterns

(* What matchTier is sure about. *)
LEMMA MatchFirm ==
  ASSUME NEW e \in Inputs, Valid(e), ~MatchTier(e).more
  PROVE  /\ e.province /\ e.bill # None
         /\ e.phase \in {"single_phase", "three_phase"}
         /\ MatchTier(e).tier \in {"PRO", "ENTERPRISE"}
<1>1. MatchTier(e).tier \in {"PRO", "ENTERPRISE"} /\ ~MissingSiteContext(e)
  BY DEF MatchTier, NoMatch
<1>2. e.phase \in PhaseTypes \cup {None, "other"} /\ e.phase # "other"
  BY DEF Inputs, Valid
<1> QED
  BY <1>1, <1>2 DEF MissingSiteContext, PhaseTypes

(* A non-negative whole bill, or none, never trips the guardrail. *)
LEMMA WholeBillPasses ==
  ASSUME NEW e \in Inputs, NEW tier \in Tiers,
         e.bill # None => ~e.bill.negative /\ e.bill.frac = 0
  PROVE  Violations(e, tier) = {}
<1>1. PackagePrice[tier] \in PackagePrices
  BY DEF PackagePrices
<1>2. CASE e.bill = None
  BY <1>1, <1>2 DEF Violations, NumbersIn
<1>3. CASE e.bill # None
  <2>1. e.bill.whole \in Nat
    BY <1>3, BillAssumption DEF Inputs
  <2>2. PrintedWhole(e.bill) = e.bill.whole /\ ContextNumbers(e) = {e.bill.whole}
    BY <1>3, <2>1 DEF PrintedWhole, ContextNumbers
  <2> QED
    BY <1>1, <1>3, <2>2 DEF Violations, NumbersIn
<1> QED
  BY <1>2, <1>3

(* Normalization gives a valid event with a customer type. *)
LEMMA NormalizedValid ==
  ASSUME NEW in \in Inputs
  PROVE  /\ Normalized(in) \in Inputs /\ Valid(Normalized(in))
         /\ Normalized(in).customer \in CustomerTypes
         /\ Normalized(in).bill = in.bill
<1>1. /\ Normalized(in).customer \in CustomerTypes
      /\ Normalized(in).usage \in UsagePatterns
      /\ Normalized(in).phase \in PhaseTypes
  BY DEF Normalized, EnumOrDefault, Inputs, CustomerTypes, UsagePatterns, PhaseTypes
<1>2. /\ Normalized(in).bill = in.bill /\ Normalized(in).via = in.via
      /\ Normalized(in).province = in.province
      /\ Normalized(in).injecting = in.injecting
      /\ Normalized(in) \in Inputs
  BY <1>1 DEF Normalized, Inputs
<1>3. Valid(Normalized(in))
  BY <1>1 DEF Valid, CustomerTypes, UsagePatterns, PhaseTypes
<1> QED
  BY <1>1, <1>2, <1>3

-----------------------------------------------------------------------------
(* The inductive invariant holds throughout. *)
LEMMA Invariant == Spec => []IInv
<1>1. Init => IInv
  BY DEF Init, IInv, TypeOK, Matched, NormalizedEvent, Accepted, DraftOfMatch,
         NoMatch, NoDraft
<1>2. IInv /\ [Next]_vars => IInv'
  <2> SUFFICES ASSUME IInv, [Next]_vars PROVE IInv'
    OBVIOUS
  <2>1. ASSUME stage = "idle", NEW in \in Inputs, Receive(in)
        PROVE  IInv'
    <3>1. /\ event' \in Inputs /\ Valid(event')
          /\ event'.via = "calculator" =>
               /\ event'.customer \in CustomerTypes
               /\ event'.bill # None => ~event'.bill.negative
      <4>1. CASE in.via = "calculator"
        BY <2>1, <4>1, NormalizedValid DEF Receive
      <4>2. CASE in.via # "calculator"
        BY <2>1, <4>2 DEF Receive
      <4> QED
        BY <4>1, <4>2
    <3>2. stage' = "received" /\ UNCHANGED <<match, draft>>
      BY <2>1 DEF Receive
    <3>3. TypeOK'
      BY <3>1, <3>2 DEF IInv, TypeOK, Valid
    <3> QED
      BY <3>1, <3>2, <3>3 DEF IInv, Matched, NormalizedEvent, DraftOfMatch
  <2>2. ASSUME stage = "idle", NEW in \in Inputs, Refuse(in)
        PROVE  IInv'
    BY <2>2 DEF Refuse, IInv, TypeOK, Matched, NormalizedEvent, Accepted, DraftOfMatch
  <2>3. ASSUME MatchEvent
        PROVE  IInv'
    <3>1. /\ event \in Inputs /\ Valid(event) /\ event' = event
          /\ stage = "received" /\ stage' = "matched" /\ match' = MatchTier(event)
          /\ UNCHANGED draft
      BY <2>3 DEF MatchEvent, IInv, TypeOK
    <3>2. MatchTier(event)' = MatchTier(event)
      BY <3>1
    <3>3. TypeOK'
      BY <3>1, MatchTyped DEF IInv, TypeOK, Valid
    <3> QED
      BY <3>1, <3>2, <3>3 DEF IInv, Matched, NormalizedEvent, Accepted, DraftOfMatch
  <2>4. ASSUME HumanReviewDraft \/ AskDraft \/ PricedDraft \/ GuardrailThrows
        PROVE  IInv'
    <3>1. /\ stage = "matched" /\ stage' \in {"drafted", "failed"}
          /\ event' = event /\ match' = match /\ match = MatchTier(event)
          /\ event \in Inputs /\ Valid(event)
          /\ match.tier \in Tiers \cup {None} /\ match.more \in BOOLEAN
      BY <2>4 DEF HumanReviewDraft, AskDraft, PricedDraft, GuardrailThrows, IInv,
                  TypeOK, Matched
    <3>2. draft'.kind \in {"none", "human_review", "ask", "priced"}
      BY <2>4 DEF HumanReviewDraft, AskDraft, PricedDraft, GuardrailThrows, IInv, TypeOK
    <3>3. TypeOK'
      BY <3>1, <3>2 DEF TypeOK, Valid
    <3>4. DraftOfMatch'
      <4>1. /\ stage' = "drafted" /\ draft'.kind = "ask" => match.tier = None
            /\ stage' = "drafted" => draft'.kind # "none"
        BY <2>4 DEF HumanReviewDraft, AskDraft, PricedDraft, GuardrailThrows
      <4>2. stage' = "failed" => match.tier # None /\ Violations(event, match.tier) # {}
        BY <2>4 DEF HumanReviewDraft, AskDraft, PricedDraft, GuardrailThrows
      <4>3. Violations(event, match.tier)' = Violations(event, match.tier)
        BY <3>1
      <4> QED
        BY <3>1, <4>1, <4>2, <4>3 DEF DraftOfMatch
    <3>5. MatchTier(event)' = MatchTier(event)
      BY <3>1
    <3> QED
      BY <3>1, <3>3, <3>4, <3>5 DEF IInv, NormalizedEvent, Accepted
  <2>5. CASE UNCHANGED vars
    <3>1. UNCHANGED <<stage, event, match, draft>>
      BY <2>5 DEF vars
    <3>2. TypeOK'
      BY <3>1 DEF IInv, TypeOK, Valid
    <3>3. /\ MatchTier(event)' = MatchTier(event)
          /\ Violations(event, match.tier)' = Violations(event, match.tier)
      BY <3>1
    <3> QED
      BY <3>1, <3>2, <3>3 DEF IInv, Matched, NormalizedEvent, Accepted, DraftOfMatch
  <2> QED
    BY <2>1, <2>2, <2>3, <2>4, <2>5 DEF Next, Submit
<1> QED
  BY <1>1, <1>2, PTL DEF Spec

-----------------------------------------------------------------------------
(* Theorems *)

(* Submissions, matches, drafts and dead letters keep their shape, whatever *)
(* channels and calculator send (normalize*, matchTier, createHermesDraft). *)
THEOREM CustomersTyped == Spec => []TypeOK
<1>1. IInv => TypeOK
  BY DEF IInv
<1> QED
  BY <1>1, Invariant, PTL

(* The code's chain of early returns implements the policy's unordered      *)
(* table, whatever bills are sent (matchTier).                              *)
THEOREM PolicyImplemented == Spec => []PolicyFollowed
<1>1. IInv => PolicyFollowed
  <2> SUFFICES ASSUME IInv, Matched PROVE PolicyFollowed
    BY DEF PolicyFollowed
  <2>1. event \in Inputs /\ Valid(event) /\ match = MatchTier(event)
    BY DEF IInv, TypeOK, Matched
  <2> QED
    BY <2>1, MatchPolicy DEF PolicyFollowed, AtLeast
<1> QED
  BY <1>1, Invariant, PTL

(* An estimate that asks for nothing more has all of its site context.      *)
THEOREM FirmEstimatesGrounded == Spec => []FirmNeedsContext
<1>1. IInv => FirmNeedsContext
  <2> SUFFICES ASSUME IInv, Matched, ~match.more PROVE FirmNeedsContext
    BY DEF FirmNeedsContext
  <2>1. event \in Inputs /\ Valid(event) /\ match = MatchTier(event)
    BY DEF IInv, TypeOK, Matched
  <2> QED
    BY <2>1, MatchFirm DEF FirmNeedsContext
<1> QED
  BY <1>1, Invariant, PTL

(* Whatever bills are sent, raising the bill of a request and changing      *)
(* nothing else never gives it a lower tier (matchTier).                    *)
THEOREM HigherBillHigherTier == Spec => []TierMonotone
<1>1. IInv => TierMonotone
  <2> SUFFICES ASSUME IInv, Matched, event.bill # None,
                      NEW b \in Bills, NotAbove(event.bill, b)
               PROVE  Rank(match.tier) <=
                        Rank(MatchTier([event EXCEPT !.bill = b]).tier)
    BY DEF TierMonotone
  <2> DEFINE f == [event EXCEPT !.bill = b]
  <2>1. event \in Inputs /\ match = MatchTier(event) /\ event.bill \in Bills
    BY DEF IInv, TypeOK, Matched, Inputs
  <2>2. /\ f \in Inputs /\ f.bill = b /\ f.bill # None
        /\ f.customer = event.customer /\ f.usage = event.usage
    BY <2>1, BillAssumption DEF Inputs
  <2> HIDE DEF f
  <2>3. (Business(f) <=> Business(event)) /\ (OfficeLike(f) <=> OfficeLike(event))
    BY <2>2 DEF Business, OfficeLike
  <2>4. AtLeast(event.bill, 10000) => AtLeast(f.bill, 10000)
    BY <2>1, <2>2, ThresholdMonotone
  <2>5. Rank(match.tier) <= Rank(MatchTier(f).tier)
    BY <2>1, <2>2, <2>3, <2>4, RankOfMatch
  <2> QED
    BY <2>5 DEF f
<1> QED
  BY <1>1, Invariant, PTL

(* A calculator request whose bill is whole or absent is never thrown back  *)
(* by the guardrail and always gets a tier (createHermesDraft with          *)
(* allowedContextNumbers, normalizeCalculatorInput's "unknown").            *)
THEOREM WholeBillsAnswered == Spec => []CalculatorAnswered
<1>1. IInv => CalculatorAnswered
  <2> SUFFICES ASSUME IInv, Drafted, event.via = "calculator",
                      event.bill = None \/ event.bill.frac = 0
               PROVE  CalculatorAnswered
    BY DEF CalculatorAnswered
  <2>1. /\ event \in Inputs /\ Valid(event) /\ match = MatchTier(event)
        /\ event.customer \in CustomerTypes
        /\ event.bill # None => ~event.bill.negative
        /\ match.tier \in Tiers \cup {None}
    BY DEF IInv, TypeOK, Matched, Drafted, NormalizedEvent, Accepted
  <2>2. match.tier # None
    BY <2>1, MatchPolicy, BillAssumption
  <2>3. match.tier \in Tiers
    BY <2>1, <2>2
  <2>4. Violations(event, match.tier) = {}
    BY <2>1, <2>3, WholeBillPasses
  <2>5. stage = "drafted"
    BY <2>4 DEF IInv, DraftOfMatch, Drafted
  <2>6. draft.kind \in {"priced", "human_review"}
    BY <2>2, <2>5 DEF IInv, DraftOfMatch, TypeOK
  <2> QED
    BY <2>3, <2>5, <2>6 DEF CalculatorAnswered
<1> QED
  BY <1>1, Invariant, PTL
=============================================================================
