-------------------------- MODULE WebhookGateProofs --------------------------
(***************************************************************************)
(* At-most-once verification of signed webhooks and the bounds of the rate *)
(* limiter, for every number of requests, tuples, ticks and restarts.      *)
(* VerifiedOnce is not inductive by itself: it needs that the replay cache *)
(* is exactly the set of tuples this process verified, which makes the     *)
(* cache lookup an answer about the past.  The limiter's two properties    *)
(* need WindowCounted: a bucket counts what was let through in its window, *)
(* and the stretch before that window let through no more than the limit.  *)
(***************************************************************************)
EXTENDS WebhookGate, FiniteSetTheorems, TLAPS

(* A handler that has its audit row behind it, or has answered. *)
AuditedFirst ==
  \A r \in Requests :
    (pc[r] = "answer" \/ answer[r] \in Reasons) => r \in audits

(* The requests the running process has verified. *)
VerifiedNow == {q \in Decided(Verified) : decision[q].life = life}

OncePerLife ==
  \A q, r \in Decided(Verified) :
    decision[q].tuple = decision[r].tuple /\ decision[q].life = decision[r].life => q = r

IInv ==
  /\ TypeOK
  /\ CacheIsVerified
  /\ OncePerLife
  /\ VerifiedIsFresh
  /\ AuditedFirst

-----------------------------------------------------------------------------
(* Facts about the operators *)

(* A verdict is one of the reasons; a verified one means that the tuple was *)
(* well signed, in time and not in the cache.                               *)
LEMMA VerdictFacts ==
  ASSUME NEW t \in Tuples, NEW k
  PROVE  /\ Verdict(t, k) \in Reasons
         /\ Verdict(t, k) \in Verified =>
              /\ Signature[t] = "valid" /\ Provider[t] \in env.secrets
              /\ Stamp[t] # NoStamp /\ ~TooFar(t) /\ t \notin replayCache
<1>1. Signature[t] \in {"missing", "invalid", "valid"}
  BY GateAssumption
<1> QED
  BY <1>1 DEF Verdict, Reasons, Verified

(* Within the window either way. *)
LEMMA SkewFacts ==
  ASSUME NEW t \in Tuples, now \in Nat, env \in Environments, Stamp[t] # NoStamp,
         ~TooFar(t)
  PROVE  now - Stamp[t] \in -env.window .. env.window
<1>1. Stamp[t] \in Int /\ env.window \in Nat
  BY GateAssumption
<1> QED
  BY <1>1 DEF TooFar, Skew

(* The limiter never opens a window that ends later than one length from now. *)
LEMMA HitFacts ==
  ASSUME TypeOK, NEW k \in Keys
  PROVE  Hit(k) \in [count : Nat, resetAt : Nat] /\ Hit(k).resetAt <= now + LimitWindow
<1>1. /\ now \in Nat /\ LimitWindow \in Nat
      /\ buckets[k] \in [count : Nat, resetAt : Nat]
      /\ buckets[k].resetAt <= now + LimitWindow
  BY GateAssumption DEF TypeOK, Clock
<1> QED
  BY <1>1 DEF Hit

-----------------------------------------------------------------------------
(* Every variable of the gate keeps its shape, and no limiter window ends   *)
(* later than one length from now: the type invariant of WebhookGate.       *)
THEOREM TypeInvariant == Spec => []TypeOK
<1>1. Init => TypeOK
  BY GateAssumption DEF Init, TypeOK, Clock, NoBucket, Reasons
<1>2. TypeOK /\ [Next]_vars => TypeOK'
  <2> SUFFICES ASSUME TypeOK, [Next]_vars PROVE TypeOK'
    OBVIOUS
  <2>1. ASSUME NEW r \in Requests, NEW t \in Tuples, NEW remote \in Remotes,
               Evaluate(r, t, remote)
        PROVE  TypeOK'
    <3> DEFINE k == <<Provider[t], remote>>
    <3>1. k \in Keys
      BY DEF Keys
    <3>2. Hit(k) \in [count : Nat, resetAt : Nat] /\ Hit(k).resetAt <= now + LimitWindow
      BY <3>1, HitFacts
    <3>3. now \in Nat /\ LimitWindow \in Nat
      BY GateAssumption DEF TypeOK, Clock
    <3> HIDE DEF k
    <3>4. /\ buckets' = [buckets EXCEPT ![k] = Hit(k)]
          /\ decision' = [decision EXCEPT ![r] =
               [tuple |-> t, reason |-> Verdict(t, k), at |-> now, key |-> k,
                life |-> life]]
          /\ replayCache' = CacheAfter(t, Verdict(t, k))
          /\ pc[r] = "idle" /\ pc' = [pc EXCEPT ![r] = "audit"]
          /\ UNCHANGED <<env, life, now, audits, answer, faults>>
      BY <2>1 DEF Evaluate, process, k
    <3>5. /\ buckets' \in [Keys -> [count : Nat, resetAt : Nat]]
          /\ \A j \in Keys : buckets'[j].resetAt <= now + LimitWindow
      BY <3>1, <3>2, <3>4 DEF TypeOK
    <3>6. replayCache' \subseteq Tuples
      BY <3>4 DEF TypeOK, CacheAfter
    <3>7. Verdict(t, k) \in Reasons
      BY VerdictFacts
    <3>8. \A q \in Requests :
            \/ pc'[q] = "idle" /\ decision'[q] = NoDecision
            \/ pc'[q] # "idle" /\ decision'[q].tuple \in Tuples
                 /\ decision'[q].reason \in Reasons /\ decision'[q].at \in 0 .. now
                 /\ decision'[q].key \in Keys /\ decision'[q].life \in 0 .. life
      BY <3>1, <3>3, <3>4, <3>7 DEF TypeOK
    <3> QED
      BY <3>4, <3>5, <3>6, <3>8 DEF TypeOK
  <2>2. ASSUME NEW r \in Requests, RecordDecision(r)
        PROVE  TypeOK'
    BY <2>2 DEF RecordDecision, TypeOK, process
  <2>3. ASSUME NEW r \in Requests, RecordFails(r)
        PROVE  TypeOK'
    BY <2>3 DEF RecordFails, TypeOK, CacheAfterFault, process
  <2>4. ASSUME NEW r \in Requests, Respond(r)
        PROVE  TypeOK'
    BY <2>4 DEF Respond, Answerable, TypeOK, process
  <2>5. CASE Tick
    <3>1. now \in Nat /\ LimitWindow \in Nat /\ MaxTime \in Nat /\ now' = now + 1
      BY <2>5, GateAssumption DEF TypeOK, Clock, Tick
    <3>2. \A j \in Keys : buckets[j].resetAt <= now' + LimitWindow
      BY <3>1 DEF TypeOK
    <3>3. now' \in Clock
      BY <2>5, <3>1 DEF Tick, Clock
    <3>4. 0 .. now \subseteq 0 .. now'
      BY <3>1
    <3> QED
      BY <2>5, <3>2, <3>3, <3>4 DEF Tick, TypeOK, process
  <2>6. CASE Restart
    <3>1. /\ life \in Nat /\ life' = life + 1 /\ now \in Nat /\ LimitWindow \in Nat
      BY <2>6, GateAssumption DEF TypeOK, Clock, Restart
    <3>2. /\ buckets' \in [Keys -> [count : Nat, resetAt : Nat]]
          /\ \A j \in Keys : buckets'[j].resetAt <= now + LimitWindow
      BY <2>6, <3>1 DEF Restart, NoBucket
    <3>3. /\ pc' \in [Requests -> {"idle", "audit", "answer", "done"}]
          /\ answer' \in [Requests -> Reasons \cup {"none", "server_error", "lost"}]
          /\ \A q \in Requests : pc'[q] = "idle" <=> pc[q] = "idle"
      BY <2>6 DEF Restart, TypeOK
    <3>4. audits' \subseteq Requests /\ replayCache' \subseteq Tuples
      BY <2>6 DEF Restart, TypeOK, CacheAfterRestart
    <3>5. 0 .. life \subseteq 0 .. life' /\ life' \in Nat
      BY <3>1
    <3>6. decision' = decision /\ UNCHANGED <<env, now, faults>>
      BY <2>6 DEF Restart
    <3> QED
      BY <3>2, <3>3, <3>4, <3>5, <3>6 DEF TypeOK
  <2>7. CASE UNCHANGED vars
    BY <2>7 DEF vars, process, TypeOK
  <2> QED
    BY <2>1, <2>2, <2>3, <2>4, <2>5, <2>6, <2>7 DEF Next
<1> QED
  BY <1>1, <1>2, PTL DEF Spec

(* A step that leaves the decisions and the cache alone keeps what the      *)
(* properties say of them.                                                  *)
LEMMA DecisionsKept ==
  ASSUME IInv, UNCHANGED <<process, decision, replayCache>>
  PROVE  CacheIsVerified' /\ OncePerLife' /\ VerifiedIsFresh'
BY DEF IInv, process, CacheIsVerified, OncePerLife, VerifiedIsFresh, Decided

LEMMA Invariant == Spec => []IInv
<1>1. Init => IInv
  <2> SUFFICES ASSUME Init PROVE IInv
    OBVIOUS
  <2>1. TypeOK
    BY GateAssumption DEF Init, TypeOK, Clock, NoBucket, Reasons
  <2>2. Decided(Verified) = {}
    BY DEF Init, Decided, NoDecision, Verified
  <2>3. AuditedFirst
    BY DEF Init, AuditedFirst, Reasons, Verified
  <2> QED
    BY <2>1, <2>2, <2>3 DEF Init, IInv, CacheIsVerified, OncePerLife, VerifiedIsFresh
<1>2. IInv /\ TypeOK' /\ [Next]_vars => IInv'
  <2> SUFFICES ASSUME IInv, TypeOK', [Next]_vars PROVE IInv'
    OBVIOUS
  <2>1. ASSUME NEW r \in Requests, NEW t \in Tuples, NEW remote \in Remotes,
               Evaluate(r, t, remote)
        PROVE  IInv'
    <3> DEFINE k == <<Provider[t], remote>>
               reason == Verdict(t, k)
    <3>1. /\ reason \in Reasons
          /\ reason \in Verified =>
               /\ Signature[t] = "valid" /\ Provider[t] \in env.secrets
               /\ Stamp[t] # NoStamp /\ ~TooFar(t) /\ t \notin replayCache
      BY VerdictFacts
    <3>2. /\ pc[r] = "idle" /\ pc' = [pc EXCEPT ![r] = "audit"]
          /\ decision' = [decision EXCEPT ![r] =
               [tuple |-> t, reason |-> reason, at |-> now, key |-> k,
                life |-> life]]
          /\ replayCache' = IF reason \in Verified THEN replayCache \cup {t}
                            ELSE replayCache
          /\ UNCHANGED <<env, life, audits, answer>>
      BY <2>1 DEF Evaluate, process, CacheAfter
    <3> HIDE DEF k, reason
    <3>3. /\ decision'[r].tuple = t /\ decision'[r].reason = reason
          /\ decision'[r].at = now /\ decision'[r].life = life
          /\ \A q \in Requests \ {r} : decision'[q] = decision[q]
      BY <3>2 DEF IInv, TypeOK
    <3>4. decision[r].reason \notin Verified
      BY <3>2 DEF IInv, TypeOK, NoDecision, Verified
    <3>5. Decided(Verified)' =
            IF reason \in Verified THEN Decided(Verified) \cup {r}
            ELSE Decided(Verified)
      BY <3>3, <3>4 DEF Decided, Verified
    <3>6. r \notin Decided(Verified)
      BY <3>4 DEF Decided
    <3>7. CacheIsVerified'
      <4>1. VerifiedNow' = IF reason \in Verified THEN VerifiedNow \cup {r}
                           ELSE VerifiedNow
        BY <3>2, <3>3, <3>5, <3>6 DEF VerifiedNow, Decided
      <4>2. {decision'[q].tuple : q \in VerifiedNow} = {decision[q].tuple : q \in VerifiedNow}
        BY <3>3, <3>6 DEF VerifiedNow, Decided
      <4>3. replayCache = {decision[q].tuple : q \in VerifiedNow}
        BY DEF IInv, CacheIsVerified, VerifiedNow
      <4>4. replayCache' = {decision'[q].tuple : q \in VerifiedNow'}
        <5>1. CASE reason \in Verified
          BY <3>2, <3>3, <4>1, <4>2, <4>3, <5>1
        <5>2. CASE reason \notin Verified
          BY <3>2, <4>1, <4>2, <4>3, <5>2
        <5> QED
          BY <5>1, <5>2
      <4> QED
        BY <4>4 DEF CacheIsVerified, VerifiedNow
    <3>8. OncePerLife'
      <4>1. \A q \in VerifiedNow : decision[q].tuple \in replayCache
        BY DEF IInv, CacheIsVerified, VerifiedNow
      <4> QED
        BY <3>1, <3>3, <3>5, <3>6, <4>1 DEF IInv, OncePerLife, Decided, VerifiedNow
    <3>9. VerifiedIsFresh'
      <4>1. reason \in Verified => now - Stamp[t] \in -env.window .. env.window
        BY <3>1, SkewFacts DEF IInv, TypeOK, Clock
      <4> QED
        BY <3>1, <3>2, <3>3, <3>5, <3>6, <4>1 DEF IInv, VerifiedIsFresh, Decided
    <3>10. AuditedFirst'
      BY <3>2 DEF IInv, TypeOK, AuditedFirst
    <3> QED
      BY <3>7, <3>8, <3>9, <3>10 DEF IInv
  <2>2. ASSUME NEW r \in Requests, RecordDecision(r)
        PROVE  IInv'
    <3>1. AuditedFirst'
      BY <2>2 DEF RecordDecision, IInv, TypeOK, AuditedFirst
    <3> QED
      BY <2>2, <3>1, DecisionsKept DEF RecordDecision, IInv
  <2>3. ASSUME NEW r \in Requests, RecordFails(r)
        PROVE  IInv'
    <3>1. AuditedFirst'
      BY <2>3 DEF RecordFails, IInv, TypeOK, AuditedFirst, Reasons, Verified
    <3> QED
      BY <2>3, <3>1, DecisionsKept DEF RecordFails, CacheAfterFault, IInv
  <2>4. ASSUME NEW r \in Requests, Respond(r)
        PROVE  IInv'
    <3>1. AuditedFirst'
      BY <2>4 DEF Respond, Answerable, IInv, TypeOK, AuditedFirst
    <3> QED
      BY <2>4, <3>1, DecisionsKept DEF Respond, IInv
  <2>5. CASE Tick
    BY <2>5, DecisionsKept DEF Tick, IInv, AuditedFirst
  <2>6. CASE Restart
    <3>1. /\ UNCHANGED <<env, decision>> /\ life' = life + 1 /\ life \in Nat
          /\ replayCache' = {}
      BY <2>6 DEF Restart, CacheAfterRestart, IInv, TypeOK
    <3>2. \A q \in Decided(Verified) : decision[q].life \in 0 .. life
      BY DEF IInv, TypeOK, Decided, NoDecision, Verified
    <3>3. CacheIsVerified'
      BY <3>1, <3>2 DEF CacheIsVerified, Decided
    <3>4. OncePerLife' /\ VerifiedIsFresh'
      BY <3>1 DEF IInv, OncePerLife, VerifiedIsFresh, Decided
    <3>5. AuditedFirst'
      BY <2>6 DEF Restart, IInv, TypeOK, AuditedFirst, Reasons, Verified
    <3> QED
      BY <3>3, <3>4, <3>5 DEF IInv
  <2>7. CASE UNCHANGED vars
    BY <2>7, DecisionsKept DEF vars, process, IInv, AuditedFirst
  <2> QED
    BY <2>1, <2>2, <2>3, <2>4, <2>5, <2>6, <2>7 DEF Next
<1> QED
  BY <1>1, <1>2, TypeInvariant, PTL DEF Spec

-----------------------------------------------------------------------------
(* The rate limiter                                                         *)

AdmittedReasons == Reasons \ {"rate_limited"}
Capped(n) == IF n <= Limit THEN n ELSE Limit

(* Admitted, of any decisions.                                              *)
Among(dec, k, from, to, n) ==
  {r \in Requests :
     /\ dec[r].reason \in AdmittedReasons
     /\ dec[r].key = k /\ dec[r].life = n /\ dec[r].at \in from .. to}

(* What the limiter let through in the window of a key's bucket, and in the *)
(* stretch of the same length before it.                                    *)
InWindow(k) ==
  Admitted(k, buckets[k].resetAt - LimitWindow, buckets[k].resetAt - 1, life)
BeforeWindow(k) ==
  Admitted(k, buckets[k].resetAt - 2 * LimitWindow,
           buckets[k].resetAt - LimitWindow - 1, life)

(* The bucket counts what was let through in its window, up to the limit;   *)
(* the window before it, wherever it lay, was no fuller, and nothing was    *)
(* let through later.                                                       *)
WindowCounted(k) ==
  /\ Cardinality(InWindow(k)) = Capped(buckets[k].count)
  /\ Cardinality(BeforeWindow(k)) <= Limit
  /\ \A r \in Decided(AdmittedReasons) :
       decision[r].key = k /\ decision[r].life = life =>
         decision[r].at < buckets[k].resetAt

LimiterInv ==
  /\ IsFiniteSet({r \in Requests : pc[r] # "idle"})
  /\ \A k \in Keys : WindowCounted(k)
  /\ AtMostTwiceLimit
  /\ LimitedOnlyIfBusy

LEMMA CappedFacts ==
  ASSUME NEW n \in Nat
  PROVE  /\ Capped(n) \in Nat /\ Capped(n) <= Limit
         /\ n < Limit => Capped(n + 1) = Capped(n) + 1
         /\ n >= Limit => Capped(n + 1) = Capped(n) /\ Capped(n) = Limit
         /\ Capped(0) = 0 /\ Capped(1) = 1
BY GateAssumption DEF Capped

(* Only finitely many requests have been decided.                           *)
LEMMA AdmittedFinite ==
  ASSUME TypeOK, IsFiniteSet({r \in Requests : pc[r] # "idle"}),
         NEW k, NEW from, NEW to, NEW n
  PROVE  /\ IsFiniteSet(Admitted(k, from, to, n))
         /\ Cardinality(Admitted(k, from, to, n)) \in Nat
         /\ \A S \in SUBSET Admitted(k, from, to, n) :
              Cardinality(S) <= Cardinality(Admitted(k, from, to, n))
<1>1. Admitted(k, from, to, n) \subseteq {r \in Requests : pc[r] # "idle"}
  BY DEF Admitted, Decided, TypeOK, NoDecision, Reasons, Verified
<1>2. IsFiniteSet(Admitted(k, from, to, n))
  BY <1>1, FS_Subset
<1> QED
  BY <1>2, FS_CardinalityType, FS_Subset

LEMMA AdmittedAmong ==
  ASSUME NEW k, NEW from, NEW to, NEW n
  PROVE  Admitted(k, from, to, n) = Among(decision, k, from, to, n)
BY DEF Admitted, Among, Decided, AdmittedReasons

(* The windows of the next state. *)
LEMMA WindowsAmong ==
  ASSUME NEW k
  PROVE  LET b == buckets'[k]
             L == LimitWindow
         IN  /\ InWindow(k)' = Among(decision', k, b.resetAt - L, b.resetAt - 1, life')
             /\ BeforeWindow(k)' =
                  Among(decision', k, b.resetAt - 2 * L, b.resetAt - L - 1, life')
BY DEF InWindow, BeforeWindow, Admitted, Among, Decided, AdmittedReasons

LEMMA EvaluateFacts ==
  ASSUME TypeOK, NEW r \in Requests, NEW t \in Tuples, NEW remote \in Remotes,
         Evaluate(r, t, remote), NEW k, k = <<Provider[t], remote>>
  PROVE  /\ k \in Keys /\ pc[r] = "idle" /\ pc' = [pc EXCEPT ![r] = "audit"]
         /\ buckets' = [buckets EXCEPT ![k] = Hit(k)]
         /\ UNCHANGED <<life, now>>
         /\ decision'[r].reason = Verdict(t, k) /\ decision'[r].at = now
         /\ decision'[r].key = k /\ decision'[r].life = life
         /\ \A q \in Requests \ {r} : decision'[q] = decision[q]
         /\ decision[r].reason \notin Reasons
         /\ Verdict(t, k) \in Reasons
         /\ Verdict(t, k) = "rate_limited" <=> Hit(k).count > Limit
<1>1. k \in Keys
  BY DEF Keys
<1>2. /\ pc[r] = "idle" /\ pc' = [pc EXCEPT ![r] = "audit"]
      /\ buckets' = [buckets EXCEPT ![k] = Hit(k)]
      /\ UNCHANGED <<life, now>>
      /\ decision' = [decision EXCEPT ![r] =
           [tuple |-> t, reason |-> Verdict(t, k), at |-> now, key |-> k,
            life |-> life]]
  BY DEF Evaluate, process
<1>3. Verdict(t, k) = "rate_limited" <=> ~UnderLimit(k)
  BY GateAssumption DEF Verdict
<1>4. Hit(k).count \in Nat /\ Limit \in Nat
  BY <1>1, HitFacts, GateAssumption
<1>5. decision[r].reason \notin Reasons
  BY <1>2 DEF TypeOK, NoDecision, Reasons, Verified
<1>6. Verdict(t, k) \in Reasons
  BY VerdictFacts
<1>7. Verdict(t, k) = "rate_limited" <=> Hit(k).count > Limit
  BY <1>3, <1>4 DEF UnderLimit
<1>8. /\ decision'[r].reason = Verdict(t, k) /\ decision'[r].at = now
      /\ decision'[r].key = k /\ decision'[r].life = life
      /\ \A q \in Requests \ {r} : decision'[q] = decision[q]
  BY <1>2 DEF TypeOK
<1> QED
  BY <1>1, <1>2, <1>5, <1>6, <1>7, <1>8

(* A request decided adds itself to the stretches of its key around this    *)
(* instant, if it is let through.                                           *)
LEMMA AdmittedGrows ==
  ASSUME TypeOK, IsFiniteSet({r \in Requests : pc[r] # "idle"}),
         NEW r \in Requests, NEW t \in Tuples, NEW remote \in Remotes,
         Evaluate(r, t, remote), NEW k, k = <<Provider[t], remote>>,
         NEW j, NEW from \in Int, NEW to \in Int, NEW n
  PROVE  /\ (Verdict(t, k) # "rate_limited" /\ j = k /\ n = life /\ now \in from .. to) =>
              /\ Among(decision', j, from, to, n) = Admitted(j, from, to, n) \cup {r}
              /\ Cardinality(Among(decision', j, from, to, n)) =
                   Cardinality(Admitted(j, from, to, n)) + 1
         /\ ~(Verdict(t, k) # "rate_limited" /\ j = k /\ n = life /\ now \in from .. to) =>
              Among(decision', j, from, to, n) = Admitted(j, from, to, n)
<1> DEFINE new == /\ Verdict(t, k) # "rate_limited" /\ j = k /\ n = life
                  /\ now \in from .. to
           A == Admitted(j, from, to, n)
           B == Among(decision', j, from, to, n)
<1>1. /\ decision'[r].reason = Verdict(t, k) /\ decision'[r].at = now
      /\ decision'[r].key = k /\ decision'[r].life = life
      /\ \A q \in Requests \ {r} : decision'[q] = decision[q]
      /\ decision[r].reason \notin Reasons /\ Verdict(t, k) \in Reasons
  BY EvaluateFacts
<1>2. r \notin A
  BY <1>1 DEF Admitted, Decided
<1>3. \A q \in Requests \ {r} : q \in B <=> q \in A
  BY <1>1, AdmittedAmong DEF Among
<1>4. r \in B <=> new
  BY <1>1 DEF Among, AdmittedReasons
<1>5. A \subseteq Requests /\ B \subseteq Requests
  BY DEF Admitted, Decided, Among
<1>6. B = IF new THEN A \cup {r} ELSE A
  BY <1>2, <1>3, <1>4, <1>5
<1>7. IsFiniteSet(A)
  BY AdmittedFinite
<1>8. Cardinality(A \cup {r}) = Cardinality(A) + 1
  BY <1>2, <1>7, FS_AddElement
<1> QED
  BY <1>6, <1>8

(* A request that is let through finds its window counted anew, or the      *)
(* bucket one below the limit.                                              *)
LEMMA EvaluateCounted ==
  ASSUME TypeOK, LimiterInv, TypeOK',
         NEW r \in Requests, NEW t \in Tuples, NEW remote \in Remotes,
         Evaluate(r, t, remote), NEW j \in Keys
  PROVE  WindowCounted(j)'
<1> DEFINE k == <<Provider[t], remote>>
           b == buckets[j]
           L == LimitWindow
<1>1. /\ k \in Keys /\ buckets' = [buckets EXCEPT ![k] = Hit(k)]
      /\ life' = life /\ now' = now
      /\ decision'[r].reason = Verdict(t, k) /\ decision'[r].at = now
      /\ decision'[r].key = k /\ decision'[r].life = life
      /\ \A q \in Requests \ {r} : decision'[q] = decision[q]
      /\ Verdict(t, k) \in Reasons
      /\ Verdict(t, k) = "rate_limited" <=> Hit(k).count > Limit
  BY EvaluateFacts
<1>2. /\ L \in Nat /\ L > 0 /\ Limit \in Nat /\ Limit > 0 /\ now \in Nat
      /\ b.count \in Nat /\ b.resetAt \in Nat /\ b.resetAt <= now + L
      /\ b = [count |-> b.count, resetAt |-> b.resetAt]
  BY GateAssumption DEF TypeOK, Clock
<1>3. /\ Cardinality(InWindow(j)) = Capped(b.count)
      /\ Cardinality(BeforeWindow(j)) <= Limit
      /\ \A q \in Decided(AdmittedReasons) :
           decision[q].key = j /\ decision[q].life = life => decision[q].at < b.resetAt
  BY DEF LimiterInv, WindowCounted
<1>4. IsFiniteSet({q \in Requests : pc[q] # "idle"})
  BY DEF LimiterInv
<1>5. buckets'[j] = IF j = k THEN Hit(k) ELSE b
  BY <1>1 DEF TypeOK
<1> HIDE DEF k, L, b
<1>6. \A q \in Decided(AdmittedReasons)' :
        q # r => q \in Decided(AdmittedReasons) /\ decision'[q] = decision[q]
  BY <1>1 DEF Decided
<1>7. \A from, to \in Int :
        Cardinality(Among(decision', j, from, to, life)) =
          IF Verdict(t, k) # "rate_limited" /\ j = k /\ now \in from .. to
          THEN Cardinality(Admitted(j, from, to, life)) + 1
          ELSE Cardinality(Admitted(j, from, to, life))
  BY <1>4, AdmittedGrows DEF k
<1>8. /\ InWindow(j)' =
           Among(decision', j, buckets'[j].resetAt - L, buckets'[j].resetAt - 1, life)
      /\ BeforeWindow(j)' =
           Among(decision', j, buckets'[j].resetAt - 2 * L,
                 buckets'[j].resetAt - L - 1, life)
  BY <1>1, WindowsAmong DEF L
<1>9. /\ InWindow(j) = Admitted(j, b.resetAt - L, b.resetAt - 1, life)
      /\ BeforeWindow(j) = Admitted(j, b.resetAt - 2 * L, b.resetAt - L - 1, life)
  BY DEF InWindow, BeforeWindow, L, b
<1>10. CASE j # k
  <2>1. /\ Cardinality(InWindow(j)') = Cardinality(InWindow(j))
        /\ Cardinality(BeforeWindow(j)') = Cardinality(BeforeWindow(j))
        /\ buckets'[j] = b
    <3>1. /\ b.resetAt - L \in Int /\ b.resetAt - 1 \in Int
          /\ b.resetAt - 2 * L \in Int /\ b.resetAt - L - 1 \in Int
      BY <1>2
    <3>2. buckets'[j] = b
      BY <1>5, <1>10
    <3> QED
      BY <1>7, <1>8, <1>9, <1>10, <3>1, <3>2
  <2> QED
    BY <1>1, <1>3, <1>6, <1>10, <2>1 DEF WindowCounted
<1>11. CASE j = k /\ now < b.resetAt
  <2>1. Hit(k) = [count |-> b.count + 1, resetAt |-> b.resetAt]
    BY <1>2, <1>11 DEF Hit, Expired, b
  <2>2. Verdict(t, k) = "rate_limited" <=> b.count >= Limit
    BY <1>1, <1>2, <2>1
  <2>3. /\ now \in b.resetAt - L .. b.resetAt - 1
        /\ now \notin b.resetAt - 2 * L .. b.resetAt - L - 1
    BY <1>2, <1>11
  <2>4. buckets'[j].count = b.count + 1 /\ buckets'[j].resetAt = b.resetAt
    BY <1>5, <1>11, <2>1
  <2>5. Cardinality(InWindow(j)') = Capped(b.count + 1)
    BY <1>2, <1>3, <1>7, <1>8, <1>9, <1>11, <2>2, <2>3, <2>4, CappedFacts
  <2>6. Cardinality(BeforeWindow(j)') <= Limit
    BY <1>2, <1>3, <1>7, <1>8, <1>9, <2>3, <2>4
  <2>7. \A q \in Decided(AdmittedReasons)' :
          decision'[q].key = j /\ decision'[q].life = life' =>
            decision'[q].at < b.resetAt
    BY <1>1, <1>3, <1>6, <1>11
  <2> QED
    BY <2>4, <2>5, <2>6, <2>7 DEF WindowCounted
<1>12. CASE j = k /\ now >= b.resetAt
  <2>1. Hit(k) = [count |-> 1, resetAt |-> now + L]
    BY <1>12 DEF Hit, Expired, b, L
  <2>2. Verdict(t, k) # "rate_limited"
    BY <1>1, <1>2, <2>1
  <2>3. buckets'[j].count = 1 /\ buckets'[j].resetAt = now + L
    BY <1>5, <1>12, <2>1
  <2>4. Admitted(j, now, now + L - 1, life) = {}
    BY <1>2, <1>3, <1>12 DEF Admitted, AdmittedReasons, Decided
  <2>5. Cardinality(InWindow(j)') = Capped(1)
    <3>1. InWindow(j)' = Among(decision', j, now, now + L - 1, life)
      BY <1>2, <1>8, <2>3
    <3>2. now \in now .. now + L - 1
      BY <1>2
    <3>3. Cardinality(InWindow(j)') = Cardinality(Admitted(j, now, now + L - 1, life)) + 1
      BY <1>2, <1>7, <1>12, <2>2, <3>1, <3>2
    <3> QED
      BY <2>4, <3>3, FS_EmptySet, CappedFacts
  <2>6. Cardinality(BeforeWindow(j)') <= Limit
    <3>1. BeforeWindow(j)' = Among(decision', j, now - L, now - 1, life)
      BY <1>2, <1>8, <2>3
    <3>2. Cardinality(BeforeWindow(j)') = Cardinality(Admitted(j, now - L, now - 1, life))
      <4>1. now - L \in Int /\ now - 1 \in Int /\ now \notin now - L .. now - 1
        BY <1>2
      <4> QED
        BY <1>7, <3>1, <4>1
    <3>3. Admitted(j, now - L, now - 1, life) \subseteq InWindow(j)
      <4> SUFFICES ASSUME NEW q \in Admitted(j, now - L, now - 1, life)
                   PROVE  q \in InWindow(j)
        OBVIOUS
      <4>1. /\ q \in Decided(AdmittedReasons) /\ decision[q].key = j
            /\ decision[q].life = life /\ decision[q].at \in now - L .. now - 1
        BY DEF Admitted, AdmittedReasons
      <4>2. decision[q].at < b.resetAt
        BY <1>3, <4>1
      <4>3. decision[q].at \in b.resetAt - L .. b.resetAt - 1
        BY <1>2, <1>12, <4>1, <4>2
      <4> QED
        BY <1>9, <4>1, <4>3 DEF Admitted, AdmittedReasons
    <3>4. Cardinality(Admitted(j, now - L, now - 1, life)) <= Cardinality(InWindow(j))
      BY <1>4, <1>9, <3>3, AdmittedFinite
    <3>5. Cardinality(Admitted(j, now - L, now - 1, life)) \in Nat
      BY <1>4, AdmittedFinite
    <3> QED
      BY <1>2, <1>3, <3>2, <3>4, <3>5, CappedFacts
  <2>7. \A q \in Decided(AdmittedReasons)' :
          decision'[q].key = j /\ decision'[q].life = life' =>
            decision'[q].at < now + L
    <3>1. \A q \in Requests : decision'[q].reason \in Reasons => decision'[q].at \in 0 .. now
      BY <1>1 DEF TypeOK, NoDecision, Reasons, Verified
    <3> QED
      BY <1>2, <3>1 DEF Decided, AdmittedReasons
  <2> QED
    BY <2>3, <2>5, <2>6, <2>7 DEF WindowCounted
<1> QED
  BY <1>2, <1>10, <1>11, <1>12

(* A stretch of one window's length that holds this instant lies within the *)
(* bucket's window and the one before it.                                   *)
LEMMA EvaluateBounded ==
  ASSUME TypeOK, LimiterInv, TypeOK', \A j \in Keys : WindowCounted(j)',
         NEW r \in Requests, NEW t \in Tuples, NEW remote \in Remotes,
         Evaluate(r, t, remote)
  PROVE  AtMostTwiceLimit'
<1> DEFINE k == <<Provider[t], remote>>
           L == LimitWindow
           R == buckets'[k].resetAt
           Two == Among(decision', k, R - L, R - 1, life)
           One == Among(decision', k, R - 2 * L, R - L - 1, life)
<1>1. /\ k \in Keys /\ life' = life /\ now' = now /\ pc' = [pc EXCEPT ![r] = "audit"]
      /\ buckets' = [buckets EXCEPT ![k] = Hit(k)]
      /\ Verdict(t, k) = "rate_limited" <=> Hit(k).count > Limit
  BY EvaluateFacts
<1>2. /\ L \in Nat /\ L > 0 /\ Limit \in Nat /\ now \in Nat /\ life \in Nat
      /\ buckets'[k] = Hit(k) /\ R \in Nat /\ R <= now + L /\ Hit(k).count \in Nat
  BY <1>1, HitFacts, GateAssumption DEF TypeOK, Clock
<1>3. IsFiniteSet({q \in Requests : pc[q] # "idle"})
  BY DEF LimiterInv
<1>4. /\ Cardinality(Two) = Capped(Hit(k).count) /\ Cardinality(One) <= Limit
      /\ \A q \in Decided(AdmittedReasons)' :
           decision'[q].key = k /\ decision'[q].life = life => decision'[q].at < R
  <2>1. WindowCounted(k)'
    BY <1>1
  <2> QED
    BY <1>1, <1>2, <2>1, WindowsAmong DEF WindowCounted
<1>5. Cardinality(Two) <= Limit
  BY <1>2, <1>4, CappedFacts
<1>6. \A from, to \in Int :
        /\ IsFiniteSet(Among(decision', k, from, to, life))
        /\ Cardinality(Among(decision', k, from, to, life)) \in Nat
  <2> SUFFICES ASSUME NEW from \in Int, NEW to \in Int
               PROVE  IsFiniteSet(Among(decision', k, from, to, life))
    BY FS_CardinalityType
  <2>1. IsFiniteSet(Admitted(k, from, to, life) \cup {r})
    BY <1>3, AdmittedFinite, FS_AddElement
  <2>2. Among(decision', k, from, to, life) \subseteq Admitted(k, from, to, life) \cup {r}
    BY <1>3, AdmittedGrows
  <2> QED
    BY <2>1, <2>2, FS_Subset
<1> SUFFICES ASSUME NEW j \in Keys, NEW from \in Clock, NEW n \in 0 .. life
             PROVE  Cardinality(Among(decision', j, from, from + L - 1, n)) <= 2 * Limit
  BY <1>1 DEF AtMostTwiceLimit, Admitted, Among, Decided, AdmittedReasons
<1>7. from \in Int /\ from + L - 1 \in Int
  BY <1>2, GateAssumption DEF Clock
<1> DEFINE A == Among(decision', j, from, from + L - 1, n)
<1>8. CASE /\ Verdict(t, k) # "rate_limited" /\ j = k /\ n = life
           /\ now \in from .. from + L - 1
  <2>1. Hit(k).resetAt > now
    BY <1>2, GateAssumption DEF Hit, Expired
  <2>2. from >= R - 2 * L
    BY <1>2, <1>7, <1>8, <2>1
  <2>3. A \subseteq One \cup Two
    <3> SUFFICES ASSUME NEW q \in A PROVE q \in One \cup Two
      OBVIOUS
    <3>1. /\ q \in Requests /\ decision'[q].reason \in AdmittedReasons
          /\ decision'[q].key = k /\ decision'[q].life = life
          /\ decision'[q].at \in from .. from + L - 1
      BY <1>8 DEF Among
    <3>2. decision'[q].at < R
      BY <1>4, <3>1 DEF Decided
    <3>3. decision'[q].at \in R - L .. R - 1 \/ decision'[q].at \in R - 2 * L .. R - L - 1
      BY <1>2, <1>7, <2>2, <3>1, <3>2
    <3> QED
      BY <3>1, <3>3 DEF Among
  <2>4. /\ IsFiniteSet(One) /\ IsFiniteSet(Two)
        /\ Cardinality(One) \in Nat /\ Cardinality(Two) \in Nat
    <3>1. /\ R - L \in Int /\ R - 1 \in Int
          /\ R - 2 * L \in Int /\ R - L - 1 \in Int
      BY <1>2
    <3> HIDE DEF R, L, k
    <3> QED
      BY <1>6, <3>1
  <2>5. /\ IsFiniteSet(One \cup Two)
        /\ Cardinality(One \cup Two) <= Cardinality(One) + Cardinality(Two)
    <3>1. /\ IsFiniteSet(One \cap Two) /\ Cardinality(One \cap Two) \in Nat
      BY <2>4, FS_Intersection, FS_CardinalityType
    <3>2. /\ IsFiniteSet(One \cup Two)
          /\ Cardinality(One \cup Two) =
               Cardinality(One) + Cardinality(Two) - Cardinality(One \cap Two)
      <4> HIDE DEF One, Two
      <4> QED
        BY <2>4, FS_Union
    <3> HIDE DEF One, Two
    <3> QED
      BY <2>4, <3>1, <3>2
  <2>6. Cardinality(A) <= Cardinality(One \cup Two)
    BY <2>3, <2>5, FS_Subset
  <2>7. Cardinality(A) \in Nat /\ Cardinality(One \cup Two) \in Nat
    BY <1>6, <1>7, <1>8, <2>5, FS_CardinalityType
  <2> HIDE DEF A, One, Two
  <2>8. Cardinality(A) <= 2 * Limit
    BY <1>2, <1>4, <1>5, <2>4, <2>5, <2>6, <2>7
  <2> QED
    BY <2>8 DEF A
<1>9. CASE ~(/\ Verdict(t, k) # "rate_limited" /\ j = k /\ n = life
             /\ now \in from .. from + L - 1)
  <2>1. A = Admitted(j, from, from + L - 1, n)
    BY <1>3, <1>7, <1>9, AdmittedGrows
  <2> QED
    BY <2>1 DEF LimiterInv, AtMostTwiceLimit
<1> QED
  BY <1>8, <1>9

(* A request refused found the bucket at its limit, in a window that has    *)
(* not ended; a set of requests let through never shrinks.                  *)
LEMMA EvaluateBusy ==
  ASSUME TypeOK, LimiterInv,
         NEW r \in Requests, NEW t \in Tuples, NEW remote \in Remotes,
         Evaluate(r, t, remote)
  PROVE  LimitedOnlyIfBusy'
<1> DEFINE k == <<Provider[t], remote>>
           L == LimitWindow
           b == buckets[k]
<1>1. /\ k \in Keys
      /\ decision'[r].reason = Verdict(t, k) /\ decision'[r].at = now
      /\ decision'[r].key = k /\ decision'[r].life = life
      /\ \A q \in Requests \ {r} : decision'[q] = decision[q]
      /\ decision[r].reason \notin Reasons
      /\ Verdict(t, k) = "rate_limited" <=> Hit(k).count > Limit
  BY EvaluateFacts
<1>2. /\ L \in Nat /\ L > 0 /\ Limit \in Nat /\ Limit > 0 /\ now \in Nat
      /\ b.count \in Nat /\ b.resetAt \in Nat /\ b.resetAt <= now + L
      /\ b = [count |-> b.count, resetAt |-> b.resetAt]
  BY <1>1, GateAssumption DEF TypeOK, Clock
<1>3. IsFiniteSet({q \in Requests : pc[q] # "idle"})
  BY DEF LimiterInv
<1>4. \A j, n : \A from, to \in Int :
        /\ Cardinality(Among(decision', j, from, to, n)) \in Nat
        /\ Cardinality(Admitted(j, from, to, n)) \in Nat
        /\ Cardinality(Among(decision', j, from, to, n)) >=
             Cardinality(Admitted(j, from, to, n))
  <2> SUFFICES ASSUME NEW j, NEW n, NEW from \in Int, NEW to \in Int
               PROVE  /\ Cardinality(Among(decision', j, from, to, n)) \in Nat
                      /\ Cardinality(Admitted(j, from, to, n)) \in Nat
                      /\ Cardinality(Among(decision', j, from, to, n)) >=
                           Cardinality(Admitted(j, from, to, n))
    OBVIOUS
  <2>1. Cardinality(Admitted(j, from, to, n)) \in Nat
    BY <1>3, AdmittedFinite
  <2>2. \/ Cardinality(Among(decision', j, from, to, n)) =
             Cardinality(Admitted(j, from, to, n)) + 1
        \/ Among(decision', j, from, to, n) = Admitted(j, from, to, n)
    <3> DEFINE new == /\ Verdict(t, k) # "rate_limited" /\ j = k /\ n = life
                      /\ now \in from .. to
    <3>1. CASE new
      BY <1>3, <3>1, AdmittedGrows
    <3>2. CASE ~new
      BY <1>3, <3>2, AdmittedGrows
    <3> QED
      BY <3>1, <3>2
  <2> QED
    BY <2>1, <2>2
<1> SUFFICES ASSUME NEW q \in Requests, decision'[q].reason = "rate_limited"
             PROVE  Cardinality(Among(decision', decision'[q].key,
                      decision'[q].at - L + 1, decision'[q].at, decision'[q].life)) >= Limit
  BY DEF LimitedOnlyIfBusy, Admitted, Among, Decided, AdmittedReasons
<1>5. CASE q # r
  <2>1. decision'[q] = decision[q] /\ decision[q].reason = "rate_limited"
    BY <1>1, <1>5
  <2>2. decision[q].at \in Int
    BY <1>2, <2>1 DEF TypeOK, NoDecision
  <2>3. Cardinality(Admitted(decision[q].key, decision[q].at - L + 1,
                             decision[q].at, decision[q].life)) >= Limit
    BY <2>1 DEF LimiterInv, LimitedOnlyIfBusy, Decided
  <2>4. decision[q].at - L + 1 \in Int
    BY <1>2, <2>2
  <2> QED
    BY <1>2, <1>4, <2>1, <2>2, <2>3, <2>4
<1>6. CASE q = r
  <2>1. Hit(k).count > Limit
    BY <1>1, <1>6
  <2>2. now < b.resetAt /\ b.count >= Limit
    BY <1>2, <2>1 DEF Hit, Expired
  <2>3. Cardinality(InWindow(k)) = Limit
    BY <1>1, <1>2, <2>2, CappedFacts DEF LimiterInv, WindowCounted
  <2>4. InWindow(k) \subseteq Admitted(k, now - L + 1, now, life)
    <3> SUFFICES ASSUME NEW p \in InWindow(k)
                 PROVE  p \in Admitted(k, now - L + 1, now, life)
      OBVIOUS
    <3>1. /\ p \in Decided(Reasons \ {"rate_limited"}) /\ decision[p].key = k
          /\ decision[p].life = life
          /\ decision[p].at \in b.resetAt - L .. b.resetAt - 1
      BY DEF InWindow, Admitted
    <3>2. decision[p].at \in 0 .. now
      BY <3>1 DEF Decided, TypeOK, NoDecision, Reasons, Verified
    <3>3. decision[p].at \in now - L + 1 .. now
      BY <1>2, <2>2, <3>1, <3>2
    <3> QED
      BY <3>1, <3>3 DEF Admitted
  <2>5. Cardinality(Admitted(k, now - L + 1, now, life)) >= Limit
    BY <1>3, <2>3, <2>4, AdmittedFinite
  <2>6. now - L + 1 \in Int /\ now \in Int
    BY <1>2
  <2> QED
    BY <1>1, <1>2, <1>4, <1>6, <2>5, <2>6
<1> QED
  BY <1>5, <1>6

(* A step that decides nothing and leaves the limiter alone. *)
LEMMA LimiterKept ==
  ASSUME LimiterInv, UNCHANGED <<decision, buckets, life>>,
         {r \in Requests : pc'[r] # "idle"} \subseteq {r \in Requests : pc[r] # "idle"}
  PROVE  LimiterInv'
<1>1. IsFiniteSet({r \in Requests : pc'[r] # "idle"})
  BY FS_Subset DEF LimiterInv
<1>2. AtMostTwiceLimit' /\ LimitedOnlyIfBusy'
  BY DEF LimiterInv, AtMostTwiceLimit, LimitedOnlyIfBusy, Admitted, Decided
<1>3. \A k \in Keys : WindowCounted(k)'
  BY DEF LimiterInv, WindowCounted, InWindow, BeforeWindow, Admitted, Decided
<1> QED
  BY <1>1, <1>2, <1>3 DEF LimiterInv

LEMMA RestartCounted ==
  ASSUME TypeOK, LimiterInv, Restart
  PROVE  LimiterInv'
<1>1. /\ decision' = decision /\ life' = life + 1 /\ life \in Nat
      /\ buckets' = [k \in Keys |-> NoBucket]
      /\ \A r \in Requests : pc'[r] = "idle" <=> pc[r] = "idle"
  BY DEF Restart, TypeOK
<1>2. IsFiniteSet({r \in Requests : pc'[r] # "idle"})
  <2>1. {r \in Requests : pc'[r] # "idle"} = {r \in Requests : pc[r] # "idle"}
    BY <1>1
  <2> QED
    BY <2>1 DEF LimiterInv
<1>3. \A r \in Decided(AdmittedReasons) : decision[r].life # life'
  BY <1>1 DEF TypeOK, NoDecision, Decided, AdmittedReasons, Reasons, Verified
<1>4. \A k, from, to : Among(decision', k, from, to, life') = {}
  BY <1>1, <1>3 DEF Among, Decided
<1>5. \A k \in Keys : WindowCounted(k)'
  <2> SUFFICES ASSUME NEW k \in Keys PROVE WindowCounted(k)'
    OBVIOUS
  <2>1. buckets'[k].count = 0
    BY <1>1 DEF NoBucket
  <2>2. InWindow(k)' = {} /\ BeforeWindow(k)' = {}
    BY <1>4, WindowsAmong
  <2>3. Limit \in Nat
    BY GateAssumption
  <2> QED
    BY <1>1, <1>3, <2>1, <2>2, <2>3, FS_EmptySet, CappedFacts
       DEF WindowCounted, Decided
<1>6. LimitedOnlyIfBusy'
  BY <1>1 DEF LimiterInv, LimitedOnlyIfBusy, Admitted, Decided
<1>7. AtMostTwiceLimit'
  <2> SUFFICES ASSUME NEW k \in Keys, NEW from \in Clock, NEW n \in 0 .. life'
               PROVE  Cardinality(Among(decision', k, from, from + LimitWindow - 1, n))
                        <= 2 * Limit
    BY DEF AtMostTwiceLimit, Admitted, Among, Decided, AdmittedReasons
  <2>1. CASE n = life'
    <3>1. Among(decision', k, from, from + LimitWindow - 1, n) = {}
      BY <1>4, <2>1
    <3>2. Cardinality({}) = 0 /\ Limit \in Nat
      BY FS_EmptySet, GateAssumption
    <3> QED
      BY <3>1, <3>2
  <2>2. CASE n # life'
    <3>1. n \in 0 .. life
      BY <1>1, <2>2
    <3> QED
      BY <1>1, <3>1, AdmittedAmong DEF LimiterInv, AtMostTwiceLimit
  <2> QED
    BY <2>1, <2>2
<1> QED
  BY <1>2, <1>5, <1>6, <1>7 DEF LimiterInv

LEMMA LimiterInvariant == Spec => []LimiterInv
<1>1. Init => LimiterInv
  <2> SUFFICES ASSUME Init PROVE LimiterInv
    OBVIOUS
  <2>1. {r \in Requests : pc[r] # "idle"} = {} /\ Decided(Reasons) = {}
    BY DEF Init, Decided, NoDecision, Reasons, Verified
  <2>2. /\ Decided({"rate_limited"}) = {} /\ Decided(AdmittedReasons) = {}
        /\ \A k, from, to, n : Admitted(k, from, to, n) = {}
    BY <2>1 DEF Decided, AdmittedReasons, Reasons, Admitted
  <2>3. \A k \in Keys : buckets[k].count = 0
    BY DEF Init, NoBucket
  <2>4. IsFiniteSet({}) /\ Cardinality({}) = 0 /\ Limit \in Nat /\ Capped(0) = 0
    BY FS_EmptySet, CappedFacts, GateAssumption
  <2>5. \A k \in Keys : WindowCounted(k)
    <3> SUFFICES ASSUME NEW k \in Keys PROVE WindowCounted(k)
      OBVIOUS
    <3>1. InWindow(k) = {} /\ BeforeWindow(k) = {}
      BY <2>2 DEF InWindow, BeforeWindow
    <3>2. 0 <= Limit
      BY <2>4
    <3> QED
      BY <2>2, <2>3, <2>4, <3>1, <3>2 DEF WindowCounted
  <2>6. AtMostTwiceLimit
    BY <2>2, <2>4 DEF AtMostTwiceLimit
  <2>7. LimitedOnlyIfBusy
    BY <2>2 DEF LimitedOnlyIfBusy
  <2> QED
    BY <2>1, <2>4, <2>5, <2>6, <2>7 DEF LimiterInv
<1>2. TypeOK /\ TypeOK' /\ LimiterInv /\ [Next]_vars => LimiterInv'
  <2> SUFFICES ASSUME TypeOK, TypeOK', LimiterInv, [Next]_vars PROVE LimiterInv'
    OBVIOUS
  <2>1. ASSUME NEW r \in Requests, NEW t \in Tuples, NEW remote \in Remotes,
               Evaluate(r, t, remote)
        PROVE  LimiterInv'
    <3>1. \A j \in Keys : WindowCounted(j)'
      BY <2>1, EvaluateCounted
    <3>2. IsFiniteSet({q \in Requests : pc'[q] # "idle"})
      <4>1. {q \in Requests : pc'[q] # "idle"} \subseteq
              {q \in Requests : pc[q] # "idle"} \cup {r}
        BY <2>1 DEF Evaluate, TypeOK
      <4> QED
        BY <4>1, FS_AddElement, FS_Subset DEF LimiterInv
    <3> QED
      BY <2>1, <3>1, <3>2, EvaluateBounded, EvaluateBusy DEF LimiterInv
  <2>2. ASSUME NEW r \in Requests, RecordDecision(r) \/ RecordFails(r) \/ Respond(r)
        PROVE  LimiterInv'
    BY <2>2, LimiterKept DEF RecordDecision, RecordFails, Respond, Answerable,
       TypeOK, process
  <2>3. CASE Restart
    BY <2>3, RestartCounted
  <2>4. CASE Tick \/ UNCHANGED vars
    BY <2>4, LimiterKept DEF Tick, vars, process
  <2> QED
    BY <2>1, <2>2, <2>3, <2>4 DEF Next
<1> QED
  BY <1>1, <1>2, TypeInvariant, PTL DEF Spec

-----------------------------------------------------------------------------
(* Theorems *)

(* However often a signed tuple is redelivered, a process verifies it once: *)
(* replayStore.has and replayStore.add are in one turn.  What a restart     *)
(* lets pass again comes within two windows.                                *)
THEOREM RedeliveryVerifiedOnce == Spec => []VerifiedOnce
<1>1. IInv => VerifiedOnce
  <2> SUFFICES ASSUME IInv, NEW q \in Decided(Verified), NEW r \in Decided(Verified),
                      decision[q].tuple = decision[r].tuple, q # r
               PROVE  /\ decision[q].life # decision[r].life
                      /\ decision[q].at - decision[r].at <= 2 * env.window
    BY DEF VerifiedOnce
  <2> DEFINE t == decision[q].tuple
  <2>1. decision[q].life # decision[r].life
    BY DEF IInv, OncePerLife
  <2>2. /\ decision[q].at - Stamp[t] \in -env.window .. env.window
        /\ decision[r].at - Stamp[t] \in -env.window .. env.window
        /\ Stamp[t] # NoStamp
    BY DEF IInv, VerifiedIsFresh
  <2>3. decision[q].tuple \in Tuples /\ decision[q].at \in Nat /\ decision[r].at \in Nat
    <3>1. q \in Requests /\ r \in Requests
          /\ decision[q] # NoDecision /\ decision[r] # NoDecision /\ now \in Nat
      BY DEF Decided, NoDecision, Verified, IInv, TypeOK, Clock
    <3> QED
      BY <3>1 DEF IInv, TypeOK
  <2>4. Stamp[t] \in Int /\ env.window \in Nat
    BY <2>2, <2>3, GateAssumption DEF IInv, TypeOK
  <2> QED
    BY <2>1, <2>2, <2>3, <2>4
<1> QED
  BY <1>1, Invariant, PTL

(* The replay cache is exactly the set of tuples the process verified: no   *)
(* request that failed a check uses up its key.                             *)
THEOREM CacheExact == Spec => []CacheIsVerified
BY Invariant, PTL DEF IInv

(* Whatever the clock does, a verified request was well signed and within   *)
(* the window (verifyReplayWindow).                                         *)
THEOREM VerifiedInWindow == Spec => []VerifiedIsFresh
BY Invariant, PTL DEF IInv

(* No answer but a 500 leaves the gate before its audit row is written.     *)
THEOREM AnswersAreAudited == Spec => []AnswerAudited
<1>1. IInv => AnswerAudited
  BY DEF IInv, AuditedFirst, AnswerAudited
<1> QED
  BY <1>1, Invariant, PTL

(* However requests fall on the ends of its windows, and however often the  *)
(* process is restarted, the limiter lets through at most twice the limit   *)
(* in one window's length (createInMemoryRateLimiter).                      *)
THEOREM LimiterIsBounded == Spec => []AtMostTwiceLimit
BY LimiterInvariant, PTL DEF LimiterInv

(* Nobody is refused by the limiter unless a full limit was let through     *)
(* within the last window: refused requests do not count against the next   *)
(* window (createInMemoryRateLimiter).                                      *)
THEOREM LimiterIsFair == Spec => []LimitedOnlyIfBusy
BY LimiterInvariant, PTL DEF LimiterInv
=============================================================================
