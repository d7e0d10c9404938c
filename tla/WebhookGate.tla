---------------------------- MODULE WebhookGate ----------------------------
(***************************************************************************)
(* The security gate of the signed social webhooks, /webhooks/line and     *)
(* /webhooks/meta: fixed-window rate limiter, signature, replay window,    *)
(* replay cache, then the awaited audit row and the answer.  The decision  *)
(* is taken in one turn; platforms redeliver, so the same signed tuple of  *)
(* provider, body, signature and timestamp may arrive again at any time.   *)
(* Limiter and cache are in the process: a restart empties both.           *)
(***************************************************************************)
EXTENDS Integers, FiniteSets

CONSTANTS
  Requests,      (* HTTP requests                                             *)
  Tuples,        (* what a request may carry                                  *)
  Provider,      (* Provider[t]: "line" or "meta"                             *)
  Signature,     (* Signature[t]: "missing", "invalid" or "valid"             *)
  Stamp,         (* Stamp[t]: the timestamp header in ticks, or NoStamp       *)
  NoStamp,       (* a missing or unparsable timestamp                         *)
  Remotes,       (* subset of {"remote-present", "remote-unknown"}            *)
  Environments,  (* the environments the gateway may be started with          *)
  Limit,         (* the limiter's limit, 60 in the code                       *)
  LimitWindow,   (* its windowMs in ticks                                     *)
  MaxTime,       (* bound: the clock stops here                               *)
  MaxFaults,     (* bound: audit writes that may fail                         *)
  MaxRestarts    (* bound: how often the gateway may be restarted             *)

Keys  == {Provider[t] : t \in Tuples} \X Remotes
Clock == 0 .. MaxTime

ASSUME GateAssumption ==
  /\ Provider \in [Tuples -> {"line", "meta"}]
  /\ Signature \in [Tuples -> {"missing", "invalid", "valid"}]
  /\ Stamp \in [Tuples -> Int \cup {NoStamp}] /\ NoStamp \notin Int
  /\ Remotes \subseteq {"remote-present", "remote-unknown"}
  /\ Environments \subseteq
       [secrets : SUBSET {"line", "meta"}, window : Nat, processing : BOOLEAN]
  /\ Limit \in Nat \ {0} /\ LimitWindow \in Nat \ {0}
  /\ MaxTime \in Nat /\ MaxFaults \in Nat /\ MaxRestarts \in Nat

VARIABLES
  env,          (* webhookSecurityEnv: the providers whose secret is set, the *)
                (* replay window in ticks (0: unusable), whether processing   *)
                (* is enabled                                                 *)
  life,         (* how often the gateway was restarted                        *)
  now,          (* Date.now(), in ticks                                       *)
  buckets,      (* the limiter's Map: count and resetAt of a key              *)
  replayCache,  (* the tuples whose replay key is in webhookReplayCache       *)
  pc,           (* "idle", "audit", "answer", "done"                          *)
  decision,     (* the decision of each request                               *)
  audits,       (* webhook_security_audit_logs, as requests                   *)
  answer,       (* the reason in each answer                                  *)
  faults

process == <<env, life>>
vars == <<env, life, now, buckets, replayCache, pc, decision, audits, answer, faults>>

(* The limiter's Map has no entry: as one that has expired. *)
NoBucket   == [count |-> 0, resetAt |-> 0]
NoDecision ==
  [tuple |-> "none", reason |-> "none", at |-> 0, key |-> "none", life |-> 0]
Verified   == {"verified_processing_disabled",
               "verified_processing_enabled_not_wired"}
Reasons    == Verified \cup
  {"rate_limited", "signature_missing", "webhook_secret_not_configured",
   "signature_invalid", "timestamp_missing_or_invalid", "replay_window_invalid",
   "timestamp_from_future", "timestamp_expired", "replay_detected"}

Init ==
  /\ env \in Environments
  /\ life = 0
  /\ now = 0
  /\ buckets = [k \in Keys |-> NoBucket]
  /\ replayCache = {}
  /\ pc = [r \in Requests |-> "idle"]
  /\ decision = [r \in Requests |-> NoDecision]
  /\ audits = {}
  /\ answer = [r \in Requests |-> "none"]
  /\ faults = 0

-----------------------------------------------------------------------------
(* createInMemoryRateLimiter: the window starts with the first request      *)
(* after the last one ended; denied requests are counted too                *)

Expired(k) == now >= buckets[k].resetAt

(* Mutants: the window is counted from the end of the next one; a request   *)
(* after the limit pushes the end of the window out.                        *)
HitDoubleWindow(k) ==
  IF Expired(k) THEN [count |-> 1, resetAt |-> now + 2 * LimitWindow]
  ELSE [buckets[k] EXCEPT !.count = @ + 1]
HitPushing(k) ==
  IF Expired(k) THEN [count |-> 1, resetAt |-> now + LimitWindow]
  ELSE [count |-> buckets[k].count + 1,
        resetAt |-> IF buckets[k].count >= Limit THEN now + LimitWindow
                    ELSE buckets[k].resetAt]
Hit(k) ==
  IF Expired(k) THEN [count |-> 1, resetAt |-> now + LimitWindow]
  ELSE [buckets[k] EXCEPT !.count = @ + 1]

(* Mutant: off by one. *)
UnderLimitOver(k) == Hit(k).count <= Limit + 1
UnderLimit(k)     == Hit(k).count <= Limit

-----------------------------------------------------------------------------
(* verifyenv.window *)

Skew(t) == IF now >= Stamp[t] THEN now - Stamp[t] ELSE Stamp[t] - now

(* Mutant: only old timestamps are refused. *)
TooFarPastOnly(t) == now - Stamp[t] > env.window
TooFar(t)         == Skew(t) > env.window

-----------------------------------------------------------------------------
(* evaluateSocialWebhookRequest: the first check that fails names the reason *)

Verdict(t, k) ==
  IF ~UnderLimit(k) THEN "rate_limited"
  ELSE IF Signature[t] = "missing" THEN "signature_missing"
  ELSE IF Provider[t] \notin env.secrets THEN "webhook_secret_not_configured"
  ELSE IF Signature[t] = "invalid" THEN "signature_invalid"
  ELSE IF Stamp[t] = NoStamp THEN "timestamp_missing_or_invalid"
  ELSE IF env.window = 0 THEN "replay_window_invalid"
  ELSE IF TooFar(t)
       THEN IF Stamp[t] > now THEN "timestamp_from_future" ELSE "timestamp_expired"
  ELSE IF t \in replayCache THEN "replay_detected"
  ELSE IF env.processing THEN "verified_processing_enabled_not_wired"
  ELSE "verified_processing_disabled"

(* Mutant: the key is remembered before the signature and the window have   *)
(* been checked.                                                            *)
CacheAfterEarly(t, reason) ==
  IF reason = "rate_limited" THEN replayCache ELSE replayCache \cup {t}
CacheAfter(t, reason) ==
  IF reason \in Verified THEN replayCache \cup {t} ELSE replayCache

-----------------------------------------------------------------------------
(* handleSocialWebhook *)

Evaluate(r, t, remote) ==
  LET k == <<Provider[t], remote>> IN
  /\ pc[r] = "idle"
  /\ pc' = [pc EXCEPT ![r] = "audit"]
  /\ buckets' = [buckets EXCEPT ![k] = Hit(k)]
  /\ decision' = [decision EXCEPT ![r] =
       [tuple |-> t, reason |-> Verdict(t, k), at |-> now, key |-> k,
        life |-> life]]
  /\ replayCache' = CacheAfter(t, Verdict(t, k))
  /\ UNCHANGED <<process, now, audits, answer, faults>>

RecordDecision(r) ==
  /\ pc[r] = "audit"
  /\ pc' = [pc EXCEPT ![r] = "answer"]
  /\ audits' = audits \cup {r}
  /\ UNCHANGED <<process, now, buckets, replayCache, decision, answer, faults>>

(* Mutant: the replay key is given back when the audit write fails. *)
CacheAfterFaultReleased(r) ==
  IF decision[r].reason \in Verified THEN replayCache \ {decision[r].tuple}
  ELSE replayCache
CacheAfterFault(r) == replayCache

(* The insert rejects, after it was committed or not: the router answers    *)
(* 500, and the replay key stays used.                                      *)
RecordFails(r) ==
  /\ pc[r] = "audit"
  /\ faults < MaxFaults
  /\ faults' = faults + 1
  /\ pc' = [pc EXCEPT ![r] = "done"]
  /\ answer' = [answer EXCEPT ![r] = "server_error"]
  /\ replayCache' = CacheAfterFault(r)
  /\ audits' \in {audits, audits \cup {r}}
  /\ UNCHANGED <<process, now, buckets, decision>>

Answerable(r) == pc[r] = "answer"

Respond(r) ==
  /\ Answerable(r)
  /\ pc' = [pc EXCEPT ![r] = "done"]
  /\ answer' = [answer EXCEPT ![r] = decision[r].reason]
  /\ UNCHANGED <<process, now, buckets, replayCache, decision, audits, faults>>

CacheAfterRestart == {}

(* The process ends and is started again: the requests under way get no     *)
(* answer, an audit write that was under way may have been committed.       *)
Restart ==
  LET cut == {r \in Requests : pc[r] \in {"audit", "answer"}} IN
  /\ life < MaxRestarts
  /\ life' = life + 1
  /\ buckets' = [k \in Keys |-> NoBucket]
  /\ replayCache' = CacheAfterRestart
  /\ pc' = [r \in Requests |-> IF r \in cut THEN "done" ELSE pc[r]]
  /\ answer' = [r \in Requests |-> IF r \in cut THEN "lost" ELSE answer[r]]
  /\ \E committed \in SUBSET {r \in Requests : pc[r] = "audit"} :
       audits' = audits \cup committed
  /\ UNCHANGED <<env, now, decision, faults>>

Tick ==
  /\ now < MaxTime
  /\ now' = now + 1
  /\ UNCHANGED <<process, buckets, replayCache, pc, decision, audits, answer, faults>>

Next ==
  \/ Tick \/ Restart
  \/ \E r \in Requests :
       \/ \E t \in Tuples, remote \in Remotes : Evaluate(r, t, remote)
       \/ RecordDecision(r) \/ RecordFails(r) \/ Respond(r)

Spec == Init /\ [][Next]_vars

-----------------------------------------------------------------------------
(* Properties *)

Decided(reasons) == {r \in Requests : decision[r].reason \in reasons}
(* The requests of key k that the limiter of one life of the process let    *)
(* through between two instants.                                            *)
Admitted(k, from, to, n) ==
  {r \in Decided(Reasons \ {"rate_limited"}) :
     /\ decision[r].key = k /\ decision[r].life = n
     /\ decision[r].at \in from .. to}

(* Every variable keeps its shape; a bucket never holds a window longer     *)
(* than the limiter's (webhookSecurityGate.mjs:152-184).                    *)
TypeOK ==
  /\ env \in Environments
  /\ life \in Nat
  /\ now \in Clock
  /\ buckets \in [Keys -> [count : Nat, resetAt : Nat]]
  /\ \A k \in Keys : buckets[k].resetAt <= now + LimitWindow
  /\ replayCache \subseteq Tuples
  /\ pc \in [Requests -> {"idle", "audit", "answer", "done"}]
  /\ DOMAIN decision = Requests
  /\ \A r \in Requests :
       \/ pc[r] = "idle" /\ decision[r] = NoDecision
       \/ pc[r] # "idle" /\ decision[r].tuple \in Tuples
            /\ decision[r].reason \in Reasons /\ decision[r].at \in 0 .. now
            /\ decision[r].key \in Keys /\ decision[r].life \in 0 .. life
  /\ audits \subseteq Requests
  /\ answer \in [Requests -> Reasons \cup {"none", "server_error", "lost"}]
  /\ faults \in Nat

(* However often and however late a platform redelivers a signed tuple, one *)
(* process verifies it once: the cache is read and written in one turn,     *)
(* before the await of the audit row, and never emptied.  Two verifications *)
(* are apart by a restart, and then by no more than the two windows.        *)
VerifiedOnce ==
  \A q, r \in Decided(Verified) :
    decision[q].tuple = decision[r].tuple =>
      \/ q = r
      \/ /\ decision[q].life # decision[r].life
         /\ decision[q].at - decision[r].at <= 2 * env.window

(* The replay cache holds the tuples this process verified and no other: a  *)
(* request that failed a check can be sent again, corrected or in time.     *)
CacheIsVerified ==
  replayCache =
    {decision[r].tuple : r \in {q \in Decided(Verified) : decision[q].life = life}}

(* A verified request was well signed for a configured provider, and its    *)
(* timestamp no further than the window from the clock, either way, when it *)
(* was decided.                                                             *)
VerifiedIsFresh ==
  \A r \in Decided(Verified) :
    LET t == decision[r].tuple IN
    /\ Signature[t] = "valid" /\ Provider[t] \in env.secrets /\ Stamp[t] # NoStamp
    /\ decision[r].at - Stamp[t] \in -env.window .. env.window

(* The fixed window lets through at most twice the limit in any stretch of  *)
(* one window length, wherever it starts, in one life of the process.       *)
AtMostTwiceLimit ==
  \A k \in Keys, from \in Clock, n \in 0 .. life :
    Cardinality(Admitted(k, from, from + LimitWindow - 1, n)) <= 2 * Limit

(* A request is rate limited only if this process used the limit up within  *)
(* the last window: denied requests do not prolong the penalty.             *)
LimitedOnlyIfBusy ==
  \A r \in Decided({"rate_limited"}) :
    LET d == decision[r] IN
    Cardinality(Admitted(d.key, d.at - LimitWindow + 1, d.at, d.life)) >= Limit

(* A request that is not answered with an error has its audit row.          *)
AnswerAudited ==
  \A r \in Requests : answer[r] \in Reasons => r \in audits
=============================================================================
