------------------------- MODULE StagingSmokeProofs -------------------------
(***************************************************************************)
(* A passed smoke is faithful and a failed one has a cause, for any number *)
(* of concurrent smokes, any clocks, windows and limits, and any restarts  *)
(* and failing audits.  IInv follows each request of a smoke from what was *)
(* sent to what the gateway decided and answered; its heart is Detected,   *)
(* on whose behalf the tuple of a refused replay had been verified.  CInv  *)
(* says what each refusal reveals; its heart is Filled, that no two        *)
(* requests are all that a bucket at its limit let through, so that a      *)
(* smoke, which sends three with one key, is not refused by itself.        *)
(***************************************************************************)
EXTENDS StagingSmoke, TLAPS

Requests == Smokes \X Steps

Shaped ==
  /\ env \in Environments /\ life \in Nat /\ now \in 0 .. MaxTime
  /\ pc \in [Requests -> {"idle", "audit", "answer", "done"}]
  /\ decision = [r \in Requests |-> decision[r]]
  /\ answer = [r \in Requests |-> answer[r]]
  /\ client \in [Smokes -> Clients \cup {LocalClient}]
  /\ step \in [Smokes -> {"plan", "over"} \cup Steps]
  /\ sent = [c \in Smokes |-> sent[c]]
  /\ result = [c \in Smokes |-> result[c]]

(* The kind of tuple a smoke signs for a step. *)
Kind(c, s) ==
  CASE s = "line"   -> SignedWith(client[c].line, "line", "line-other")
    [] s = "replay" -> SignedWith(client[c].line, "line", "line-other")
    [] s = "bad"    -> "bad"
    [] s = "meta"   -> SignedWith(client[c].meta, "meta", "meta-other")

Past == [plan |-> {}, line |-> {}, replay |-> {"line"}, bad |-> {"line", "replay"},
         meta |-> {"line", "replay", "bad"}]

(* A smoke waits for one request at a time, and passed on four answers. *)
Ordered ==
  \A c \in Smokes :
    /\ step[c] # "over" =>
         /\ \A s \in Past[step[c]] : pc[<<c, s>>] = "done"
         /\ \A s \in Steps \ (Past[step[c]] \cup {step[c]}) : pc[<<c, s>>] = "idle"
    /\ result[c] = "passed" => AsExpected(c)

(* What is under way is signed for its step; a replay carries the line's.   *)
Carrying ==
  \A c \in Smokes : step[c] \in Steps =>
    /\ sent[c] \in Tuples /\ sent[c].kind = Kind(c, step[c])
    /\ pc[Request(c)] # "idle" => sent[c] = Tuple(c, step[c])
    /\ step[c] = "replay" => sent[c] = Tuple(c, "line")

(* An answer is the audited decision. *)
Settled ==
  \A r \in Requests :
    /\ answer[r] # "none" => pc[r] = "done"
    /\ pc[r] = "answer" => r \in audits
    /\ answer[r] \in Gate!Reasons => r \in audits /\ answer[r] = decision[r].reason

(* A decision is about what was sent, and a verified one had reason to be.  *)
Sound ==
  \A c \in Smokes, s \in Steps :
    /\ pc[<<c, s>>] = "idle" => decision[<<c, s>>] = Gate!NoDecision
    /\ Reason(c, s) # "none" =>
         Tuple(c, s) \in Tuples /\ Tuple(c, s).kind = Kind(c, s)
           /\ Life(c, s) \in 0 .. life /\ At(c, s) \in 0 .. MaxTime
    /\ Reason(c, s) # "none" /\ s = "replay" => Tuple(c, s) = Tuple(c, "line")
    /\ Reason(c, s) \in Gate!Verified =>
         /\ Signature[Tuple(c, s)] = "valid"
         /\ At(c, s) - Tuple(c, s).at \in -env.window .. env.window
    /\ Reason(c, s) = "verified_processing_disabled" => ~env.processing

(* Request <<d, z>> had t verified in life n. *)
VerifiedIn(d, z, t, n) ==
  Reason(d, z) \in Gate!Verified /\ Tuple(d, z) = t /\ Life(d, z) = n

CacheBacked ==
  \A t \in replayCache : \E d \in Smokes, z \in Steps : VerifiedIn(d, z, t, life)

(* A detected replay's tuple was verified in the same life, for the line    *)
(* request itself or, after a restart, for another smoke.                   *)
Behind(c) ==
  \E d \in Smokes, z \in {"line", "replay"} :
    /\ VerifiedIn(d, z, Tuple(c, "line"), Life(c, "replay"))
    /\ d = c \/ Life(c, "line") < Life(c, "replay")
Detected ==
  \A c \in Smokes :
    Reason(c, "replay") = "replay_detected" /\ Reason(c, "line") \in Gate!Verified =>
      Behind(c)

IInv ==
  /\ Shaped /\ Ordered /\ Carrying /\ Settled /\ Sound /\ CacheBacked /\ Detected

-----------------------------------------------------------------------------
(* The smokes of a deployed gateway and the signed smoke start in IInv.     *)
LEMMA Initially == Init => IInv
<1> SUFFICES ASSUME Init PROVE IInv
  OBVIOUS
<1> USE DEF Init, StagingInit, LocalInit, Gate!Init, Requests, Gate!NoDecision
<1>1. Shaped
  BY SmokeAssumption DEF Shaped, Steps
<1>2. /\ pc = [r \in Requests |-> "idle"]
      /\ answer = [r \in Requests |-> "none"]
      /\ decision = [r \in Requests |-> Gate!NoDecision]
      /\ result = [c \in Smokes |-> "none"]
      /\ step \in [Smokes -> {"plan", "over"}]
  OBVIOUS
<1>3. Ordered /\ Carrying
  BY <1>2 DEF Ordered, Carrying, Past, Steps, Request
<1>4. Settled
  BY <1>2 DEF Settled, Gate!Reasons, Gate!Verified
<1>5. /\ \A r \in Requests : decision[r] = Gate!NoDecision
      /\ \A c \in Smokes, z \in Steps :
           Reason(c, z) = "none" /\ Reason(c, z) \notin Gate!Verified
  <2>1. Gate!NoDecision.reason = "none" /\ "none" \notin Gate!Verified
    BY DEF Gate!Verified
  <2>2. QED
    BY ONLY <1>2, <2>1 DEF Requests, Reason
<1>8. Sound /\ Detected
  <2> "replay" \in Steps
    BY DEF Steps
  <2>1. Detected
    BY ONLY <1>5, "replay" \in Steps DEF Detected
  <2>2. Sound
    BY ONLY <1>5, <1>2 DEF Sound, Gate!Verified, Requests
  <2>3. QED
    BY <2>1, <2>2
<1>6. CacheBacked
  BY DEF CacheBacked
<1>7. QED
  BY <1>1, <1>3, <1>4, <1>6, <1>8 DEF IInv

(* What the gate has decided stands, also for a process started again.      *)
LEMMA DecisionsStand ==
  ASSUME IInv, decision' = decision, env' = env, client' = client,
         life' \in Nat, life <= life',
         replayCache' = {} \/ (replayCache' = replayCache /\ life' = life),
         \A r \in Requests : pc'[r] = "idle" => pc[r] = "idle"
  PROVE  Sound' /\ CacheBacked' /\ Detected'
<1> USE DEF IInv, Reason, Tuple, Life, At
<1>1. Sound'
  <2>1. \A c \in Smokes, s \in Steps : Kind(c, s)' = Kind(c, s)
    BY DEF Kind
  <2>2. Sound /\ life \in Nat
    BY DEF Shaped
  <2>3. \A n \in 0 .. life : n \in 0 .. life'
    BY <2>2
  <2>4. \A c \in Smokes, s \in Steps : pc'[<<c, s>>] = "idle" => pc[<<c, s>>] = "idle"
    BY DEF Requests
  <2>5. decision' = decision /\ env' = env
    OBVIOUS
  <2>6. QED
    <3> SUFFICES ASSUME NEW c \in Smokes, NEW s \in Steps
        PROVE /\ pc'[<<c, s>>] = "idle" => decision'[<<c, s>>] = Gate!NoDecision
              /\ Reason(c, s)' # "none" =>
                   Tuple(c, s)' \in Tuples /\ Tuple(c, s)'.kind = Kind(c, s)'
                     /\ Life(c, s)' \in 0 .. life' /\ At(c, s)' \in 0 .. MaxTime
              /\ Reason(c, s)' # "none" /\ s = "replay" => Tuple(c, s)' = Tuple(c, "line")'
              /\ Reason(c, s)' \in Gate!Verified =>
                   /\ Signature[Tuple(c, s)'] = "valid"
                   /\ At(c, s)' - Tuple(c, s)'.at \in -env'.window .. env'.window
              /\ Reason(c, s)' = "verified_processing_disabled" => ~env'.processing
      BY DEF Sound, Gate!NoDecision, Gate!Verified
    <3>1. /\ Reason(c, s)' = Reason(c, s) /\ Tuple(c, s)' = Tuple(c, s)
          /\ Tuple(c, "line")' = Tuple(c, "line")
          /\ Life(c, s)' = Life(c, s) /\ At(c, s)' = At(c, s)
      OBVIOUS
    <3>2. QED
      BY ONLY <2>1, <2>2, <2>3, <2>4, <2>5, <3>1, c \in Smokes, s \in Steps DEF Sound
<1>2. CacheBacked'
  <2>1. CASE replayCache' = {}
    BY <2>1 DEF CacheBacked
  <2>2. CASE replayCache' = replayCache /\ life' = life
    <3>1. \A d \in Smokes, z \in Steps, t \in replayCache :
            VerifiedIn(d, z, t, life) => VerifiedIn(d, z, t, life)'
      BY <2>2 DEF VerifiedIn
    <3>2. QED
      BY <2>2, <3>1 DEF CacheBacked
  <2>3. QED
    BY <2>1, <2>2
<1>3. Detected'
  <2>1. \A c \in Smokes : Behind(c) => Behind(c)'
    BY DEF Behind, VerifiedIn
  <2>2. QED
    BY <2>1 DEF Detected
<1>4. QED
  BY <1>1, <1>2, <1>3

LEMMA GateStands ==
  ASSUME IInv, UNCHANGED gate, UNCHANGED client
  PROVE  Settled' /\ Sound' /\ CacheBacked' /\ Detected'
<1>1. Settled'
  BY DEF IInv, Settled, gate
<1>2. life \in Nat
  BY DEF IInv, Shaped
<1>3. QED
  BY <1>1, <1>2, DecisionsStand DEF gate

(* A smoke has come no further while the gate answers a request under way.  *)
LEMMA SmokesStand ==
  ASSUME IInv, UNCHANGED ours, decision' = decision,
         \A r \in Requests : /\ pc[r] = "done" => pc'[r] = "done"
                             /\ pc[r] = "idle" <=> pc'[r] = "idle"
                             /\ answer[r] # "none" => answer'[r] = answer[r]
  PROVE  Ordered' /\ Carrying'
<1> USE DEF IInv, ours
<1>1. \A c \in Smokes : AsExpected(c) => AsExpected(c)'
  BY DEF AsExpected, Requests, Steps
<1>2. \A c \in Smokes, z \in Steps : <<c, z>> \in Requests
  BY DEF Requests
<1>3. Ordered'
  <2>1. \A c \in Smokes : Past[step[c]]' = Past[step[c]] /\ (step[c] # "over" => Past[step[c]] \subseteq Steps)
    BY DEF Shaped, Past, Steps
  <2>2. QED
    BY <1>1, <1>2, <2>1 DEF Ordered
<1>4. Carrying'
  <2>1. \A c \in Smokes, z \in Steps : Kind(c, z)' = Kind(c, z) /\ Tuple(c, z)' = Tuple(c, z)
    BY DEF Kind, Tuple
  <2>2. "line" \in Steps
    BY DEF Steps
  <2>3. QED
    BY <1>2, <2>1, <2>2 DEF Carrying, Request
<1>5. QED
  BY <1>3, <1>4

(* A smoke that sends nothing. *)
LEMMA Ending ==
  ASSUME IInv, NEW c \in Smokes, Skip(c) \/ Throw(c) \/ Conclude(c)
  PROVE  IInv'
<1> USE DEF IInv
<1>1. /\ UNCHANGED <<gate, local, client, sent>>
      /\ step' = [step EXCEPT ![c] = "over"]
      /\ \E x : result' = [result EXCEPT ![c] = x]
           /\ (x = "passed" => AsExpected(c))
  BY DEF Skip, Throw, Conclude
<1>2. Shaped'
  BY <1>1 DEF Shaped, gate, Requests
<1>3. Ordered'
  <2> SUFFICES ASSUME NEW d \in Smokes
               PROVE  /\ step'[d] # "over" =>
                           /\ \A z \in Past[step[d]]' : pc'[<<d, z>>] = "done"
                           /\ \A z \in Steps \ (Past[step[d]]' \cup {step'[d]}) :
                                pc'[<<d, z>>] = "idle"
                      /\ result'[d] = "passed" => AsExpected(d)'
    BY DEF Ordered
  <2>1. AsExpected(d)' = AsExpected(d)
    BY <1>1 DEF AsExpected, gate
  <2>2. QED
    BY <1>1, <2>1 DEF Ordered, Shaped, gate
<1>4. Carrying'
  BY <1>1 DEF Carrying, Shaped, gate, Request, Kind, Tuple, Steps
<1>5. QED
  BY <1>1, <1>2, <1>3, <1>4, GateStands

(* What is sent is well formed and signed for its step. *)
LEMMA Sending ==
  ASSUME IInv, NEW c \in Smokes, Send(c)
  PROVE  IInv'
<1> USE DEF IInv
<1> DEFINE s == After[step[c]]
<1>1. /\ UNCHANGED <<gate, local, client, result>>
      /\ step' = [step EXCEPT ![c] = s] /\ sent' = [sent EXCEPT ![c] = Carried(c, s)]
      /\ step[c] \in {"plan", "line", "replay", "bad"} /\ s \in Steps
      /\ step[c] # "plan" => pc[Request(c)] = "done"
  BY DEF Send, After, Steps, Answered, Shaped
<1>2. Shaped'
  BY <1>1 DEF Shaped, gate, Requests
<1>3. Past[s] = IF step[c] = "plan" THEN {} ELSE Past[step[c]] \cup {step[c]}
  BY <1>1 DEF After, Past
<1>4. /\ \A z \in Past[s] : pc[<<c, z>>] = "done"
      /\ \A z \in Steps \ Past[s] : pc[<<c, z>>] = "idle"
      /\ s \notin Past[s]
  <2>1. step[c] # "over" /\ Past["plan"] = {} /\ "plan" \notin Steps
    BY <1>1 DEF Past, Steps
  <2>2. QED
    BY <1>1, <1>3, <2>1 DEF Ordered, Request, Past, After
<1>5. Ordered'
  <2> SUFFICES ASSUME NEW d \in Smokes
               PROVE  /\ step'[d] # "over" =>
                           /\ \A z \in Past[step[d]]' : pc'[<<d, z>>] = "done"
                           /\ \A z \in Steps \ (Past[step[d]]' \cup {step'[d]}) :
                                pc'[<<d, z>>] = "idle"
                      /\ result'[d] = "passed" => AsExpected(d)'
    BY DEF Ordered
  <2>1. AsExpected(d)' = AsExpected(d)
    BY <1>1 DEF AsExpected, gate
  <2>2. Past' = Past
    BY DEF Past
  <2>3. CASE d = c
    BY <1>1, <1>4, <2>1, <2>2, <2>3 DEF Ordered, Shaped, gate
  <2>4. CASE d # c
    BY <1>1, <2>1, <2>2, <2>4 DEF Ordered, Shaped, gate
  <2>5. QED
    BY <2>3, <2>4
<1>6. Carried(c, s) \in Tuples /\ Carried(c, s).kind = Kind(c, s)
      /\ (s = "replay" => Carried(c, s) = Tuple(c, "line"))
  <2>1. CASE s = "replay"
    <3>1. step[c] = "line"
      BY <1>1, <2>1 DEF After
    <3>2. QED
      BY <1>1, <2>1, <3>1 DEF Carried, Carrying, Kind, Steps, Request
  <2>2. CASE s # "replay"
    <3>1. now + client[c].ahead \in -MaxAhead .. MaxTime + MaxAhead
      BY SmokeAssumption DEF Shaped, LocalClient
    <3>2. QED
      BY <1>1, <2>2, <3>1 DEF Carried, Kind, Tuples, SignedWith, Steps
  <2>3. QED
    BY <2>1, <2>2
<1>7. Carrying'
  <2> SUFFICES ASSUME NEW d \in Smokes, step'[d] \in Steps
               PROVE  /\ sent'[d] \in Tuples /\ sent'[d].kind = Kind(d, step[d])'
                      /\ pc'[<<d, step'[d]>>] # "idle" => sent'[d] = Tuple(d, step[d])'
                      /\ step'[d] = "replay" => sent'[d] = Tuple(d, "line")'
    BY DEF Carrying, Request
  <2>1. CASE d = c
    BY <1>1, <1>4, <1>6, <2>1 DEF Shaped, gate, Tuple, Kind
  <2>2. CASE d # c
    BY <1>1, <2>2 DEF Shaped, gate, Tuple, Kind, Carrying, Request
  <2>3. QED
    BY <2>1, <2>2
<1>8. QED
  BY <1>1, <1>2, <1>5, <1>7, GateStands

-----------------------------------------------------------------------------
(* The audit row is written or fails, and the answer is given.              *)
LEMMA Answering ==
  ASSUME IInv, NEW r \in Requests,
         Gate!RecordDecision(r) \/ Gate!Respond(r) \/ Gate!RecordFails(r),
         UNCHANGED ours
  PROVE  IInv'
<1> USE DEF IInv
<1>1. /\ UNCHANGED <<env, life, now, replayCache, decision>>
      /\ audits \subseteq audits'
      /\ pc[r] \in {"audit", "answer"} /\ answer[r] = "none"
      /\ \E x \in {"answer", "done"} : pc' = [pc EXCEPT ![r] = x]
      /\ \A q \in Requests \ {r} : answer'[q] = answer[q]
      /\ answer' = [q \in Requests |-> answer'[q]]
  BY DEF Gate!RecordDecision, Gate!Respond, Gate!RecordFails, Gate!process, Shaped,
         Gate!CacheAfterFault, Gate!Answerable, Settled
<1>2. Shaped'
  BY <1>1 DEF Shaped, ours
<1>3. Settled'
  <2> SUFFICES ASSUME NEW q \in Requests
               PROVE  /\ answer'[q] # "none" => pc'[q] = "done"
                      /\ pc'[q] = "answer" => q \in audits'
                      /\ answer'[q] \in Gate!Reasons =>
                           q \in audits' /\ answer'[q] = decision'[q].reason
    BY DEF Settled, Gate!Reasons, Gate!Verified
  <2>1. CASE q = r
    <3>1. "none" \notin Gate!Reasons /\ "server_error" \notin Gate!Reasons
      BY DEF Gate!Reasons, Gate!Verified
    <3>2. CASE Gate!RecordDecision(r)
      BY <1>1, <2>1, <3>1, <3>2 DEF Gate!RecordDecision, Shaped, Settled
    <3>3. CASE Gate!Respond(r)
      BY <1>1, <2>1, <3>1, <3>3 DEF Gate!Respond, Gate!Answerable, Shaped, Settled
    <3>4. CASE Gate!RecordFails(r)
      BY <1>1, <2>1, <3>1, <3>4 DEF Gate!RecordFails, Shaped, Settled
    <3>5. QED
      BY <3>2, <3>3, <3>4
  <2>2. CASE q # r
    BY <1>1, <2>2 DEF Shaped, Settled
  <2>3. QED
    BY <2>1, <2>2
<1>4. Ordered' /\ Carrying'
  BY <1>1, SmokesStand DEF Shaped
<1>5. Sound' /\ CacheBacked' /\ Detected'
  BY <1>1, DecisionsStand DEF Shaped, ours
<1>6. QED
  BY <1>2, <1>3, <1>4, <1>5

(* The process is started again: nothing is decided, the cache is empty.    *)
LEMMA Restarting ==
  ASSUME IInv, Gate!Restart, UNCHANGED ours
  PROVE  IInv'
<1> USE DEF IInv
<1> DEFINE cut == {r \in Requests : pc[r] \in {"audit", "answer"}}
<1>1. /\ env' = env /\ now' = now /\ decision' = decision
      /\ life' = life + 1 /\ replayCache' = {} /\ audits \subseteq audits'
      /\ pc' = [r \in Requests |-> IF r \in cut THEN "done" ELSE pc[r]]
      /\ answer' = [r \in Requests |-> IF r \in cut THEN "lost" ELSE answer[r]]
  BY DEF Gate!Restart, Gate!CacheAfterRestart, Requests
<1>2. Shaped'
  BY <1>1 DEF Shaped, ours
<1>3. Settled'
  BY <1>1 DEF Settled, Shaped, Gate!Reasons, Gate!Verified
<1>4. \A r \in Requests : /\ pc[r] = "done" => pc'[r] = "done"
                          /\ pc[r] = "idle" <=> pc'[r] = "idle"
                          /\ answer[r] # "none" => answer'[r] = answer[r]
  BY <1>1 DEF Settled, Shaped
<1>5. Ordered' /\ Carrying'
  BY <1>1, <1>4, SmokesStand
<1>6. Sound' /\ CacheBacked' /\ Detected'
  BY <1>1, <1>4, DecisionsStand DEF Shaped, ours
<1>7. QED
  BY <1>2, <1>3, <1>5, <1>6

LEMMA Ticking ==
  ASSUME IInv, Tick
  PROVE  IInv'
<1> USE DEF IInv, Tick, Gate!Tick, Gate!process
<1>1. Shaped'
  BY SmokeAssumption DEF Shaped, ours
<1>2. Settled'
  BY DEF Settled
<1>3. Ordered' /\ Carrying'
  BY SmokesStand
<1>4. Sound' /\ CacheBacked' /\ Detected'
  BY DecisionsStand DEF Shaped, ours
<1>5. QED
  BY <1>1, <1>2, <1>3, <1>4

-----------------------------------------------------------------------------
(* A request that is sent and not decided is signed for its step, and its   *)
(* smoke has sent nothing later.                                            *)
LEMMA Undecided ==
  ASSUME IInv, NEW c \in Smokes, NEW s, s = step[c], s \in Steps, pc[<<c, s>>] = "idle"
  PROVE  /\ decision[<<c, s>>] = Gate!NoDecision /\ Reason(c, s) = "none"
         /\ \A z \in Steps \ (Past[s] \cup {s}) :
              pc[<<c, z>>] = "idle" /\ Reason(c, z) = "none"
         /\ sent[c] \in Tuples /\ sent[c].kind = Kind(c, s)
         /\ s = "replay" => sent[c] = Tuple(c, "line")
         /\ s = "line" => Reason(c, "replay") = "none"
<1> USE DEF IInv
<1>1. s # "over"
  BY DEF Steps
<1>2. \A z \in Steps : pc[<<c, z>>] = "idle" => Reason(c, z) = "none"
  BY DEF Sound, Reason, Gate!NoDecision
<1>3. \A z \in Steps \ (Past[s] \cup {s}) : pc[<<c, z>>] = "idle" /\ Reason(c, z) = "none"
  BY <1>1, <1>2 DEF Ordered
<1>4. s = "line" => "replay" \in Steps \ (Past[s] \cup {s})
  BY DEF Past, Steps
<1>5. QED
  BY <1>2, <1>3, <1>4 DEF Sound, Carrying

(* The gate decides a request: a tuple it finds in its cache had been       *)
(* verified in this life, and only a line or replay request carries it.     *)
LEMMA Deciding ==
  ASSUME IInv, NEW c \in Smokes, Arrive(c)
  PROVE  IInv'
<1> USE DEF IInv
<1> PICK s : s = step[c]
  OBVIOUS
<1> PICK t : t = sent[c]
  OBVIOUS
<1> PICK v : v = Gate!Verdict(t, <<Provider[t], "remote-present">>)
  OBVIOUS
<1> PICK n : n = life
  OBVIOUS
<1> PICK m : m = now
  OBVIOUS
<1> PICK d : d = [tuple |-> t, reason |-> v, at |-> m,
                  key |-> <<Provider[t], "remote-present">>, life |-> n]
  OBVIOUS
<1> DEFINE r == <<c, s>>
<1>1. /\ s \in Steps /\ r = Request(c) /\ r \in Requests /\ pc[r] = "idle"
      /\ pc' = [pc EXCEPT ![r] = "audit"]
      /\ decision' = [decision EXCEPT ![r] = d]
      /\ replayCache' = Gate!CacheAfter(t, v)
      /\ UNCHANGED <<env, life, now, audits, answer, faults, ours>>
      /\ step' = step /\ sent' = sent /\ client' = client
  BY DEF Arrive, Gate!Evaluate, Gate!process, Request, Requests, ours
<1>2. /\ decision[r] = Gate!NoDecision /\ Reason(c, s) = "none"
      /\ \A z \in Steps \ (Past[s] \cup {s}) : pc[<<c, z>>] = "idle" /\ Reason(c, z) = "none"
      /\ t \in Tuples /\ t.kind = Kind(c, s)
      /\ s = "replay" => t = Tuple(c, "line")
      /\ s = "line" => Reason(c, "replay") = "none"
  BY <1>1, Undecided
<1>3. /\ v # "none"
      /\ v \in Gate!Verified =>
           /\ Signature[t] = "valid" /\ m - t.at \in -env.window .. env.window
      /\ v = "verified_processing_disabled" => ~env.processing
      /\ v = "replay_detected" => t \in replayCache
  <2>1. t.at \in Int /\ now \in Int /\ env.window \in Nat /\ Stamp[t] = t.at
    BY <1>2, SmokeAssumption DEF Tuples, Stamp, Shaped
  <2>2. ~Gate!TooFar(t) => m - t.at \in -env.window .. env.window
    BY <2>1 DEF Gate!TooFar, Gate!Skew
  <2>3. Signature[t] \in {"valid", "invalid"}
    BY <1>2 DEF Signature
  <2>4. QED
    BY <2>2, <2>3 DEF Gate!Verdict, Gate!Verified
<1>4. /\ \A q \in Requests \ {r} : decision'[q] = decision[q] /\ pc'[q] = pc[q]
      /\ decision'[r] = d /\ pc'[r] = "audit"
  BY <1>1 DEF Shaped
<1>5. \A e \in Smokes, z \in Steps : <<e, z>> \in Requests /\ (<<e, z>> = r <=> e = c /\ z = s)
  BY <1>1 DEF Requests
<1>6. Shaped'
  BY <1>1, <1>4 DEF Shaped, ours
<1>7. Settled'
  BY <1>1, <1>4 DEF Settled, Gate!Reasons, Gate!Verified
<1>8. Ordered' /\ Carrying'
  <2>1. \A e \in Smokes : AsExpected(e) => AsExpected(e)'
    BY <1>1 DEF AsExpected
  <2>2. \A e \in Smokes : Past[step[e]]' = Past[step[e]]
                            /\ (step[e] # "over" => Past[step[e]] \subseteq Steps)
    BY <1>1 DEF Shaped, Past, Steps, ours
  <2>3. s \notin Past[s] /\ s # "over"
    BY <1>1 DEF Past, Steps
  <2>4. Ordered'
    BY <1>1, <1>4, <1>5, <2>1, <2>2, <2>3 DEF Ordered, ours
  <2>5. \A e \in Smokes, z \in Steps :
          Kind(e, z)' = Kind(e, z) /\ (<<e, z>> # r => Tuple(e, z)' = Tuple(e, z))
    BY <1>1, <1>4, <1>5 DEF Kind, Tuple, ours
  <2>6. /\ "line" \in Steps
        /\ s = "line" => s # "replay"
        /\ Tuple(c, s)' = t
    BY <1>1, <1>4 DEF Steps, Tuple
  <2>7. Carrying'
    <3> SUFFICES ASSUME NEW e \in Smokes, step'[e] \in Steps
                 PROVE  /\ sent'[e] \in Tuples /\ sent'[e].kind = Kind(e, step[e])'
                        /\ pc'[<<e, step'[e]>>] # "idle" => sent'[e] = Tuple(e, step[e])'
                        /\ step'[e] = "replay" => sent'[e] = Tuple(e, "line")'
      BY DEF Carrying, Request
    <3>1. step' = step /\ sent' = sent
      BY <1>1 DEF ours
    <3>2. CASE e = c
      <4>1. Tuple(e, step[e])' = t /\ Kind(e, step[e])' = Kind(c, s)
        BY <2>5, <2>6, <3>1, <3>2, <1>1
      <4>2. s = "replay" => Tuple(c, "line")' = Tuple(c, "line")
        BY <1>5, <2>5, <2>6
      <4>3. QED
        BY <1>2, <3>1, <3>2, <4>1, <4>2
    <3>3. CASE e # c
      <4>1. /\ Tuple(e, step[e])' = Tuple(e, step[e])
            /\ Tuple(e, "line")' = Tuple(e, "line")
            /\ Kind(e, step[e])' = Kind(e, step[e])
            /\ pc'[<<e, step[e]>>] = pc[<<e, step[e]>>]
        BY <1>4, <1>5, <2>5, <2>6, <3>1, <3>3
      <4>2. QED
        BY <3>1, <4>1 DEF Carrying, Request
    <3>4. QED
      BY <3>2, <3>3
  <2>8. QED
    BY <2>4, <2>7
<1>9. /\ \A e \in Smokes, z \in Steps : <<e, z>> # r =>
           /\ Tuple(e, z)' = Tuple(e, z) /\ Reason(e, z)' = Reason(e, z)
           /\ Life(e, z)' = Life(e, z) /\ At(e, z)' = At(e, z)
           /\ decision'[<<e, z>>] = decision[<<e, z>>] /\ pc'[<<e, z>>] = pc[<<e, z>>]
      /\ Tuple(c, s)' = t /\ Reason(c, s)' = v /\ Life(c, s)' = n /\ At(c, s)' = m
      /\ pc'[<<c, s>>] = "audit"
      /\ \A e \in Smokes, z \in Steps : Kind(e, z)' = Kind(e, z)
      /\ env' = env /\ life' = n /\ life = n /\ n \in Nat /\ m \in 0 .. MaxTime
      /\ "line" \in Steps /\ "replay" \in Steps
  <2>1. /\ \A e \in Smokes, z \in Steps : <<e, z>> # r =>
             /\ Tuple(e, z)' = Tuple(e, z) /\ Reason(e, z)' = Reason(e, z)
             /\ Life(e, z)' = Life(e, z) /\ At(e, z)' = At(e, z)
             /\ decision'[<<e, z>>] = decision[<<e, z>>] /\ pc'[<<e, z>>] = pc[<<e, z>>]
        /\ Tuple(c, s)' = t /\ Reason(c, s)' = v /\ Life(c, s)' = n /\ At(c, s)' = m
    BY <1>4, <1>5 DEF Tuple, Reason, Life, At
  <2>3. \A e \in Smokes, z \in Steps : Kind(e, z)' = Kind(e, z)
    BY <1>1 DEF Kind
  <2>2. /\ env' = env /\ life' = n /\ life = n /\ n \in Nat /\ m \in 0 .. MaxTime
        /\ pc'[<<c, s>>] = "audit" /\ "line" \in Steps /\ "replay" \in Steps
    BY <1>1, <1>4 DEF Shaped, Steps
  <2>4. QED
    BY <2>1, <2>2, <2>3
<1> HIDE DEF r
<1>10. Sound'
  <2> SUFFICES ASSUME NEW e \in Smokes, NEW z \in Steps
      PROVE /\ pc'[<<e, z>>] = "idle" => decision'[<<e, z>>] = Gate!NoDecision
            /\ Reason(e, z)' # "none" =>
                 Tuple(e, z)' \in Tuples /\ Tuple(e, z)'.kind = Kind(e, z)'
                   /\ Life(e, z)' \in 0 .. life' /\ At(e, z)' \in 0 .. MaxTime
            /\ Reason(e, z)' # "none" /\ z = "replay" => Tuple(e, z)' = Tuple(e, "line")'
            /\ Reason(e, z)' \in Gate!Verified =>
                 /\ Signature[Tuple(e, z)'] = "valid"
                 /\ At(e, z)' - Tuple(e, z)'.at \in -env'.window .. env'.window
            /\ Reason(e, z)' = "verified_processing_disabled" => ~env'.processing
    BY DEF Sound, Gate!NoDecision, Gate!Verified
  <2>1. CASE <<e, z>> = r
    <3>1. e = c /\ z = s
      BY <1>5, <2>1
    <3>2. z = "replay" => Tuple(e, "line")' = Tuple(c, "line")
      BY <1>5, <1>9, <3>1
    <3>3. QED
      BY <1>2, <1>3, <1>9, <3>1, <3>2
  <2>2. CASE <<e, z>> # r
    <3>1. Reason(e, z) # "none" /\ z = "replay" => Tuple(e, "line")' = Tuple(e, "line")
      <4>1. SUFFICES ASSUME Reason(e, "replay") # "none", e = c, s = "line"
                     PROVE  FALSE
        BY <1>5, <1>9
      <4>2. QED
        BY <1>2, <1>9, <4>1
    <3>2. QED
      BY <1>9, <2>2, <3>1 DEF Sound
  <2>3. QED
    BY <2>1, <2>2
<1>11. \A e \in Smokes, z \in Steps : \A u, l :
         VerifiedIn(e, z, u, l) => VerifiedIn(e, z, u, l)'
  <2>1. "none" \notin Gate!Verified
    BY DEF Gate!Verified
  <2>2. QED
    BY <1>2, <1>5, <1>9, <2>1 DEF VerifiedIn
<1>12. CacheBacked'
  <2>1. ASSUME NEW u \in replayCache'
        PROVE  \E e \in Smokes, z \in Steps : VerifiedIn(e, z, u, n)'
    <3>1. CASE u \in replayCache
      BY <1>9, <1>11, <3>1 DEF CacheBacked
    <3>2. CASE u \notin replayCache
      <4>1. u = t /\ v \in Gate!Verified
        BY <1>1, <2>1, <3>2 DEF Gate!CacheAfter
      <4>2. VerifiedIn(c, s, u, n)'
        BY <1>9, <4>1 DEF VerifiedIn
      <4>3. QED
        BY <1>1, <4>2
    <3>3. QED
      BY <3>1, <3>2
  <2>2. QED
    BY <1>9, <2>1 DEF CacheBacked
<1>13. Detected'
  <2> SUFFICES ASSUME NEW e \in Smokes,
                      Reason(e, "replay")' = "replay_detected",
                      Reason(e, "line")' \in Gate!Verified
               PROVE  Behind(e)'
    BY DEF Detected
  <2>1. CASE <<e, "replay">> = r
    <3>1. e = c /\ s = "replay" /\ v = "replay_detected" /\ t \in replayCache
      BY <1>3, <1>5, <1>9, <2>1
    <3>2. /\ Reason(c, "line") \in Gate!Verified /\ t = Tuple(c, "line")
          /\ Tuple(c, "line")' = Tuple(c, "line") /\ Life(c, "line")' = Life(c, "line")
          /\ Life(c, "replay")' = n
      BY <1>2, <1>5, <1>9, <3>1
    <3>3. /\ Signature[t] = "valid" /\ t.kind \notin {"meta", "meta-other"}
          /\ Life(c, "line") \in 0 .. n
      <4>1. /\ Reason(c, "line") # "none" /\ "line" \in Steps
        BY <1>9, <3>2 DEF Gate!Verified
      <4>2. /\ Signature[t] = "valid" /\ t.kind = Kind(c, "line")
            /\ Life(c, "line") \in 0 .. n
        <5>1. /\ Signature[Tuple(c, "line")] = "valid"
              /\ Tuple(c, "line").kind = Kind(c, "line") /\ Life(c, "line") \in 0 .. life
          BY <3>2, <4>1 DEF Sound
        <5>2. QED
          BY <1>9, <3>2, <5>1
      <4>3. Kind(c, "line") \in {"line", "line-other"}
        BY DEF Kind, SignedWith
      <4>4. QED
        BY <4>2, <4>3
    <3>4. t.kind = "line"
      BY <1>2, <3>3 DEF Signature
    <3>5. PICK f \in Smokes, z \in Steps : VerifiedIn(f, z, t, n)
      BY <3>1 DEF CacheBacked
    <3>6. z \in {"line", "replay"}
      <4>1. Reason(f, z) # "none" /\ t = Tuple(f, z)
        BY <3>5 DEF VerifiedIn, Gate!Verified
      <4>2. Kind(f, z) = "line"
        BY <3>4, <4>1 DEF Sound
      <4>3. QED
        BY <4>2 DEF Kind, SignedWith, Steps
    <3>7. CASE Life(c, "line") = n
      <4>1. VerifiedIn(c, "line", t, n)
        BY <3>2, <3>7 DEF VerifiedIn
      <4>2. VerifiedIn(c, "line", t, n)'
        BY <1>9, <1>11, <4>1
      <4>3. QED
        BY <1>9, <3>1, <3>2, <4>2 DEF Behind, VerifiedIn
    <3>8. CASE Life(c, "line") # n
      <4>1. Life(c, "line") < n
        BY <1>9, <3>3, <3>8
      <4>2. VerifiedIn(f, z, t, n)'
        BY <1>11, <3>5
      <4>3. QED
        BY <1>9, <3>1, <3>2, <3>6, <4>1, <4>2 DEF Behind, VerifiedIn
    <3>9. QED
      BY <3>7, <3>8
  <2>2. CASE <<e, "replay">> # r
    <3>1. Reason(e, "replay") = "replay_detected"
      BY <1>9, <2>2
    <3>2. <<e, "line">> # r
      <4>1. SUFFICES ASSUME e = c, s = "line" PROVE FALSE
        BY <1>5, <1>9
      <4>2. QED
        BY <1>2, <3>1, <4>1
    <3>3. Behind(e)
      BY <1>9, <3>1, <3>2 DEF Detected
    <3>4. PICK f \in Smokes, z \in {"line", "replay"} :
            /\ VerifiedIn(f, z, Tuple(e, "line"), Life(e, "replay"))
            /\ f = e \/ Life(e, "line") < Life(e, "replay")
      BY <3>3 DEF Behind
    <3>5. /\ Tuple(e, "line")' = Tuple(e, "line") /\ Life(e, "line")' = Life(e, "line")
          /\ Life(e, "replay")' = Life(e, "replay")
          /\ VerifiedIn(f, z, Tuple(e, "line"), Life(e, "replay"))'
      BY <1>9, <1>11, <2>2, <3>2, <3>4
    <3>6. QED
      BY <3>4, <3>5 DEF Behind, VerifiedIn
  <2>3. QED
    BY <2>1, <2>2
<1>14. QED
  BY <1>6, <1>7, <1>8, <1>10, <1>12, <1>13

-----------------------------------------------------------------------------
(* IInv is inductive. *)
LEMMA Inductive == IInv /\ [Next]_vars => IInv'
<1> SUFFICES ASSUME IInv, [Next]_vars PROVE IInv'
  OBVIOUS
<1>1. CASE Tick
  BY <1>1, Ticking
<1>2. CASE Disturb
  <2>1. UNCHANGED ours
    BY <1>2 DEF Disturb
  <2>2. CASE Gate!Restart
    BY <2>1, <2>2, Restarting
  <2>3. ASSUME NEW c \in Smokes, NEW s \in Steps, Gate!RecordFails(<<c, s>>)
        PROVE  IInv'
    <3>1. <<c, s>> \in Requests
      BY DEF Requests
    <3>2. QED
      BY <2>1, <2>3, <3>1, Answering
  <2>4. QED
    BY <1>2, <2>2, <2>3 DEF Disturb
<1>3. ASSUME NEW c \in Smokes, Run(c) PROVE IInv'
  <2>1. CASE Skip(c) \/ Throw(c) \/ Conclude(c)
    BY <2>1, Ending
  <2>2. CASE Send(c)
    BY <2>2, Sending
  <2>3. CASE Arrive(c)
    BY <2>3, Deciding
  <2>4. CASE Handle(c)
    BY <2>4, Answering DEF Handle, Request, Requests
  <2>5. QED
    BY <1>3, <2>1, <2>2, <2>3, <2>4 DEF Run
<1>4. CASE UNCHANGED vars
  <2>1. UNCHANGED gate /\ UNCHANGED ours /\ UNCHANGED client
    BY <1>4 DEF vars, ours
  <2>2. Shaped'
    BY <2>1 DEF IInv, Shaped, gate, ours
  <2>3. Ordered' /\ Carrying'
    BY <2>1, SmokesStand DEF gate
  <2>4. QED
    BY <2>1, <2>2, <2>3, GateStands DEF IInv
<1>5. QED
  BY <1>1, <1>2, <1>3, <1>4 DEF Next

-----------------------------------------------------------------------------
(* Why a smoke fails                                                        *)

SetUp(c) == Ready(c) /\ client[c].pages # "unreachable"

(* A failed smoke was set up to run and got four answers, not all of them   *)
(* the expected ones.                                                       *)
Concluded ==
  \A c \in Smokes :
    /\ step[c] \in Steps \/ result[c] = "failed" => SetUp(c)
    /\ step[c] # "over" => \A s \in Past[step[c]] : answer[<<c, s>>] # "lost"
    /\ result[c] = "failed" =>
         /\ ~AsExpected(c)
         /\ \A s \in Steps : pc[<<c, s>>] = "done" /\ answer[<<c, s>>] # "lost"

(* Whoever is answered is told the decision, unless something broke.        *)
Told ==
  \A r \in Requests :
    /\ pc[r] # "idle" =>
         /\ decision[r].reason \in Gate!Reasons
         /\ decision[r].key = <<Provider[decision[r].tuple], "remote-present">>
    /\ pc[r] = "done" => answer[r] \in {decision[r].reason, "server_error", "lost"}

(* A request other than those in P that the limiter let through in the      *)
(* window of a key's bucket.                                                *)
LetThrough(r, k) ==
  /\ decision[r].reason \notin {"none", "rate_limited"}
  /\ decision[r].key = k /\ decision[r].life = life
  /\ buckets[k].resetAt - LimitWindow <= decision[r].at
Others(k, P) == \E r \in Requests \ P : LetThrough(r, k)

(* The first three requests a bucket counts are let through: no two of them *)
(* are all of them.                                                         *)
Filled ==
  /\ buckets \in [Gate!Keys -> [count : Nat, resetAt : Nat]]
  /\ \A k \in Gate!Keys :
       /\ buckets[k].resetAt <= now + LimitWindow
       /\ buckets[k].count > 0 => Others(k, {})
       /\ buckets[k].count > 1 => \A p \in Requests : Others(k, {p})
       /\ buckets[k].count > 2 => \A p, q \in Requests : Others(k, {p, q})

(* Somebody else had the same tuple verified, in the same life.             *)
TakenBy(c, s) ==
  \E d \in Smokes, z \in Steps :
    /\ VerifiedIn(d, z, Tuple(c, s), Life(c, s))
    /\ d = c => z \in Past[s]

CrowdedAt(c, s) ==
  \E z \in Steps, d \in Smokes \ {c} :
    /\ Reason(d, z) \notin {"none", "rate_limited"}
    /\ decision[<<d, z>>].key = decision[<<c, s>>].key
    /\ Life(d, z) = Life(c, s) /\ At(c, s) - At(d, z) < LimitWindow

(* What each refusal says of the environment, the request and the others.   *)
Grounded ==
  \A c \in Smokes, s \in Steps :
    LET v == Reason(c, s)
        t == Tuple(c, s)
    IN /\ v \notin {"signature_missing", "timestamp_missing_or_invalid"}
       /\ v = "rate_limited" => CrowdedAt(c, s)
       /\ v = "webhook_secret_not_configured" => Provider[t] \notin env.secrets
       /\ v = "signature_invalid" => Signature[t] = "invalid"
       /\ v = "replay_window_invalid" => env.window = 0
       /\ v \in {"timestamp_from_future", "timestamp_expired"} =>
            At(c, s) - t.at \notin -env.window .. env.window
       /\ v = "replay_detected" => TakenBy(c, s)
       /\ v = "verified_processing_enabled_not_wired" => env.processing
       /\ v \notin {"none", "rate_limited", "webhook_secret_not_configured",
                    "signature_invalid"} => Signature[t] = "valid"

(* What this life verified it still knows: a replay is verified only in     *)
(* another life than its line request.                                      *)
Remembered ==
  /\ \A c \in Smokes, s \in Steps :
       Reason(c, s) \in Gate!Verified /\ Life(c, s) = life => Tuple(c, s) \in replayCache
  /\ \A c \in Smokes :
       Reason(c, "line") \in Gate!Verified /\ Reason(c, "replay") \in Gate!Verified =>
         Life(c, "line") # Life(c, "replay")

(* The signed smoke has its gateway to itself.                              *)
Alone ==
  local =>
    /\ env = SmokeEnv /\ life = 0
    /\ \A c \in Smokes : client[c] = LocalClient
    /\ \A r \in Requests : answer[r] # "server_error"
    /\ \E e \in Smokes : \A d \in Smokes \ {e} :
         step[d] = "over" /\ result[d] # "failed" /\ \A s \in Steps : pc[<<d, s>>] = "idle"

CInv == Concluded /\ Told /\ Filled /\ Grounded /\ Remembered /\ Alone

LEMMA PastFacts ==
  /\ Past \in [{"plan"} \cup Steps -> SUBSET Steps]
  /\ \A s \in Steps : s \notin Past[s]
BY DEF Past, Steps

LEMMA CauseInitially == Init => CInv
<1> SUFFICES ASSUME Init PROVE CInv
  OBVIOUS
<1>1. /\ \A c \in Smokes : result[c] = "none" /\ step[c] \in {"plan", "over"}
      /\ \A r \in Requests :
           pc[r] = "idle" /\ answer[r] = "none" /\ decision[r] = Gate!NoDecision
  BY DEF Init, StagingInit, LocalInit, Gate!Init, Requests
<1>2. \A c \in Smokes, s \in Steps : <<c, s>> \in Requests /\ Reason(c, s) = "none"
  BY <1>1 DEF Requests, Reason, Gate!NoDecision
<1>3. Concluded
  <2>1. Past["plan"] = {} /\ "plan" \notin Steps /\ "over" \notin Steps
    BY DEF Past, Steps
  <2>2. QED
    BY <1>1, <2>1 DEF Concluded
<1>4. Told
  BY <1>1 DEF Told
<1>5. Filled
  <2>1. buckets = [k \in Gate!Keys |-> [count |-> 0, resetAt |-> 0]]
    BY DEF Init, StagingInit, LocalInit, Gate!Init, Gate!NoBucket
  <2>2. now = 0 /\ LimitWindow \in Nat
    BY SmokeAssumption DEF Init, StagingInit, LocalInit, Gate!Init
  <2>3. QED
    BY <2>1, <2>2 DEF Filled
<1>6. Grounded
  BY <1>2 DEF Grounded
<1>7. Remembered
  BY <1>2 DEF Remembered, Gate!Verified, Steps
<1>8. Alone
  <2> SUFFICES ASSUME local PROVE Alone
    BY DEF Alone
  <2>1. LocalInit
    BY DEF Init, StagingInit
  <2>2. PICK e \in Smokes : step = [d \in Smokes |-> IF d = e THEN "plan" ELSE "over"]
    BY <2>1 DEF LocalInit
  <2>3. \A d \in Smokes \ {e} :
          step[d] = "over" /\ result[d] # "failed" /\ \A s \in Steps : pc[<<d, s>>] = "idle"
    BY <1>1, <1>2, <2>2
  <2>4. env = SmokeEnv /\ life = 0 /\ \A c \in Smokes : client[c] = LocalClient
    BY <2>1 DEF LocalInit, Gate!Init
  <2>5. QED
    BY <1>1, <2>3, <2>4 DEF Alone
<1>9. QED
  BY <1>3, <1>4, <1>5, <1>6, <1>7, <1>8 DEF CInv

(* What a decision says of its time stays true. *)
LEMMA GroundsStand ==
  ASSUME IInv, CInv, decision' = decision, env' = env,
         (replayCache' = replayCache /\ life' = life) \/ life' = life + 1
  PROVE  Grounded' /\ Remembered'
<1>1. Grounded'
  <2>1. \A c \in Smokes, s \in Steps :
          CrowdedAt(c, s) => CrowdedAt(c, s)'
    BY DEF CrowdedAt, Reason, Life, At
  <2>2. \A c \in Smokes, s \in Steps : TakenBy(c, s) => TakenBy(c, s)'
    BY DEF TakenBy, VerifiedIn, Reason, Tuple, Life, Past
  <2>3. QED
    <3>1. \A c \in Smokes, s \in Steps :
            Reason(c, s)' = Reason(c, s) /\ Tuple(c, s)' = Tuple(c, s) /\ At(c, s)' = At(c, s)
      BY DEF Reason, Tuple, At
    <3>2. Grounded /\ env' = env
      BY DEF CInv
    <3>3. QED
      BY ONLY <2>1, <2>2, <3>1, <3>2 DEF Grounded, Provider, Signature, Tuples
<1>2. Remembered'
  <2>1. \A c \in Smokes, s \in Steps :
          Reason(c, s) \in Gate!Verified /\ Life(c, s) = life' => life' = life
    <3>1. "none" \notin Gate!Verified /\ life \in Nat
      BY DEF Gate!Verified, IInv, Shaped
    <3>2. \A c \in Smokes, s \in Steps : Reason(c, s) # "none" => Life(c, s) \in 0 .. life
      BY DEF IInv, Sound
    <3>3. QED
      BY <3>1, <3>2
  <2>2. life' = life => replayCache' = replayCache
    BY DEF IInv, Shaped
  <2>3. QED
    BY <2>1, <2>2 DEF CInv, Remembered, Reason, Tuple, Life
<1>3. QED
  BY <1>1, <1>2

LEMMA BucketsStand ==
  ASSUME IInv, CInv, decision' = decision, buckets' = buckets, life' = life,
         now' \in Int, now <= now'
  PROVE  Filled'
<1>1. \A k, P : Others(k, P) => Others(k, P)'
  BY DEF Others, LetThrough
<1>2. now \in Int /\ LimitWindow \in Nat
  BY SmokeAssumption DEF IInv, Shaped
<1>3. \A k \in Gate!Keys : buckets[k].resetAt \in Nat /\ buckets[k].resetAt <= now + LimitWindow
  BY DEF CInv, Filled
<1>4. \A k \in Gate!Keys : buckets[k].resetAt <= now' + LimitWindow
  BY <1>2, <1>3
<1>5. QED
  BY <1>1, <1>4 DEF CInv, Filled

(* A step of the clients alone. *)
LEMMA CauseStands ==
  ASSUME IInv, CInv, UNCHANGED gate
  PROVE  Told' /\ Filled' /\ Grounded' /\ Remembered'
<1>1. Told'
  BY DEF CInv, Told, gate
<1>2. now \in Int
  BY DEF IInv, Shaped
<1>3. QED
  BY <1>1, <1>2, GroundsStand, BucketsStand DEF gate

(* A step of the gate alone that lets nobody be answered "lost". *)
LEMMA EndsStand ==
  ASSUME IInv, CInv, UNCHANGED ours,
         \A r \in Requests : pc[r] = "done" => pc'[r] = "done" /\ answer'[r] = answer[r]
  PROVE  Concluded'
<1>1. \A c \in Smokes, s \in Steps : <<c, s>> \in Requests
  BY DEF Requests
<1>2. \A c \in Smokes : SetUp(c)' = SetUp(c)
  BY DEF Ready, SetUp, ours
<1>3. \A c \in Smokes : (\A s \in Steps : pc[<<c, s>>] = "done") => AsExpected(c)' = AsExpected(c)
  BY <1>1 DEF AsExpected, Steps, ours
<1>4. \A c \in Smokes : step[c] # "over" => \A s \in Past[step[c]] : s \in Steps /\ pc[<<c, s>>] = "done"
  BY PastFacts DEF IInv, Ordered, Shaped
<1>5. Past' = Past
  BY DEF Past
<1>6. step' = step /\ result' = result
  BY DEF ours
<1>7. QED
  BY <1>1, <1>2, <1>3, <1>4, <1>5, <1>6 DEF CInv, Concluded

LEMMA CauseEnding ==
  ASSUME IInv, CInv, NEW c \in Smokes, Skip(c) \/ Throw(c) \/ Conclude(c)
  PROVE  CInv'
<1>1. /\ UNCHANGED <<gate, local, client, sent>>
      /\ step' = [step EXCEPT ![c] = "over"]
      /\ \E x : /\ result' = [result EXCEPT ![c] = x]
                /\ x = "failed" =>
                     /\ step[c] = "meta" /\ ~AsExpected(c)
                     /\ pc[Request(c)] = "done" /\ answer[Request(c)] # "lost"
  BY DEF Skip, Throw, Conclude, Answered
<1>2. PICK x : /\ result' = [result EXCEPT ![c] = x]
               /\ x = "failed" =>
                    /\ step[c] = "meta" /\ ~AsExpected(c)
                    /\ pc[Request(c)] = "done" /\ answer[Request(c)] # "lost"
  BY <1>1
<1>3. x = "failed" => /\ SetUp(c)
                      /\ \A s \in Steps : pc[<<c, s>>] = "done" /\ answer[<<c, s>>] # "lost"
  <2> SUFFICES ASSUME x = "failed" PROVE SetUp(c) /\ \A s \in Steps : pc[<<c, s>>] = "done" /\ answer[<<c, s>>] # "lost"
    OBVIOUS
  <2>1. /\ step[c] = "meta" /\ Request(c) = <<c, "meta">>
        /\ pc[<<c, "meta">>] = "done" /\ answer[<<c, "meta">>] # "lost"
    BY <1>2 DEF Request
  <2>2. \A s \in {"line", "replay", "bad"} : pc[<<c, s>>] = "done" /\ answer[<<c, s>>] # "lost"
    BY <2>1 DEF IInv, Ordered, CInv, Concluded, Past
  <2>3. SetUp(c)
    BY <2>1 DEF CInv, Concluded, Steps
  <2>4. QED
    BY <2>1, <2>2, <2>3 DEF Steps
<1>4. Concluded'
  <2> SUFFICES ASSUME NEW d \in Smokes
               PROVE  /\ step'[d] \in Steps \/ result'[d] = "failed" => SetUp(d)'
                      /\ step'[d] # "over" =>
                           \A s \in Past[step'[d]] : answer'[<<d, s>>] # "lost"
                      /\ result'[d] = "failed" =>
                           /\ ~AsExpected(d)'
                           /\ \A s \in Steps : pc'[<<d, s>>] = "done" /\ answer'[<<d, s>>] # "lost"
    BY DEF Concluded, Past
  <2>1. /\ AsExpected(d)' = AsExpected(d) /\ SetUp(d)' = SetUp(d)
        /\ pc' = pc /\ answer' = answer
    BY <1>1 DEF AsExpected, gate, Ready, SetUp
  <2>2. CASE d = c
    <3>1. step'[d] = "over" /\ result'[d] = x /\ "over" \notin Steps
      BY <1>1, <1>2, <2>2 DEF IInv, Shaped, Steps
    <3>2. QED
      BY <1>2, <1>3, <2>1, <2>2, <3>1
  <2>3. CASE d # c
    <3>1. step'[d] = step[d] /\ result'[d] = result[d]
      BY <1>1, <1>2, <2>3 DEF IInv, Shaped
    <3>2. QED
      BY <2>1, <3>1 DEF CInv, Concluded
  <2>4. QED
    BY <2>2, <2>3
<1>5. Alone'
  <2> SUFFICES ASSUME local' PROVE Alone'
    BY DEF Alone
  <2>1. local /\ env' = env /\ life' = life /\ client' = client /\ answer' = answer /\ pc' = pc
    BY <1>1 DEF gate
  <2>2. PICK e \in Smokes : \A d \in Smokes \ {e} :
          step[d] = "over" /\ result[d] # "failed" /\ \A s \in Steps : pc[<<d, s>>] = "idle"
    BY <2>1 DEF CInv, Alone
  <2>3. \A d \in Smokes \ {e} : step'[d] = "over" /\ result'[d] # "failed"
    <3>1. step[c] = "over" => x # "failed"
      BY <1>2
    <3>2. QED
      BY <1>1, <1>2, <2>2, <3>1 DEF IInv, Shaped
  <2>4. QED
    BY <2>1, <2>2, <2>3 DEF CInv, Alone, SmokeEnv, LocalClient
<1>6. QED
  BY <1>1, <1>4, <1>5, CauseStands DEF CInv

LEMMA CauseSending ==
  ASSUME IInv, CInv, NEW c \in Smokes, Send(c)
  PROVE  CInv'
<1> DEFINE s == After[step[c]]
<1>1. /\ UNCHANGED <<gate, local, client, result>>
      /\ step' = [step EXCEPT ![c] = s]
      /\ step[c] \in {"plan", "line", "replay", "bad"} /\ s \in Steps
      /\ step[c] = "plan" => SetUp(c)
      /\ step[c] # "plan" => answer[<<c, step[c]>>] # "lost"
  BY DEF Send, After, Steps, Answered, Request, IInv, Shaped, SetUp
<1>2. Past[s] = IF step[c] = "plan" THEN {} ELSE Past[step[c]] \cup {step[c]}
  BY <1>1 DEF After, Past
<1>3. SetUp(c) /\ \A z \in Past[s] : answer[<<c, z>>] # "lost"
  BY <1>1, <1>2 DEF CInv, Concluded, Steps
<1>4. Concluded'
  <2> SUFFICES ASSUME NEW d \in Smokes
               PROVE  /\ step'[d] \in Steps \/ result'[d] = "failed" => SetUp(d)'
                      /\ step'[d] # "over" =>
                           \A z \in Past[step'[d]] : answer'[<<d, z>>] # "lost"
                      /\ result'[d] = "failed" =>
                           /\ ~AsExpected(d)'
                           /\ \A z \in Steps : pc'[<<d, z>>] = "done" /\ answer'[<<d, z>>] # "lost"
    BY DEF Concluded, Past
  <2>1. /\ AsExpected(d)' = AsExpected(d) /\ SetUp(d)' = SetUp(d)
        /\ pc' = pc /\ answer' = answer /\ result' = result
    BY <1>1 DEF AsExpected, gate, Ready, SetUp
  <2>2. CASE d = c
    <3>1. step'[d] = s
      BY <1>1, <2>2 DEF IInv, Shaped
    <3>2. QED
      BY <1>3, <2>1, <2>2, <3>1 DEF CInv, Concluded
  <2>3. CASE d # c
    <3>1. step'[d] = step[d]
      BY <1>1, <2>3 DEF IInv, Shaped
    <3>2. QED
      BY <2>1, <3>1 DEF CInv, Concluded
  <2>4. QED
    BY <2>2, <2>3
<1>5. Alone'
  <2>1. step[c] # "over"
    BY <1>1
  <2>2. \A d \in Smokes : step[d] = "over" => step'[d] = "over"
    BY <1>1, <2>1 DEF IInv, Shaped
  <2>3. QED
    BY <1>1, <2>2 DEF CInv, Alone, gate, SmokeEnv, LocalClient
<1>6. QED
  BY <1>1, <1>4, <1>5, CauseStands DEF CInv

LEMMA CauseAnswering ==
  ASSUME IInv, CInv, NEW r \in Requests,
         Gate!RecordDecision(r) \/ Gate!Respond(r) \/ (~local /\ Gate!RecordFails(r)),
         UNCHANGED ours
  PROVE  CInv'
<1>1. /\ UNCHANGED <<env, life, now, replayCache, decision, buckets>>
      /\ pc[r] \in {"audit", "answer"}
      /\ \E x \in {"answer", "done"} : pc' = [pc EXCEPT ![r] = x]
      /\ \A q \in Requests \ {r} : pc'[q] = pc[q] /\ answer'[q] = answer[q]
  BY DEF Gate!RecordDecision, Gate!Respond, Gate!RecordFails, Gate!process,
         Gate!CacheAfterFault, Gate!Answerable, IInv, Shaped
<1>2. /\ pc'[r] = "done" => answer'[r] \in {decision[r].reason, "server_error"}
      /\ answer'[r] = "server_error" => ~local \/ answer[r] = "server_error"
  <2>1. decision[r].reason # "server_error"
    BY <1>1 DEF CInv, Told, Gate!Reasons, Gate!Verified
  <2>2. CASE Gate!RecordDecision(r)
    BY <2>2 DEF Gate!RecordDecision, IInv, Shaped
  <2>3. CASE Gate!Respond(r)
    BY <2>1, <2>3 DEF Gate!Respond, IInv, Shaped
  <2>4. CASE ~local /\ Gate!RecordFails(r)
    BY <2>4 DEF Gate!RecordFails, IInv, Shaped
  <2>5. QED
    BY <2>2, <2>3, <2>4
<1>3. Told'
  BY <1>1, <1>2 DEF CInv, Told
<1>4. Filled' /\ Grounded' /\ Remembered'
  BY <1>1, GroundsStand, BucketsStand DEF IInv, Shaped
<1>5. Concluded'
  BY <1>1, EndsStand
<1>6. Alone'
  <2> SUFFICES ASSUME local' PROVE Alone'
    BY DEF Alone
  <2>1. /\ local /\ env' = env /\ life' = life /\ client' = client
        /\ step' = step /\ result' = result
    BY <1>1 DEF ours
  <2>2. \A q \in Requests : pc[q] = "idle" => pc'[q] = "idle"
    BY <1>1
  <2>3. \A q \in Requests : answer'[q] # "server_error"
    BY <1>1, <1>2, <2>1 DEF CInv, Alone
  <2>4. PICK e \in Smokes : \A d \in Smokes \ {e} :
          step[d] = "over" /\ result[d] # "failed" /\ \A s \in Steps : pc[<<d, s>>] = "idle"
    BY <2>1 DEF CInv, Alone
  <2>5. \A d \in Smokes \ {e} : \A s \in Steps : pc'[<<d, s>>] = "idle"
    BY <2>2, <2>4 DEF Requests
  <2>6. QED
    BY <2>1, <2>3, <2>4, <2>5 DEF CInv, Alone, SmokeEnv, LocalClient
<1>7. QED
  BY <1>3, <1>4, <1>5, <1>6 DEF CInv

LEMMA CauseRestarting ==
  ASSUME IInv, CInv, Gate!Restart, ~local, UNCHANGED ours
  PROVE  CInv'
<1> DEFINE cut == {r \in Requests : pc[r] \in {"audit", "answer"}}
<1>1. /\ env' = env /\ now' = now /\ decision' = decision
      /\ life' = life + 1 /\ replayCache' = {}
      /\ buckets' = [k \in Gate!Keys |-> [count |-> 0, resetAt |-> 0]]
      /\ pc' = [r \in Requests |-> IF r \in cut THEN "done" ELSE pc[r]]
      /\ answer' = [r \in Requests |-> IF r \in cut THEN "lost" ELSE answer[r]]
  BY DEF Gate!Restart, Gate!CacheAfterRestart, Gate!NoBucket, Requests
<1>2. Told'
  BY <1>1 DEF CInv, Told
<1>3. Grounded' /\ Remembered'
  BY <1>1, GroundsStand
<1>4. Filled'
  <2>1. now \in Nat /\ LimitWindow \in Nat
    BY SmokeAssumption DEF IInv, Shaped
  <2>2. Gate!Keys' = Gate!Keys
    BY DEF Gate!Keys, Provider, Tuples
  <2>3. QED
    BY <1>1, <2>1, <2>2 DEF Filled
<1>5. Concluded'
  BY <1>1, EndsStand
<1>6. Alone'
  BY DEF Alone, ours
<1>7. QED
  BY <1>2, <1>3, <1>4, <1>5, <1>6 DEF CInv

LEMMA CauseTicking ==
  ASSUME IInv, CInv, Tick
  PROVE  CInv'
<1>1. /\ UNCHANGED <<env, life, buckets, replayCache, pc, decision, answer, ours>>
      /\ now' = now + 1
  BY DEF Tick, Gate!Tick, Gate!process
<1>2. Told'
  BY <1>1 DEF CInv, Told
<1>3. Filled' /\ Grounded' /\ Remembered'
  BY <1>1, GroundsStand, BucketsStand DEF IInv, Shaped
<1>4. Concluded'
  BY <1>1, EndsStand
<1>5. Alone'
  BY <1>1 DEF CInv, Alone, ours, SmokeEnv, LocalClient
<1>6. QED
  BY <1>2, <1>3, <1>4, <1>5 DEF CInv

-----------------------------------------------------------------------------
(* The gate decides a request: why it refuses it.                           *)

(* What the verdict on a smoke's request says. *)
LEMMA VerdictGrounds ==
  ASSUME IInv, CInv, NEW t \in Tuples, NEW k \in Gate!Keys,
         k = <<Provider[t], "remote-present">>,
         NEW v, v = Gate!Verdict(t, k)
  PROVE  /\ v \in Gate!Reasons
         /\ v \notin {"signature_missing", "timestamp_missing_or_invalid"}
         /\ v = "rate_limited" <=> Gate!Hit(k).count > Limit
         /\ v = "webhook_secret_not_configured" => Provider[t] \notin env.secrets
         /\ v = "signature_invalid" => Signature[t] = "invalid"
         /\ v = "replay_window_invalid" => env.window = 0
         /\ v \in {"timestamp_from_future", "timestamp_expired"} =>
              now - t.at \notin -env.window .. env.window
         /\ v = "replay_detected" \/ v \in Gate!Verified => Signature[t] = "valid"
         /\ v = "replay_detected" => t \in replayCache
         /\ v \in Gate!Verified => t \notin replayCache
         /\ v = "verified_processing_enabled_not_wired" => env.processing
         /\ v \notin {"none", "rate_limited", "webhook_secret_not_configured",
                      "signature_invalid"} => Signature[t] = "valid"
<1>1. /\ t.at \in Int /\ now \in Int /\ env.window \in Nat /\ Stamp[t] = t.at
      /\ Stamp[t] # NoStamp
  BY SmokeAssumption DEF Tuples, Stamp, IInv, Shaped
<1>2. Gate!TooFar(t) => now - t.at \notin -env.window .. env.window
  BY <1>1 DEF Gate!TooFar, Gate!Skew
<1>3. Signature[t] \in {"valid", "invalid"}
  BY DEF Signature
<1>4. Gate!UnderLimit(k) <=> ~(Gate!Hit(k).count > Limit)
  <2>1. buckets[k] \in [count : Nat, resetAt : Nat]
    BY DEF CInv, Filled
  <2>2. Gate!Hit(k).count \in Int
    BY <2>1 DEF Gate!Hit
  <2>3. QED
    BY <2>2, SmokeAssumption DEF Gate!UnderLimit
<1>5. QED
  BY <1>1, <1>2, <1>3, <1>4 DEF Gate!Verdict, Gate!Verified, Gate!Reasons

(* A decision fills its bucket, or is refused by a full one. *)
LEMMA HitFills ==
  ASSUME IInv, CInv, NEW k \in Gate!Keys, NEW r \in Requests,
         decision[r].reason = "none", NEW v, v \in Gate!Reasons,
         v = "rate_limited" <=> Gate!Hit(k).count > Limit,
         buckets' = [buckets EXCEPT ![k] = Gate!Hit(k)], life' = life, now' = now,
         \A q \in Requests \ {r} : decision'[q] = decision[q],
         decision'[r].reason = v, decision'[r].key = k, decision'[r].life = life,
         decision'[r].at = now
  PROVE  Filled'
<1>1. /\ now \in Nat /\ LimitWindow \in Nat \ {0} /\ Limit \in Nat /\ Limit >= 3
      /\ buckets \in [Gate!Keys -> [count : Nat, resetAt : Nat]]
  BY SmokeAssumption DEF IInv, Shaped, CInv, Filled
<1>2. /\ buckets[k].count \in Nat /\ buckets[k].resetAt \in Nat
      /\ buckets[k].resetAt <= now + LimitWindow
      /\ buckets[k] = [count |-> buckets[k].count, resetAt |-> buckets[k].resetAt]
  BY <1>1 DEF CInv, Filled
<1>3. \/ /\ Gate!Hit(k) = [count |-> 1, resetAt |-> now + LimitWindow]
      \/ /\ Gate!Hit(k) = [count |-> buckets[k].count + 1, resetAt |-> buckets[k].resetAt]
  BY <1>2 DEF Gate!Hit
<1>4. /\ Gate!Keys' = Gate!Keys /\ Requests' = Requests
      /\ buckets' \in [Gate!Keys -> [count : Nat, resetAt : Nat]]
      /\ buckets'[k] = Gate!Hit(k) /\ \A j \in Gate!Keys \ {k} : buckets'[j] = buckets[j]
  <2>1. Gate!Keys' = Gate!Keys /\ Requests' = Requests
    BY DEF Gate!Keys, Provider, Tuples, Requests
  <2>2. Gate!Hit(k) \in [count : Nat, resetAt : Nat]
    BY <1>1, <1>2, <1>3
  <2>3. QED
    BY <1>1, <2>1, <2>2
<1>5. v # "none"
  BY DEF Gate!Reasons, Gate!Verified
<1>6. \A j \in Gate!Keys : \A q \in Requests :
        LetThrough(q, j) /\ buckets'[j].resetAt = buckets[j].resetAt => LetThrough(q, j)' /\ q # r
  BY <1>5 DEF LetThrough
<1>7. Gate!Hit(k).count <= 3 => LetThrough(r, k)'
  <2>1. SUFFICES ASSUME Gate!Hit(k).count <= 3 PROVE LetThrough(r, k)'
    OBVIOUS
  <2>2. ~(Gate!Hit(k).count > Limit) /\ Gate!Hit(k).resetAt - LimitWindow <= now
    BY <1>1, <1>2, <1>3, <2>1
  <2>3. QED
    BY <1>4, <1>5, <2>2 DEF LetThrough
<1>8. \A j \in Gate!Keys \ {k} : \A P : Others(j, P) => Others(j, P)'
  BY <1>4, <1>6 DEF Others
<1>9. \A P : /\ Gate!Hit(k).resetAt = buckets[k].resetAt /\ Others(k, P)
                  => Others(k, P)' /\ Others(k, P \cup {r})'
             /\ Gate!Hit(k).count <= 3 /\ r \notin P => Others(k, P)'
  BY <1>4, <1>6, <1>7 DEF Others
<1> DEFINE n == Gate!Hit(k).count
<1>10. /\ Gate!Hit(k).resetAt <= now + LimitWindow
       /\ n > 0 => Others(k, {})'
       /\ n > 1 => \A p \in Requests : Others(k, {p})'
       /\ n > 2 => \A p, q \in Requests : Others(k, {p, q})'
  <2>1. CASE Gate!Hit(k) = [count |-> 1, resetAt |-> now + LimitWindow]
    <3>1. n = 1 /\ Gate!Hit(k).resetAt = now + LimitWindow
      BY <2>1
    <3>2. Others(k, {})'
      <4>1. n <= 3 /\ r \notin {}
        BY <3>1
      <4>2. QED
        BY <1>9, <4>1
    <3> HIDE DEF n
    <3>3. QED
      BY <1>1, <3>1, <3>2
  <2>2. CASE Gate!Hit(k) = [count |-> buckets[k].count + 1, resetAt |-> buckets[k].resetAt]
    <3>1. /\ buckets[k].count > 0 => Others(k, {})
          /\ buckets[k].count > 1 => \A p \in Requests : Others(k, {p})
          /\ buckets[k].count > 2 => \A p, q \in Requests : Others(k, {p, q})
      BY DEF CInv, Filled
    <3>2. n = buckets[k].count + 1 /\ Gate!Hit(k).resetAt = buckets[k].resetAt
      BY <2>2
    <3> HIDE DEF n
    <3>3. Others(k, {})'
      <4>1. CASE buckets[k].count > 0
        BY <1>9, <3>1, <3>2, <4>1
      <4>2. CASE buckets[k].count = 0
        <5>1. n <= 3 /\ r \notin {}
          BY <3>2, <4>2
        <5>2. QED
          BY <1>9, <5>1 DEF n
      <4>3. QED
        BY <1>2, <4>1, <4>2
    <3>4. n > 1 => \A p \in Requests : Others(k, {p})'
      <4> SUFFICES ASSUME n > 1, NEW p \in Requests PROVE Others(k, {p})'
        OBVIOUS
      <4>1. CASE p = r
        <5>1. Others(k, {}) /\ {p} = {} \cup {r}
          BY <1>2, <3>1, <3>2, <4>1
        <5>2. QED
          BY <1>9, <3>2, <5>1
      <4>2. CASE p # r /\ n <= 3
        BY <1>9, <4>2 DEF n
      <4>3. CASE n > 3
        <5>1. buckets[k].count > 1
          BY <1>2, <3>2, <4>3
        <5>2. Others(k, {p})
          BY <3>1, <5>1
        <5>3. QED
          BY <1>9, <3>2, <5>2
      <4>4. QED
        BY <1>2, <3>2, <4>1, <4>2, <4>3
    <3>5. n > 2 => \A p, q \in Requests : Others(k, {p, q})'
      <4> SUFFICES ASSUME n > 2, NEW p \in Requests, NEW q \in Requests
                   PROVE  Others(k, {p, q})'
        OBVIOUS
      <4>1. CASE p = r
        <5>1. Others(k, {q}) /\ {p, q} = {q} \cup {r}
          BY <1>2, <3>1, <3>2, <4>1
        <5>2. QED
          BY <1>9, <3>2, <5>1
      <4>2. CASE q = r
        <5>1. Others(k, {p}) /\ {p, q} = {p} \cup {r}
          BY <1>2, <3>1, <3>2, <4>2
        <5>2. QED
          BY <1>9, <3>2, <5>1
      <4>3. CASE p # r /\ q # r /\ n <= 3
        BY <1>9, <4>3 DEF n
      <4>4. CASE n > 3
        <5>1. buckets[k].count > 2
          BY <1>2, <3>2, <4>4
        <5>2. Others(k, {p, q})
          BY <3>1, <5>1
        <5>3. QED
          BY <1>9, <3>2, <5>2
      <4>5. QED
        BY <1>2, <3>2, <4>1, <4>2, <4>3, <4>4
    <3>6. QED
      BY <1>2, <3>2, <3>3, <3>4, <3>5
  <2>3. QED
    BY <1>3, <2>1, <2>2
<1>11. QED
  BY <1>4, <1>8, <1>10 DEF CInv, Filled

(* Only the last request of a smoke is one to Meta. *)
LEMMA KindProvider ==
  ASSUME NEW c \in Smokes, NEW s \in Steps, NEW t \in Tuples, t.kind = Kind(c, s)
  PROVE  /\ Provider[t] = IF s = "meta" THEN "meta" ELSE "line"
         /\ s = "bad" => Signature[t] = "invalid"
<1>1. /\ s = "meta" => Kind(c, s) \in {"meta", "meta-other"}
      /\ s = "bad" => Kind(c, s) = "bad"
      /\ s # "meta" => Kind(c, s) \in {"line", "line-other", "bad"}
  BY DEF Kind, SignedWith, Steps
<1>2. QED
  BY <1>1 DEF Provider, Signature

(* Two requests that meet in a bucket: of those a smoke sends with one key, *)
(* no more than three, one is another smoke's.                              *)
LEMMA RefusedIsCrowded ==
  ASSUME IInv, CInv, NEW c \in Smokes, NEW s \in Steps, NEW t \in Tuples,
         t.kind = Kind(c, s), Reason(c, s) = "none",
         NEW k, k = <<Provider[t], "remote-present">>, k \in Gate!Keys,
         Gate!Hit(k).count > Limit
  PROVE  \E z \in Steps, d \in Smokes \ {c} :
           /\ Reason(d, z) \notin {"none", "rate_limited"}
           /\ decision[<<d, z>>].key = k
           /\ Life(d, z) = life /\ now - At(d, z) < LimitWindow
<1>1. /\ now \in Nat /\ LimitWindow \in Nat \ {0} /\ Limit \in Nat /\ Limit >= 3
      /\ buckets[k] \in [count : Nat, resetAt : Nat]
  BY SmokeAssumption DEF IInv, Shaped, CInv, Filled
<1>2. buckets[k].count > 2 /\ now < buckets[k].resetAt
  BY <1>1 DEF Gate!Hit, Gate!Expired
<1>3. PICK a, b \in {"line", "replay", "bad"} :
        s = "meta" \/ {"line", "replay", "bad"} \subseteq {a, b, s}
  <2>1. CASE s = "line"
    BY <2>1
  <2>2. CASE s = "replay"
    BY <2>2
  <2>3. CASE s = "bad"
    BY <2>3
  <2>4. CASE s = "meta"
    BY <2>4
  <2>5. QED
    BY <2>1, <2>2, <2>3, <2>4 DEF Steps
<1>4. PICK r \in Requests \ {<<c, a>>, <<c, b>>} : LetThrough(r, k)
  <2>1. <<c, a>> \in Requests /\ <<c, b>> \in Requests
    BY DEF Requests, Steps
  <2>2. Others(k, {<<c, a>>, <<c, b>>})
    BY <1>2, <2>1 DEF CInv, Filled
  <2>3. QED
    BY <2>2 DEF Others
<1>5. PICK d \in Smokes, z \in Steps : r = <<d, z>>
  BY DEF Requests
<1>6. /\ Reason(d, z) \notin {"none", "rate_limited"}
      /\ decision[<<d, z>>].key = k /\ Life(d, z) = life
      /\ buckets[k].resetAt - LimitWindow <= At(d, z)
  BY <1>4, <1>5 DEF LetThrough, Reason, Life, At
<1>7. now - At(d, z) < LimitWindow
  <2>1. At(d, z) \in 0 .. MaxTime /\ MaxTime \in Nat
    BY <1>6, SmokeAssumption DEF IInv, Sound
  <2>2. QED
    BY <1>1, <1>2, <1>6, <2>1
<1>8. d # c
  <2> SUFFICES ASSUME d = c PROVE FALSE
    OBVIOUS
  <2>1. z # s /\ Tuple(c, z) \in Tuples /\ Tuple(c, z).kind = Kind(c, z)
    BY <1>6 DEF IInv, Sound
  <2>2. k = <<Provider[Tuple(c, z)], "remote-present">>
    <3>1. pc[<<c, z>>] # "idle" /\ <<c, z>> \in Requests
      BY <1>6 DEF IInv, Sound, Reason, Gate!NoDecision, Requests
    <3>2. QED
      BY <1>6, <3>1 DEF CInv, Told, Tuple
  <2>3. Provider[Tuple(c, z)] = Provider[t]
    BY <2>2
  <2>4. z = "meta" <=> s = "meta"
    BY <2>1, <2>3, KindProvider
  <2>5. z \in {"line", "replay", "bad"} => z = a \/ z = b
    BY <1>3, <2>1, <2>4
  <2>6. QED
    BY <1>4, <1>5, <2>1, <2>4, <2>5 DEF Steps
<1>9. QED
  BY <1>6, <1>7, <1>8

LEMMA CauseDeciding ==
  ASSUME IInv, CInv, NEW c \in Smokes, Arrive(c)
  PROVE  CInv'
<1> PICK s : s = step[c]
  OBVIOUS
<1> PICK t : t = sent[c]
  OBVIOUS
<1> PICK k : k = <<Provider[t], "remote-present">>
  OBVIOUS
<1> PICK v : v = Gate!Verdict(t, k)
  OBVIOUS
<1> PICK n : n = life
  OBVIOUS
<1> PICK m : m = now
  OBVIOUS
<1> PICK d : d = [tuple |-> t, reason |-> v, at |-> m, key |-> k, life |-> n]
  OBVIOUS
<1> PICK r : r = <<c, s>>
  OBVIOUS
<1>1. /\ s \in Steps /\ r \in Requests /\ pc[r] = "idle"
      /\ replayCache' = Gate!CacheAfter(t, v)
      /\ UNCHANGED <<env, life, now, audits, answer, faults, ours>>
      /\ decision[r] = Gate!NoDecision /\ Reason(c, s) = "none"
      /\ \A z \in Steps \ (Past[s] \cup {s}) : Reason(c, z) = "none"
      /\ t \in Tuples /\ t.kind = Kind(c, s)
      /\ s = "replay" => t = Tuple(c, "line")
      /\ s = "line" => Reason(c, "replay") = "none"
      /\ \A q \in Requests \ {r} : decision'[q] = decision[q] /\ pc'[q] = pc[q]
      /\ decision'[r] = d /\ pc'[r] = "audit"
  <2>1. r \in Requests /\ s \in Steps /\ pc[r] = "idle"
    BY DEF Arrive, Gate!Evaluate, Request, Requests
  <2>2. /\ pc' = [pc EXCEPT ![r] = "audit"]
        /\ decision' = [decision EXCEPT ![r] = d]
        /\ replayCache' = Gate!CacheAfter(t, v)
        /\ UNCHANGED <<env, life, now, audits, answer, faults, ours>>
    BY DEF Arrive, Gate!Evaluate, Gate!process, Request
  <2>3. /\ decision[r] = Gate!NoDecision /\ Reason(c, s) = "none"
        /\ \A z \in Steps \ (Past[s] \cup {s}) : Reason(c, z) = "none"
        /\ t \in Tuples /\ t.kind = Kind(c, s)
        /\ s = "replay" => t = Tuple(c, "line")
        /\ s = "line" => Reason(c, "replay") = "none"
    BY <2>1, Undecided
  <2>4. /\ \A q \in Requests \ {r} : decision'[q] = decision[q] /\ pc'[q] = pc[q]
        /\ decision'[r] = d /\ pc'[r] = "audit"
    BY <2>1, <2>2 DEF IInv, Shaped
  <2>5. QED
    BY <2>1, <2>2, <2>3, <2>4
<1>2. k \in Gate!Keys /\ buckets' = [buckets EXCEPT ![k] = Gate!Hit(k)]
  BY <1>1 DEF Arrive, Gate!Evaluate, Gate!Keys
<1>3. /\ v \in Gate!Reasons
      /\ v \notin {"signature_missing", "timestamp_missing_or_invalid"}
      /\ v = "rate_limited" <=> Gate!Hit(k).count > Limit
      /\ v = "webhook_secret_not_configured" => Provider[t] \notin env.secrets
      /\ v = "signature_invalid" => Signature[t] = "invalid"
      /\ v = "replay_window_invalid" => env.window = 0
      /\ v \in {"timestamp_from_future", "timestamp_expired"} =>
           m - t.at \notin -env.window .. env.window
      /\ v = "replay_detected" => t \in replayCache
      /\ v \in Gate!Verified => t \notin replayCache
      /\ v = "verified_processing_enabled_not_wired" => env.processing
      /\ v \notin {"none", "rate_limited", "webhook_secret_not_configured",
                   "signature_invalid"} => Signature[t] = "valid"
  BY <1>1, <1>2, VerdictGrounds
<1>4. /\ v # "none" /\ "none" \notin Gate!Verified
      /\ env' = env /\ life' = n /\ life = n /\ now' = now
  BY <1>1, <1>3 DEF Gate!Reasons, Gate!Verified
<1>5. \A e \in Smokes, z \in Steps : <<e, z>> \in Requests /\ (<<e, z>> = r <=> e = c /\ z = s)
  BY <1>1 DEF Requests
<1>6. /\ \A e \in Smokes, z \in Steps : ~(e = c /\ z = s) =>
           /\ Tuple(e, z)' = Tuple(e, z) /\ Reason(e, z)' = Reason(e, z)
           /\ Life(e, z)' = Life(e, z) /\ At(e, z)' = At(e, z)
           /\ decision'[<<e, z>>] = decision[<<e, z>>]
      /\ Tuple(c, s)' = t /\ Reason(c, s)' = v /\ Life(c, s)' = n /\ At(c, s)' = m
      /\ decision'[<<c, s>>].key = k
  BY <1>1, <1>5 DEF Tuple, Reason, Life, At
<1>7. Told'
  <2> SUFFICES ASSUME NEW q \in Requests
               PROVE  /\ pc'[q] # "idle" =>
                           /\ decision'[q].reason \in Gate!Reasons
                           /\ decision'[q].key =
                                <<Provider[decision'[q].tuple], "remote-present">>
                      /\ pc'[q] = "done" =>
                           answer'[q] \in {decision'[q].reason, "server_error", "lost"}
    BY DEF Told, Gate!Reasons, Gate!Verified, Provider, Tuples
  <2>1. CASE q = r
    BY <1>1, <1>3, <2>1
  <2>2. CASE q # r
    BY <1>1, <2>2 DEF CInv, Told
  <2>3. QED
    BY <2>1, <2>2
<1>8. Filled'
  <2>1. decision[r].reason = "none"
    BY <1>1 DEF Gate!NoDecision
  <2>2. /\ decision'[r].reason = v /\ decision'[r].key = k
        /\ decision'[r].life = life /\ decision'[r].at = now
    BY <1>1
  <2>3. /\ k \in Gate!Keys /\ r \in Requests /\ v \in Gate!Reasons
        /\ v = "rate_limited" <=> Gate!Hit(k).count > Limit
        /\ buckets' = [buckets EXCEPT ![k] = Gate!Hit(k)]
        /\ life' = life /\ now' = now
        /\ \A q \in Requests \ {r} : decision'[q] = decision[q]
    BY <1>1, <1>2, <1>3
  <2>4. QED
    BY ONLY IInv, CInv, <2>1, <2>2, <2>3, HitFills
<1>9. Concluded'
  <2>1. \A q \in Requests : pc[q] = "done" => pc'[q] = "done" /\ answer'[q] = answer[q]
    BY <1>1
  <2>2. QED
    BY <1>1, <2>1, EndsStand
<1>10. Alone'
  <2> SUFFICES ASSUME local' PROVE Alone'
    BY DEF Alone
  <2>1. /\ local /\ env' = env /\ life' = life /\ client' = client
        /\ step' = step /\ result' = result /\ answer' = answer
    BY <1>1 DEF ours
  <2>2. PICK e \in Smokes : \A f \in Smokes \ {e} :
          step[f] = "over" /\ result[f] # "failed" /\ \A z \in Steps : pc[<<f, z>>] = "idle"
    BY <2>1 DEF CInv, Alone
  <2>3. c = e
    BY <1>1, <2>2 DEF Steps
  <2>4. \A f \in Smokes \ {e} : \A z \in Steps : pc'[<<f, z>>] = "idle"
    <3>1. \A f \in Smokes \ {e} : \A z \in Steps : <<f, z>> \in Requests \ {r}
      BY <1>5, <2>3
    <3>2. \A q \in Requests \ {r} : pc'[q] = pc[q]
      BY <1>1
    <3>3. QED
      BY <2>2, <3>1, <3>2
  <2>5. QED
    BY <2>1, <2>2, <2>4 DEF CInv, Alone, SmokeEnv, LocalClient
<1>11. Remembered'
  <2>1. ASSUME NEW e \in Smokes, NEW z \in Steps,
               Reason(e, z)' \in Gate!Verified, Life(e, z)' = life'
        PROVE  Tuple(e, z)' \in replayCache'
    <3>1. CASE e = c /\ z = s
      BY <1>1, <1>6, <2>1, <3>1 DEF Gate!CacheAfter
    <3>2. CASE ~(e = c /\ z = s)
      <4>1. Reason(e, z) \in Gate!Verified /\ Life(e, z) = life /\ Tuple(e, z)' = Tuple(e, z)
        BY <1>4, <1>6, <2>1, <3>2
      <4>2. Tuple(e, z) \in replayCache
        BY <4>1 DEF CInv, Remembered
      <4>3. QED
        BY <1>1, <4>1, <4>2 DEF Gate!CacheAfter
    <3>3. QED
      BY <3>1, <3>2
  <2>2. ASSUME NEW e \in Smokes,
               Reason(e, "line")' \in Gate!Verified, Reason(e, "replay")' \in Gate!Verified
        PROVE  Life(e, "line")' # Life(e, "replay")'
    <3>1. "line" \in Steps /\ "replay" \in Steps /\ "line" # "replay"
      BY DEF Steps
    <3>2. CASE e = c /\ s = "replay"
      <4>1. /\ Reason(c, "line") \in Gate!Verified /\ t = Tuple(c, "line")
            /\ Life(c, "line")' = Life(c, "line")
            /\ Life(c, "replay")' = life /\ t \notin replayCache
        BY <1>1, <1>3, <1>4, <1>6, <2>2, <3>1, <3>2
      <4>2. QED
        BY <3>1, <3>2, <4>1 DEF CInv, Remembered
    <3>3. CASE e = c /\ s = "line"
      BY <1>1, <1>4, <1>6, <2>2, <3>1, <3>3
    <3>4. CASE ~(e = c /\ s \in {"line", "replay"})
      BY <1>6, <2>2, <3>1, <3>4 DEF CInv, Remembered
    <3>5. QED
      BY <3>2, <3>3, <3>4
  <2>3. QED
    BY <2>1, <2>2 DEF Remembered, Gate!Verified
<1>12. \A e \in Smokes, z \in Steps : ~(e = c /\ z = s) =>
         /\ TakenBy(e, z) => TakenBy(e, z)'
         /\ Reason(e, z) # "none" /\ CrowdedAt(e, z) => CrowdedAt(e, z)'
  <2>1. \A f \in Smokes, y \in Steps : \A u, l :
          VerifiedIn(f, y, u, l) => ~(f = c /\ y = s) /\ VerifiedIn(f, y, u, l)'
    BY <1>1, <1>4, <1>6 DEF VerifiedIn
  <2>2. SUFFICES ASSUME NEW e \in Smokes, NEW z \in Steps, ~(e = c /\ z = s)
                 PROVE  /\ TakenBy(e, z) => TakenBy(e, z)'
                        /\ Reason(e, z) # "none" /\ CrowdedAt(e, z) => CrowdedAt(e, z)'
    OBVIOUS
  <2>3. /\ Tuple(e, z)' = Tuple(e, z) /\ Reason(e, z)' = Reason(e, z)
        /\ Life(e, z)' = Life(e, z) /\ At(e, z)' = At(e, z)
        /\ decision'[<<e, z>>] = decision[<<e, z>>]
    BY <1>6, <2>2
  <2>4. ASSUME TakenBy(e, z) PROVE TakenBy(e, z)'
    <3>1. PICK f \in Smokes, y \in Steps :
            VerifiedIn(f, y, Tuple(e, z), Life(e, z)) /\ (f = e => y \in Past[z])
      BY <2>4 DEF TakenBy
    <3>2. /\ Reason(f, y)' \in Gate!Verified /\ Tuple(f, y)' = Tuple(e, z)'
          /\ Life(f, y)' = Life(e, z)'
      BY <2>1, <2>3, <3>1, <1>6 DEF VerifiedIn
    <3>3. QED
      BY <3>1, <3>2 DEF TakenBy, VerifiedIn, Past, Gate!Verified
  <2>5. ASSUME CrowdedAt(e, z) PROVE CrowdedAt(e, z)'
    <3>1. PICK y \in Steps, f \in Smokes \ {e} :
            /\ Reason(f, y) \notin {"none", "rate_limited"}
            /\ decision[<<f, y>>].key = decision[<<e, z>>].key
            /\ Life(f, y) = Life(e, z) /\ At(e, z) - At(f, y) < LimitWindow
      BY <2>5 DEF CrowdedAt
    <3>2. ~(f = c /\ y = s)
      BY <1>1, <3>1
    <3>3. /\ Reason(f, y)' = Reason(f, y) /\ Life(f, y)' = Life(f, y)
          /\ At(f, y)' = At(f, y) /\ decision'[<<f, y>>] = decision[<<f, y>>]
      BY <1>6, <3>2
    <3>4. QED
      BY <2>3, <3>1, <3>3 DEF CrowdedAt
  <2>6. QED
    BY <2>4, <2>5
<1>13. v = "replay_detected" => TakenBy(c, s)'
  <2> SUFFICES ASSUME v = "replay_detected" PROVE TakenBy(c, s)'
    OBVIOUS
  <2>1. PICK f \in Smokes, z \in Steps : VerifiedIn(f, z, t, n)
    BY <1>3, <1>4 DEF IInv, CacheBacked
  <2>2. /\ ~(f = c /\ z = s) /\ (f = c => z \in Past[s])
    BY <1>1, <1>4, <2>1 DEF VerifiedIn
  <2>3. /\ Reason(f, z)' \in Gate!Verified /\ Tuple(f, z)' = Tuple(c, s)'
        /\ Life(f, z)' = Life(c, s)'
    BY <1>6, <2>1, <2>2 DEF VerifiedIn
  <2>4. QED
    BY <2>2, <2>3 DEF TakenBy, VerifiedIn, Past, Gate!Verified
<1>14. v = "rate_limited" => CrowdedAt(c, s)'
  <2> SUFFICES ASSUME v = "rate_limited" PROVE CrowdedAt(c, s)'
    OBVIOUS
  <2>1. /\ s \in Steps /\ t \in Tuples /\ t.kind = Kind(c, s) /\ Reason(c, s) = "none"
        /\ k = <<Provider[t], "remote-present">> /\ k \in Gate!Keys
        /\ Gate!Hit(k).count > Limit
    BY <1>1, <1>2, <1>3
  <2>2. PICK z \in Steps, f \in Smokes \ {c} :
          /\ Reason(f, z) \notin {"none", "rate_limited"}
          /\ decision[<<f, z>>].key = k
          /\ Life(f, z) = life /\ now - At(f, z) < LimitWindow
    BY ONLY IInv, CInv, <2>1, RefusedIsCrowded
  <2>3. /\ Reason(f, z)' = Reason(f, z) /\ Life(f, z)' = Life(f, z)
        /\ At(f, z)' = At(f, z) /\ decision'[<<f, z>>] = decision[<<f, z>>]
    BY <1>6, <2>2
  <2>4. QED
    BY <1>4, <1>6, <2>2, <2>3 DEF CrowdedAt
<1>15. Grounded'
  <2> SUFFICES ASSUME NEW e \in Smokes, NEW z \in Steps
      PROVE  /\ Reason(e, z)' \notin {"signature_missing", "timestamp_missing_or_invalid"}
             /\ Reason(e, z)' = "rate_limited" => CrowdedAt(e, z)'
             /\ Reason(e, z)' = "webhook_secret_not_configured" =>
                  Provider[Tuple(e, z)'] \notin env'.secrets
             /\ Reason(e, z)' = "signature_invalid" => Signature[Tuple(e, z)'] = "invalid"
             /\ Reason(e, z)' = "replay_window_invalid" => env'.window = 0
             /\ Reason(e, z)' \in {"timestamp_from_future", "timestamp_expired"} =>
                  At(e, z)' - Tuple(e, z)'.at \notin -env'.window .. env'.window
             /\ Reason(e, z)' = "replay_detected" => TakenBy(e, z)'
             /\ Reason(e, z)' = "verified_processing_enabled_not_wired" => env'.processing
             /\ Reason(e, z)' \notin {"none", "rate_limited", "webhook_secret_not_configured",
                                      "signature_invalid"} => Signature[Tuple(e, z)'] = "valid"
    BY DEF Grounded, Provider, Signature, Tuples
  <2>1. CASE e = c /\ z = s
    BY <1>3, <1>4, <1>6, <1>13, <1>14, <2>1
  <2>2. CASE ~(e = c /\ z = s)
    <3>1. /\ Tuple(e, z)' = Tuple(e, z) /\ Reason(e, z)' = Reason(e, z)
          /\ At(e, z)' = At(e, z) /\ env' = env
      BY <1>4, <1>6, <2>2
    <3>2. /\ TakenBy(e, z) => TakenBy(e, z)'
          /\ Reason(e, z) = "rate_limited" /\ CrowdedAt(e, z) => CrowdedAt(e, z)'
      BY <1>12, <2>2
    <3>3. QED
      BY <3>1, <3>2 DEF CInv, Grounded
  <2>3. QED
    BY <2>1, <2>2
<1>16. QED
  BY <1>7, <1>8, <1>9, <1>10, <1>11, <1>15 DEF CInv

LEMMA CauseInductive == IInv /\ CInv /\ [Next]_vars => CInv'
<1> SUFFICES ASSUME IInv, CInv, [Next]_vars PROVE CInv'
  OBVIOUS
<1>1. CASE Tick
  BY <1>1, CauseTicking
<1>2. CASE Disturb
  <2>1. UNCHANGED ours /\ ~local
    BY <1>2 DEF Disturb
  <2>2. CASE Gate!Restart
    BY <2>1, <2>2, CauseRestarting
  <2>3. ASSUME NEW c \in Smokes, NEW s \in Steps, Gate!RecordFails(<<c, s>>)
        PROVE  CInv'
    <3>1. <<c, s>> \in Requests
      BY DEF Requests
    <3>2. QED
      BY <2>1, <2>3, <3>1, CauseAnswering
  <2>4. QED
    BY <1>2, <2>2, <2>3 DEF Disturb
<1>3. ASSUME NEW c \in Smokes, Run(c) PROVE CInv'
  <2>1. CASE Skip(c) \/ Throw(c) \/ Conclude(c)
    BY <2>1, CauseEnding
  <2>2. CASE Send(c)
    BY <2>2, CauseSending
  <2>3. CASE Arrive(c)
    BY <2>3, CauseDeciding
  <2>4. CASE Handle(c)
    BY <2>4, CauseAnswering DEF Handle, Request, Requests
  <2>5. QED
    BY <1>3, <2>1, <2>2, <2>3, <2>4 DEF Run
<1>4. CASE UNCHANGED vars
  <2>1. UNCHANGED gate /\ UNCHANGED ours
    BY <1>4 DEF vars
  <2>2. Concluded'
    BY <2>1, EndsStand DEF gate
  <2>3. Alone'
    BY <2>1 DEF CInv, Alone, gate, ours, SmokeEnv, LocalClient
  <2>4. QED
    BY <2>1, <2>2, <2>3, CauseStands DEF CInv
<1>5. QED
  BY <1>1, <1>2, <1>3, <1>4 DEF Next

-----------------------------------------------------------------------------
(* Theorems                                                                 *)

(* A passed smoke has seen what it stands for (stagingNetworkSmoke.mjs:127, *)
(* signedWebhookSmoke.mjs:61): processing off, both secrets right, its two  *)
(* webhooks and no more of its requests verified, all of them audited, and  *)
(* its replay refused because of a tuple verified in the same process.      *)
THEOREM PassesAreFaithful == Spec => []PassIsFaithful
<1>1. IInv => PassIsFaithful
  <2> SUFFICES ASSUME IInv, NEW c \in Smokes, result[c] = "passed"
      PROVE  /\ ~env.processing /\ client[c].line = "right" /\ client[c].meta = "right"
             /\ client[c].pages = "ok"
             /\ {s \in Steps : <<c, s>> \in Gate!Decided(Gate!Verified)} = {"line", "meta"}
             /\ \A s \in {"line", "meta"} : At(c, s) - Tuple(c, s).at \in -env.window .. env.window
             /\ \A s \in Steps : <<c, s>> \in audits
             /\ Tuple(c, "replay") = Tuple(c, "line")
             /\ \E d \in Smokes, s \in {"line", "replay"} :
                  /\ Reason(d, s) \in Gate!Verified
                  /\ Tuple(d, s) = Tuple(c, "line") /\ Life(d, s) = Life(c, "replay")
                  /\ d = c \/ Life(c, "line") < Life(c, "replay")
    BY DEF PassIsFaithful
  <2>1. \A s \in Steps : /\ <<c, s>> \in Requests
                         /\ answer[<<c, s>>] \in Gate!Reasons
    <3>1. AsExpected(c)
      BY DEF IInv, Ordered
    <3>2. QED
      BY <3>1 DEF AsExpected, Gate!Reasons, Gate!Verified, Steps, Requests
  <2>2. \A s \in Steps : <<c, s>> \in audits /\ answer[<<c, s>>] = Reason(c, s)
    BY <2>1 DEF IInv, Settled, Reason
  <2>3. /\ Reason(c, "line") = "verified_processing_disabled"
        /\ Reason(c, "replay") = "replay_detected"
        /\ Reason(c, "bad") = "signature_invalid"
        /\ Reason(c, "meta") = "verified_processing_disabled"
    BY <2>2 DEF IInv, Ordered, AsExpected, Steps
  <2>4. /\ \A s \in {"line", "meta"} : s \in Steps /\ Reason(c, s) \in Gate!Verified
        /\ Reason(c, "replay") \notin Gate!Verified /\ Reason(c, "bad") \notin Gate!Verified
        /\ Steps = {"line", "replay", "bad", "meta"}
    BY <2>3 DEF Gate!Verified, Steps
  <2>5. /\ ~env.processing /\ Tuple(c, "replay") = Tuple(c, "line")
        /\ \A s \in {"line", "meta"} : At(c, s) - Tuple(c, s).at \in -env.window .. env.window
    BY <2>3, <2>4 DEF IInv, Sound
  <2>6. client[c].line = "right" /\ client[c].meta = "right"
    <3>1. \A s \in {"line", "meta"} :
            Tuple(c, s) \in Tuples /\ Tuple(c, s).kind = Kind(c, s) /\ Signature[Tuple(c, s)] = "valid"
      BY <2>3, <2>4 DEF IInv, Sound
    <3>2. \A s \in {"line", "meta"} : Kind(c, s) \in {"line", "meta"}
      BY <3>1 DEF Signature
    <3>3. QED
      BY <3>2 DEF Kind, SignedWith
  <2>7. {s \in Steps : <<c, s>> \in Gate!Decided(Gate!Verified)} = {"line", "meta"}
    <3>1. \A s \in Steps : <<c, s>> \in Gate!Decided(Gate!Verified) <=> Reason(c, s) \in Gate!Verified
      BY <2>1 DEF Gate!Decided, Reason, Requests
    <3>2. QED
      BY <2>4, <3>1
  <2>8. Behind(c)
    BY <2>3, <2>4 DEF IInv, Detected
  <2>9. client[c].pages = "ok"
    BY DEF IInv, Ordered, AsExpected
  <2>10. QED
    BY <2>2, <2>5, <2>6, <2>7, <2>8, <2>9 DEF Behind, VerifiedIn
<1>2. QED
  BY Initially, Inductive, <1>1, PTL DEF Spec

(* The smokes are clients of the gateway like any other: with them and the  *)
(* disturbances it behaves as WebhookGate, so what is proved of the webhook *)
(* gate (webhookSecurityGate.mjs:186) holds of it here too.                 *)
THEOREM SmokesDriveTheGate == Spec => Gate!Spec
<1>1. Init => Gate!Init
  BY DEF Init, StagingInit, LocalInit
<1>2. IInv /\ [Next]_vars => [Gate!Next]_(Gate!vars)
  <2> SUFFICES ASSUME IInv, [Next]_vars PROVE Gate!Next \/ UNCHANGED gate
    BY DEF gate, Gate!vars
  <2>1. UNCHANGED vars => UNCHANGED gate
    BY DEF vars
  <2>2. Tick \/ Disturb => Gate!Next
    BY DEF Tick, Disturb, Gate!Next
  <2>3. ASSUME NEW c \in Smokes, Run(c)
        PROVE  Gate!Next \/ UNCHANGED gate
    <3>1. CASE Arrive(c)
      <4>1. Request(c) \in Smokes \X Steps /\ sent[c] \in Tuples
        BY <3>1 DEF Arrive, Request, IInv, Carrying
      <4>2. QED
        BY <3>1, <4>1 DEF Arrive, Gate!Next
    <3>2. CASE Handle(c)
      BY <3>2 DEF Handle, Request, Gate!Next
    <3>3. CASE Skip(c) \/ Send(c) \/ Throw(c) \/ Conclude(c)
      BY <3>3 DEF Skip, Send, Throw, Conclude
    <3>4. QED
      BY <2>3, <3>1, <3>2, <3>3 DEF Run
  <2>4. QED
    BY <2>1, <2>2, <2>3 DEF Next
<1>3. QED
  BY Initially, Inductive, <1>1, <1>2, PTL DEF Spec, Gate!Spec

(* With every secret right and the window usable, each of the four answers  *)
(* is the expected one or has one of the four causes.                       *)
LEMMA Causes ==
  ASSUME IInv, CInv, NEW c \in Smokes, result[c] = "failed",
         ~env.processing, env.secrets = {"line", "meta"}, env.window # 0,
         client[c].line = "right", client[c].meta = "right", client[c].pages = "ok"
  PROVE  Misplaced(c) \/ Crowded(c) \/ Collided(c) \/ Interrupted(c)
<1> SUFFICES ASSUME ~Misplaced(c), ~Crowded(c), ~Collided(c), ~Interrupted(c)
             PROVE  FALSE
  OBVIOUS
<1>1. \A s \in Steps :
        /\ answer[<<c, s>>] = Reason(c, s) /\ Reason(c, s) \in Gate!Reasons
        /\ Tuple(c, s) \in Tuples /\ Tuple(c, s).kind = Kind(c, s)
  <2>1. \A s \in Steps : pc[<<c, s>>] = "done" /\ answer[<<c, s>>] \notin {"lost", "server_error"}
    BY DEF CInv, Concluded, Interrupted
  <2>2. \A s \in Steps : answer[<<c, s>>] = Reason(c, s) /\ Reason(c, s) \in Gate!Reasons
    BY <2>1 DEF CInv, Told, Requests, Reason
  <2>3. "none" \notin Gate!Reasons
    BY DEF Gate!Reasons, Gate!Verified
  <2>4. QED
    BY <2>2, <2>3 DEF IInv, Sound
<1>2. \A s \in Steps :
        /\ Reason(c, s) \in {"signature_invalid", "replay_detected", "verified_processing_disabled"}
        /\ Reason(c, s) = "signature_invalid" => Signature[Tuple(c, s)] = "invalid"
        /\ Reason(c, s) # "signature_invalid" => Signature[Tuple(c, s)] = "valid"
        /\ Reason(c, s) = "replay_detected" => TakenBy(c, s)
  <2> SUFFICES ASSUME NEW s \in Steps
      PROVE /\ Reason(c, s) \in {"signature_invalid", "replay_detected", "verified_processing_disabled"}
            /\ Reason(c, s) = "signature_invalid" => Signature[Tuple(c, s)] = "invalid"
            /\ Reason(c, s) # "signature_invalid" => Signature[Tuple(c, s)] = "valid"
            /\ Reason(c, s) = "replay_detected" => TakenBy(c, s)
    OBVIOUS
  <2>1. Reason(c, s) \notin {"signature_missing", "timestamp_missing_or_invalid",
                             "replay_window_invalid", "verified_processing_enabled_not_wired"}
    BY DEF CInv, Grounded
  <2>2. Reason(c, s) # "webhook_secret_not_configured"
    <3>1. Provider[Tuple(c, s)] \in env.secrets
      BY <1>1 DEF Provider
    <3>2. QED
      BY <3>1 DEF CInv, Grounded
  <2>3. Reason(c, s) \notin {"timestamp_from_future", "timestamp_expired"}
    BY DEF CInv, Grounded, Misplaced
  <2>4. Reason(c, s) # "rate_limited"
    BY DEF CInv, Grounded, CrowdedAt, Crowded
  <2>5. Reason(c, s) \in {"signature_invalid", "replay_detected", "verified_processing_disabled"}
    BY <1>1, <2>1, <2>2, <2>3, <2>4 DEF Gate!Reasons, Gate!Verified
  <2>6. QED
    BY <2>5 DEF CInv, Grounded
<1>3. /\ Steps = {"line", "replay", "bad", "meta"}
      /\ "verified_processing_disabled" \in Gate!Verified
  BY DEF Steps, Gate!Verified
<1>4. /\ Kind(c, "line") = "line" /\ Kind(c, "replay") = "line"
      /\ Kind(c, "bad") = "bad" /\ Kind(c, "meta") = "meta"
  BY DEF Kind, SignedWith
<1>5. /\ \A s \in {"line", "replay", "meta"} : Signature[Tuple(c, s)] = "valid"
      /\ Signature[Tuple(c, "bad")] = "invalid"
  BY <1>1, <1>3, <1>4 DEF Signature
<1>6. \A s \in {"line", "meta"} : Reason(c, s) = "verified_processing_disabled"
  <2> SUFFICES ASSUME NEW s \in {"line", "meta"}, Reason(c, s) = "replay_detected" PROVE FALSE
    BY <1>2, <1>3, <1>5
  <2>1. PICK d \in Smokes, z \in Steps :
          /\ VerifiedIn(d, z, Tuple(c, s), Life(c, s))
          /\ d = c => z \in Past[s]
    BY <1>2, <1>3 DEF TakenBy
  <2>2. /\ Reason(d, z) # "none" /\ Tuple(d, z) = Tuple(c, s)
        /\ Tuple(d, z) \in Tuples /\ Tuple(d, z).kind = Kind(d, z)
    <3>1. Reason(d, z) # "none"
      BY <2>1 DEF VerifiedIn, Gate!Verified
    <3>2. QED
      BY <2>1, <3>1 DEF VerifiedIn, IInv, Sound
  <2>3. s = "meta" <=> z = "meta"
    <3>1. Provider[Tuple(d, z)] = IF z = "meta" THEN "meta" ELSE "line"
      BY <2>2, KindProvider
    <3>2. Provider[Tuple(c, s)] = IF s = "meta" THEN "meta" ELSE "line"
      BY <1>1, <1>3, KindProvider
    <3>3. QED
      BY <2>2, <3>1, <3>2
  <2>4. d # c
    BY <2>1, <2>3 DEF Past
  <2>5. QED
    <3>1. z # "bad"
      BY <1>3, <1>5, <2>2, KindProvider
    <3>2. Tuple(c, "replay") = Tuple(c, "line")
      <4>1. Reason(c, "replay") # "none"
        BY <1>2, <1>3
      <4>2. QED
        BY <1>3, <4>1 DEF IInv, Sound
    <3>3. Tuple(c, z) = Tuple(c, s)
      BY <1>3, <2>3, <3>1, <3>2
    <3>4. Reason(d, z) \in Gate!Verified /\ Tuple(d, z) = Tuple(c, z)
      BY <2>1, <3>3 DEF VerifiedIn
    <3>5. QED
      BY <2>4, <3>4 DEF Collided
<1>7. Reason(c, "replay") = "replay_detected"
  <2>1. Life(c, "line") = Life(c, "replay")
    BY DEF Interrupted
  <2>2. Reason(c, "replay") # "verified_processing_disabled"
    BY <1>3, <1>6, <2>1 DEF CInv, Remembered
  <2>3. QED
    BY <1>2, <1>3, <1>5, <2>2
<1>8. AsExpected(c)
  BY <1>1, <1>2, <1>3, <1>5, <1>6, <1>7 DEF AsExpected
<1>9. QED
  BY <1>8 DEF CInv, Concluded

(* A smoke fails only for a cause (stagingNetworkSmoke.mjs:127): something  *)
(* is set up wrong or switched on, a clock is off, another smoke used up    *)
(* the limiter or sent the same tuple, or the gateway was disturbed.  The   *)
(* signed smoke fails only if it is slower than its window                  *)
(* (signedWebhookSmoke.mjs:61).                                             *)
THEOREM FailuresHaveCauses == Spec => []FailureHasCause
<1>1. IInv /\ CInv => FailureHasCause
  <2> SUFFICES ASSUME IInv, CInv, NEW c \in Smokes, result[c] = "failed", ~Misplaced(c)
      PROVE  /\ ~local
             /\ \/ env.processing \/ env.secrets # {"line", "meta"} \/ env.window = 0
                \/ client[c].line = "wrong" \/ client[c].meta = "wrong"
                \/ client[c].pages = "off"
                \/ Crowded(c) \/ Collided(c) \/ Interrupted(c)
    BY DEF FailureHasCause
  <2>1. /\ client[c].line \in {"right", "wrong"} /\ client[c].meta \in {"right", "wrong"}
        /\ client[c].pages \in {"ok", "off"}
    <3>1. SetUp(c)
      BY DEF CInv, Concluded
    <3>2. client[c] \in Clients \/ client[c] = LocalClient
      BY DEF IInv, Shaped
    <3>3. QED
      BY <3>1, <3>2, SmokeAssumption DEF Ready, SetUp, LocalClient
  <2>2. ~local
    <3> SUFFICES ASSUME local PROVE FALSE
      OBVIOUS
    <3>1. PICK e \in Smokes : \A d \in Smokes \ {e} :
            step[d] = "over" /\ result[d] # "failed" /\ \A s \in Steps : pc[<<d, s>>] = "idle"
      BY DEF CInv, Alone
    <3>2. \A d \in Smokes \ {c}, s \in Steps : Reason(d, s) = "none"
      <4>1. \A d \in Smokes, s \in Steps : pc[<<d, s>>] = "idle" => Reason(d, s) = "none"
        BY DEF IInv, Sound, Reason, Gate!NoDecision
      <4>2. \A d \in Smokes \ {e}, s \in Steps : pc[<<d, s>>] = "idle"
        BY <3>1
      <4>3. c = e
        BY <3>1
      <4>4. QED
        BY <4>1, <4>2, <4>3
    <3>3. ~Crowded(c) /\ ~Collided(c)
      BY <3>2 DEF Crowded, Collided, Gate!Verified
    <3>4. /\ env = SmokeEnv /\ life = 0 /\ client[c] = LocalClient
          /\ \A s \in Steps : answer[<<c, s>>] # "server_error"
      BY DEF CInv, Alone, Requests
    <3>5. \A s \in Steps : Life(c, s) = 0
      <4>1. \A s \in Steps : Reason(c, s) # "none"
        BY DEF CInv, Concluded, Told, Requests, Reason, Gate!Reasons, Gate!Verified
      <4>2. QED
        <5>1. \A s \in Steps : Life(c, s) \in 0 .. life
          BY <4>1 DEF IInv, Sound
        <5>2. QED
          BY <3>4, <5>1
    <3>6. ~Interrupted(c)
      BY <3>4, <3>5 DEF Interrupted, Steps
    <3>7. /\ ~env.processing /\ env.secrets = {"line", "meta"} /\ env.window # 0
          /\ client[c].line = "right" /\ client[c].meta = "right"
          /\ client[c].pages = "ok"
      BY <3>4, SmokeAssumption DEF SmokeEnv, LocalClient
    <3>8. QED
      BY <3>3, <3>6, <3>7, Causes
  <2>3. QED
    BY <2>1, <2>2, Causes
<1>2. Init => IInv /\ CInv
  BY Initially, CauseInitially
<1>3. IInv /\ CInv /\ [Next]_vars => IInv' /\ CInv'
  BY Inductive, CauseInductive
<1>4. QED
  BY <1>1, <1>2, <1>3, PTL DEF Spec
=============================================================================
