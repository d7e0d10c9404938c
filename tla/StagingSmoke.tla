---------------------------- MODULE StagingSmoke ----------------------------
(***************************************************************************)
(* The smoke clients run against WebhookGate.  A client sends a signed     *)
(* LINE webhook, the same once more, one with a bad signature and a signed *)
(* Meta webhook, each after the answer to the one before, and reports      *)
(* whether the gateway verified, refused and disabled as it should; before *)
(* them it gets two pages that do not pass through WebhookGate.  The       *)
(* staging smoke talks to a deployed gateway over a network, beside other  *)
(* smokes; the signed smoke starts a gateway of its own in its process.    *)
(***************************************************************************)
EXTENDS Integers, FiniteSets

CONSTANTS
  Smokes,        (* runs of the smoke                                         *)
  Clients,       (* the environments a smoke may be run in                    *)
  LocalWindow,   (* SMOKE_ENV's replay window, 300 seconds, in ticks          *)
  MaxAhead,      (* bound: how far a client's clock is from the gateway's     *)
  MaxDisturbances,  (* bound: failed audit writes and restarts together       *)
  NoStamp, Environments, Limit, LimitWindow, MaxTime

Steps == {"line", "replay", "bad", "meta"}
After == [plan |-> "line", line |-> "replay", replay |-> "bad", bad |-> "meta"]

(* What is sent: the kind says what it is signed with.                      *)
Tuples == [kind : {"line", "line-other", "bad", "meta", "meta-other"},
           at : -MaxAhead .. MaxTime + MaxAhead]

ASSUME SmokeAssumption ==
  /\ Clients \subseteq [allowed : BOOLEAN, https : BOOLEAN,
                        line : {"missing", "right", "wrong"},
                        meta : {"missing", "right", "wrong"},
                        pages : {"ok", "off", "unreachable"},
                        ahead : -MaxAhead .. MaxAhead]
  /\ LocalWindow \in Nat \ {0} /\ MaxAhead \in Nat /\ MaxDisturbances \in Nat
  /\ Environments \subseteq
       [secrets : SUBSET {"line", "meta"}, window : Nat, processing : BOOLEAN]
  /\ NoStamp \notin Int /\ MaxTime \in Nat
  /\ Limit \in Nat /\ Limit >= 3 /\ LimitWindow \in Nat \ {0}

VARIABLES
  env, life, now, buckets, replayCache, pc, decision, audits, answer, faults,
  local,   (* whether this is the signed smoke with its own gateway           *)
  client,  (* the environment of each smoke, and what the health and the      *)
           (* calculator page it gets first are to it: "off" is an answer     *)
           (* that it does not expect or with a secret in it                  *)
  step,    (* the request it waits for; "plan" before, "over" after           *)
  sent,    (* what that request carries                                       *)
  result   (* "none", "skipped", "passed", "failed" or "threw"                *)

Provider  == [t \in Tuples |-> IF t.kind \in {"meta", "meta-other"} THEN "meta" ELSE "line"]
Signature == [t \in Tuples |-> IF t.kind \in {"line", "meta"} THEN "valid" ELSE "invalid"]
Stamp     == [t \in Tuples |-> t.at]

Gate == INSTANCE WebhookGate WITH
  Requests <- Smokes \X Steps, Remotes <- {"remote-present"},
  MaxFaults <- MaxDisturbances, MaxRestarts <- MaxDisturbances

gate == <<env, life, now, buckets, replayCache, pc, decision, audits, answer, faults>>
ours == <<local, client, step, sent, result>>
vars == <<gate, ours>>

NoTuple == [kind |-> "none", at |-> 0]

(* A smoke against a deployed gateway, in any environment of either.        *)
StagingInit ==
  /\ Gate!Init
  /\ local = FALSE
  /\ client \in [Smokes -> Clients]
  /\ step = [c \in Smokes |-> "plan"]

(* Its own gateway, its own secrets, nobody else.                           *)
SmokeEnv    == [secrets |-> {"line", "meta"}, window |-> LocalWindow, processing |-> FALSE]
LocalClient == [allowed |-> TRUE, https |-> TRUE, line |-> "right", meta |-> "right",
                pages |-> "ok", ahead |-> 0]
LocalInit ==
  /\ SmokeEnv \in Environments
  /\ Gate!Init /\ env = SmokeEnv
  /\ local = TRUE
  /\ client = [c \in Smokes |-> LocalClient]
  /\ \E c \in Smokes : step = [d \in Smokes |-> IF d = c THEN "plan" ELSE "over"]

Init ==
  /\ StagingInit \/ LocalInit
  /\ sent = [c \in Smokes |-> NoTuple]
  /\ result = [c \in Smokes |-> "none"]

-----------------------------------------------------------------------------
(* The client *)

(* buildStagingNetworkSmokePlan *)
Ready(c) ==
  /\ client[c].allowed /\ client[c].https
  /\ client[c].line # "missing" /\ client[c].meta # "missing"

SignedWith(secret, right, other) == IF secret = "right" THEN right ELSE other

(* Mutant: the replay is stamped anew. *)
CarriedAnew(c, s) ==
  [kind |-> IF s = "bad" THEN "bad"
            ELSE IF s = "meta" THEN SignedWith(client[c].meta, "meta", "meta-other")
            ELSE SignedWith(client[c].line, "line", "line-other"),
   at   |-> now + client[c].ahead]
Carried(c, s) ==
  IF s = "replay" THEN sent[c]
  ELSE [kind |-> CASE s = "line" -> SignedWith(client[c].line, "line", "line-other")
                   [] s = "bad"  -> "bad"
                   [] s = "meta" -> SignedWith(client[c].meta, "meta", "meta-other"),
        at   |-> now + client[c].ahead]

Request(c)  == <<c, step[c]>>
Answered(c) == step[c] \in Steps /\ pc[Request(c)] = "done"

(* The plan is not ready: nothing is sent, and the report is ok.            *)
Skip(c) ==
  /\ step[c] = "plan" /\ ~Ready(c)
  /\ step' = [step EXCEPT ![c] = "over"]
  /\ result' = [result EXCEPT ![c] = "skipped"]
  /\ UNCHANGED <<gate, local, client, sent>>

Send(c) ==
  /\ \/ step[c] = "plan" /\ Ready(c) /\ client[c].pages # "unreachable"
     \/ step[c] # "meta" /\ Answered(c) /\ answer[Request(c)] # "lost"
  /\ step' = [step EXCEPT ![c] = After[step[c]]]
  /\ sent' = [sent EXCEPT ![c] = Carried(c, After[step[c]])]
  /\ UNCHANGED <<gate, local, client, result>>

(* A page or a webhook's answer does not come: fetch rejects, and so does   *)
(* the smoke.                                                               *)
Throw(c) ==
  /\ \/ step[c] = "plan" /\ Ready(c) /\ client[c].pages = "unreachable"
     \/ Answered(c) /\ answer[Request(c)] = "lost"
  /\ step' = [step EXCEPT ![c] = "over"]
  /\ result' = [result EXCEPT ![c] = "threw"]
  /\ UNCHANGED <<gate, local, client, sent>>

(* Mutant: the statuses are not told apart. *)
AsExpectedLoosely(c) ==
  /\ client[c].pages = "ok"
  /\ answer[<<c, "line">>] \in Gate!Verified /\ answer[<<c, "meta">>] \in Gate!Verified
  /\ answer[<<c, "replay">>] = "replay_detected"
  /\ answer[<<c, "bad">>] = "signature_invalid"
AsExpected(c) ==
  /\ client[c].pages = "ok"
  /\ answer[<<c, "line">>] = "verified_processing_disabled"
  /\ answer[<<c, "replay">>] = "replay_detected"
  /\ answer[<<c, "bad">>] = "signature_invalid"
  /\ answer[<<c, "meta">>] = "verified_processing_disabled"

Conclude(c) ==
  /\ step[c] = "meta" /\ Answered(c) /\ answer[Request(c)] # "lost"
  /\ step' = [step EXCEPT ![c] = "over"]
  /\ result' = [result EXCEPT ![c] = IF AsExpected(c) THEN "passed" ELSE "failed"]
  /\ UNCHANGED <<gate, local, client, sent>>

-----------------------------------------------------------------------------
(* The gateway handles what was sent *)

Arrive(c) ==
  /\ step[c] \in Steps
  /\ Gate!Evaluate(Request(c), sent[c], "remote-present")
  /\ UNCHANGED ours

Handle(c) ==
  /\ step[c] \in Steps
  /\ Gate!RecordDecision(Request(c)) \/ Gate!Respond(Request(c))
  /\ UNCHANGED ours

(* The signed smoke's gateway writes to the in-memory store and lives as    *)
(* long as its client.                                                      *)
Disturb ==
  /\ ~local /\ life + faults < MaxDisturbances
  /\ Gate!Restart \/ \E c \in Smokes, s \in Steps : Gate!RecordFails(<<c, s>>)
  /\ UNCHANGED ours

Tick == Gate!Tick /\ UNCHANGED ours

Run(c) == Skip(c) \/ Send(c) \/ Throw(c) \/ Conclude(c) \/ Arrive(c) \/ Handle(c)

Next == Tick \/ Disturb \/ \E c \in Smokes : Run(c)

Spec == Init /\ [][Next]_vars

-----------------------------------------------------------------------------
(* Properties *)

Reason(c, s) == decision[<<c, s>>].reason
At(c, s)     == decision[<<c, s>>].at
Life(c, s)   == decision[<<c, s>>].life
Tuple(c, s)  == decision[<<c, s>>].tuple

(* A passed smoke has seen what it stands for: processing is off, both      *)
(* secrets are the gateway's, the pages are as expected, of its requests    *)
(* just the LINE and the Meta webhook were verified, each within the        *)
(* window, and all four are in the security audit log; the process that     *)
(* refused the replay had verified the tuple, though if it was restarted in *)
(* between, on behalf of a smoke that sent the same in the same instant.    *)
PassIsFaithful ==
  \A c \in Smokes : result[c] = "passed" =>
    /\ ~env.processing /\ client[c].line = "right" /\ client[c].meta = "right"
    /\ client[c].pages = "ok"
    /\ {s \in Steps : <<c, s>> \in Gate!Decided(Gate!Verified)} = {"line", "meta"}
    /\ \A s \in {"line", "meta"} : At(c, s) - Tuple(c, s).at \in -env.window .. env.window
    /\ \A s \in Steps : <<c, s>> \in audits
    /\ Tuple(c, "replay") = Tuple(c, "line")
    /\ \E d \in Smokes, s \in {"line", "replay"} :
         /\ Reason(d, s) \in Gate!Verified
         /\ Tuple(d, s) = Tuple(c, "line") /\ Life(d, s) = Life(c, "replay")
         /\ d = c \/ Life(c, "line") < Life(c, "replay")

(* The four ways a smoke that is set up right may fail all the same. *)
Misplaced(c) ==
  \E s \in Steps : At(c, s) - Tuple(c, s).at \notin -env.window .. env.window
Crowded(c) ==
  \E s, z \in Steps, d \in Smokes \ {c} :
    /\ Reason(c, s) = "rate_limited"
    /\ Reason(d, z) \notin {"none", "rate_limited"}
    /\ decision[<<d, z>>].key = decision[<<c, s>>].key
    /\ Life(d, z) = Life(c, s) /\ At(c, s) - At(d, z) < LimitWindow
Collided(c) ==
  \E d \in Smokes \ {c}, s \in Steps :
    Reason(d, s) \in Gate!Verified /\ Tuple(d, s) = Tuple(c, s)
Interrupted(c) ==
  \/ Life(c, "line") # Life(c, "replay")
  \/ \E s \in Steps : answer[<<c, s>>] = "server_error"

(* A smoke fails only for a cause: processing is on, a secret is not the    *)
(* gateway's, a page is not as expected, the window is unusable, a clock is *)
(* off or a request late by more than the window, the limiter is used up by *)
(* somebody else, another smoke sent the same tuple, an audit write failed  *)
(* or the process was restarted between a webhook and its replay.  The      *)
(* signed smoke fails only if it takes longer than the window.              *)
FailureHasCause ==
  \A c \in Smokes : result[c] = "failed" =>
    \/ Misplaced(c)
    \/ /\ ~local
       /\ \/ env.processing \/ env.secrets # {"line", "meta"} \/ env.window = 0
          \/ client[c].line = "wrong" \/ client[c].meta = "wrong"
          \/ client[c].pages = "off"
          \/ Crowded(c) \/ Collided(c) \/ Interrupted(c)
=============================================================================
