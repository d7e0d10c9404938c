--------------------------- MODULE EnvGatesProofs ---------------------------
(***************************************************************************)
(* The promises of EnvGates for every set of requests, every environment   *)
(* to start from and any number of edits and failed audit writes.          *)
(***************************************************************************)
EXTENDS EnvGates, TLAPS

(* A printed report was computed from the environment in force. *)
ReportCurrent ==
  report.printed => /\ report.blocked = BlockedComponents(env)
                    /\ report.deploy = DeployReady(env)

(* The contract and the channel gate want opposite things of the send flag, *)
(* so no environment leaves every component unblocked.                      *)
LEMMA GatesContradict ==
  ASSUME NEW e
  PROVE  BlockedComponents(e) # {}
<1>1. CASE LineReady(e)
  <2>1. e.sends = "true"
    BY <1>1 DEF LineReady
  <2>2. ~SafeDefaults(e)
    BY <2>1 DEF SafeDefaults
  <2>3. ~ContractReady(e)
    BY <2>2 DEF ContractReady, RuntimeReady
  <2>4. "runtimeEnvContract" \in BlockedComponents(e)
    BY <2>3 DEF BlockedComponents, Components
  <2> QED
    BY <2>4
<1>2. CASE ~LineReady(e)
  <2>1. "line" \in BlockedComponents(e)
    BY <1>2 DEF BlockedComponents, Components
  <2> QED
    BY <2>1
<1> QED
  BY <1>1, <1>2

(* What a ready contract says of the flags and of the values. *)
LEMMA ContractShutsGates ==
  ASSUME NEW e, "runtimeEnvContract" \notin BlockedComponents(e)
  PROVE  /\ {"line", "webhookSecurity", "migration"} \subseteq BlockedComponents(e)
         /\ {"db", "admin"} \cap BlockedComponents(e) = {}
         /\ ~MutationAllowed(e) /\ ~BypassEnabled(e)
<1>1. PrivatePresent(e) /\ e.sslMode = "allowed" /\ SafeDefaults(e)
  BY DEF BlockedComponents, Components, ContractReady, RuntimeReady
<1>2. e.sends # "true" /\ e.processing # "true" /\ e.bypass # "true"
        /\ e.mutation # "true"
  BY <1>1 DEF SafeDefaults
<1>3. ~LineReady(e) /\ ~WebhookReady(e) /\ ~MutationAllowed(e)
        /\ ~BypassEnabled(e) /\ ~MigrationReady(e)
  BY <1>2 DEF LineReady, WebhookReady, MutationAllowed, BypassEnabled,
              MigrationReady
<1>4. DbReady(e) /\ AdminReady(e)
  BY <1>1, <1>3 DEF PrivatePresent, DbReady, AdminReady
<1>5. {"line", "webhookSecurity", "migration"} \subseteq BlockedComponents(e)
  BY <1>3 DEF BlockedComponents, Components
<1>6. "db" \notin BlockedComponents(e) /\ "admin" \notin BlockedComponents(e)
  BY <1>4 DEF BlockedComponents
<1> QED
  BY <1>3, <1>5, <1>6

LEMMA ReportsCurrent == Spec => []ReportCurrent
<1>1. Init => ReportCurrent
  BY DEF Init, ReportCurrent, NoReport
<1>2. ReportCurrent /\ [Next]_vars => ReportCurrent'
  <2> SUFFICES ASSUME ReportCurrent, [Next]_vars PROVE ReportCurrent'
    OBVIOUS
  <2>1. ASSUME NEW n \in DOMAIN Values, NEW v \in Values[n], Edit(n, v)
        PROVE  ReportCurrent'
    BY <2>1 DEF Edit, ReportCurrent, NoReport
  <2>2. CASE PrintReport
    BY <2>2 DEF PrintReport, ReportCurrent
  <2>3. ASSUME UNCHANGED <<env, report>> PROVE ReportCurrent'
    BY <2>3 DEF ReportCurrent
  <2>4. ASSUME NEW r \in Requests, NEW q, Arrive(r, q) PROVE ReportCurrent'
    BY <2>3, <2>4 DEF Arrive, reportVars
  <2>5. ASSUME NEW r \in Requests, RecordAccess(r) \/ RecordFails(r)
        PROVE  ReportCurrent'
    BY <2>3, <2>5 DEF RecordAccess, RecordFails, reportVars
  <2>6. CASE UNCHANGED vars
    BY <2>3, <2>6 DEF vars, reportVars
  <2> QED
    BY <2>1, <2>2, <2>4, <2>5, <2>6 DEF Next
<1> QED
  BY <1>1, <1>2, PTL DEF Spec

(* No environment and no sequence of edits makes the production report or   *)
(* the deploy report ready: contract and gates contradict each other.       *)
THEOREM ProductionNeverReady == Spec => []ProductionStaysBlocked
<1>1. ReportCurrent => ProductionStaysBlocked
  <2> SUFFICES ASSUME ReportCurrent, report.printed
               PROVE  report.blocked # {} /\ ~report.deploy
    BY DEF ProductionStaysBlocked
  <2>1. BlockedComponents(env) # {}
    BY GatesContradict
  <2>2. ~DeployReady(env)
    BY <2>1 DEF DeployReady
  <2> QED
    BY <2>1, <2>2 DEF ReportCurrent
<1> QED
  BY <1>1, ReportsCurrent, PTL

(* Whenever the runtime contract does not block, every gate that could let  *)
(* something out is shut, and the database and admin gates are satisfied.   *)
THEOREM ContractIsSafe == Spec => []ContractKeepsGatesShut
<1>1. ReportCurrent => ContractKeepsGatesShut
  <2> SUFFICES ASSUME ReportCurrent, report.printed,
                      "runtimeEnvContract" \notin report.blocked
               PROVE  /\ {"line", "webhookSecurity", "migration"}
                           \subseteq report.blocked
                      /\ {"db", "admin"} \cap report.blocked = {}
                      /\ ~MutationAllowed(env) /\ ~BypassEnabled(env)
    BY DEF ContractKeepsGatesShut
  <2>1. report.blocked = BlockedComponents(env)
    BY DEF ReportCurrent
  <2> QED
    BY <2>1, ContractShutsGates
<1> QED
  BY <1>1, ReportsCurrent, PTL

-----------------------------------------------------------------------------
(* The admin boundary.  From the decision on, request, decision and the     *)
(* place of a request fit together; this is what is inductive.              *)

Fits(r) ==
  /\ pc[r] # "idle" /\ decision[r].reason = "allowed" =>
       \/ request[r].remote = "loopback"
       \/ request[r].token = "right" /\ decision[r].mode = "token"
  /\ pc[r] = "serving" => decision[r].reason = "allowed"
  /\ pc[r] \in {"serving", "refused"} => r \in audits

Boundary ==
  /\ DOMAIN pc = Requests /\ DOMAIN request = Requests
  /\ DOMAIN decision = Requests
  /\ \A r \in Requests : Fits(r)

LEMMA AuthorizeNeedsToken ==
  ASSUME NEW e, NEW q, q.token \in {"none", "wrong", "right"},
         Authorize(e, q).reason = "allowed"
  PROVE  \/ q.remote = "loopback"
         \/ q.token = "right" /\ Authorize(e, q).mode = "token"
<1>1. CASE Bypassed(e, q)
  BY <1>1 DEF Bypassed
<1>2. CASE ~Bypassed(e, q) /\ q.token = "right"
  BY <1>2 DEF Authorize, TokenReason, Allowed, Rejected
<1>3. CASE ~Bypassed(e, q) /\ q.token # "right"
  <2>1. TokenReason(q.token) \in {"admin_token_missing", "admin_token_invalid"}
    BY <1>3 DEF TokenReason
  <2> QED
    BY <1>3, <2>1 DEF Authorize, Rejected
<1> QED
  BY <1>1, <1>2, <1>3

LEMMA BoundaryKept == Spec => []Boundary
<1>1. Init => Boundary
  BY DEF Init, Boundary, Fits
<1>2. Boundary /\ [Next]_vars => Boundary'
  <2> SUFFICES ASSUME Boundary, [Next]_vars PROVE Boundary'
    OBVIOUS
  <2>1. ASSUME UNCHANGED requestVars PROVE Boundary'
    BY <2>1 DEF requestVars, Boundary, Fits
  <2>2. ASSUME NEW n \in DOMAIN Values, NEW v \in Values[n], Edit(n, v)
        PROVE  Boundary'
    BY <2>1, <2>2 DEF Edit
  <2>3. CASE PrintReport
    BY <2>1, <2>3 DEF PrintReport
  <2>4. ASSUME NEW r \in Requests, NEW q, Arrive(r, q),
               q.token \in {"none", "wrong", "right"}
        PROVE  Boundary'
    <3>1. \A s \in Requests : Fits(s)'
      <4> SUFFICES ASSUME NEW s \in Requests PROVE Fits(s)'
        OBVIOUS
      <4>1. CASE s = r
        BY <2>4, <4>1, AuthorizeNeedsToken DEF Arrive, Boundary, Fits
      <4>2. CASE s # r
        BY <2>4, <4>2 DEF Arrive, Boundary, Fits
      <4> QED
        BY <4>1, <4>2
    <3> QED
      BY <2>4, <3>1 DEF Arrive, Boundary
  <2>5. ASSUME NEW r \in Requests, RecordAccess(r) PROVE Boundary'
    BY <2>5 DEF RecordAccess, Enter, Boundary, Fits
  <2>6. ASSUME NEW r \in Requests, RecordFails(r) PROVE Boundary'
    BY <2>6 DEF RecordFails, AfterLostAudit, Boundary, Fits
  <2>7. CASE UNCHANGED vars
    BY <2>1, <2>7 DEF vars
  <2> QED
    BY <2>2, <2>3, <2>4, <2>5, <2>6, <2>7 DEF Next
<1> QED
  BY <1>1, <1>2, PTL DEF Spec

(* However edits, requests and failing audits interleave, a caller from     *)
(* elsewhere is served only with the token.                                 *)
THEOREM RemoteCallersHaveTokens == Spec => []RemoteNeedsToken
<1>1. Boundary => RemoteNeedsToken
  BY DEF Boundary, Fits, RemoteNeedsToken
<1> QED
  BY <1>1, BoundaryKept, PTL

(* No admin handler is entered and no refusal sent before its audit row.    *)
THEOREM AdmissionAudited == Spec => []ServedWasAudited
<1>1. Boundary => ServedWasAudited
  BY DEF Boundary, Fits, ServedWasAudited
<1> QED
  BY <1>1, BoundaryKept, PTL

-----------------------------------------------------------------------------
(* Types *)

LEMMA EditTyped ==
  ASSUME IsEnv(env), NEW n \in DOMAIN Values, NEW v \in Values[n], Edit(n, v)
  PROVE  IsEnv(env')
<1> DEFINE D == DOMAIN Values
<1>1. /\ env = [m \in D |-> env[m]]
      /\ \A m \in D : env[m] \in Values[m]
  BY DEF IsEnv
<1>2. env' = [env EXCEPT ![n] = v]
  BY DEF Edit
<1> HIDE DEF D
<1>3. env' = [m \in D |-> env'[m]] /\ \A m \in D : env'[m] \in Values[m]
  BY <1>1, <1>2
<1> QED
  BY <1>3 DEF IsEnv, D

LEMMA AuthorizeTyped ==
  ASSUME NEW e, NEW q, q.token \in {"none", "wrong", "right"}
  PROVE  /\ Authorize(e, q).reason \in Reasons
         /\ Authorize(e, q).reason = "admin_token_invalid" => q.token = "wrong"
<1>1. TokenReason(q.token) \in Reasons
  BY DEF TokenReason, Reasons
<1>2. TokenReason(q.token) = "admin_token_invalid" => q.token = "wrong"
  BY DEF TokenReason
<1> QED
  BY <1>1, <1>2 DEF Authorize, Allowed, Rejected, Reasons

(* The environment, the report and the admin requests keep their shape, and *)
(* only a wrong token is called invalid (authorizeAdminRequest).            *)
THEOREM EnvironmentTyped == Spec => []TypeOK
<1> DEFINE Typed == TypeOK /\ DOMAIN request = Requests /\ DOMAIN decision = Requests
<1>1. Init => Typed
  BY EnvAssumption DEF Init, TypeOK, NoReport, NoRequest, NoDecision
<1>2. Typed /\ [Next]_vars => Typed'
  <2> SUFFICES ASSUME Typed, [Next]_vars PROVE Typed'
    OBVIOUS
  <2>1. ASSUME NEW n \in DOMAIN Values, NEW v \in Values[n], Edit(n, v)
        PROVE  Typed'
    <3>1. IsEnv(env')
      BY <2>1, EditTyped DEF TypeOK
    <3> QED
      BY <2>1, <3>1 DEF Edit, TypeOK, NoReport, requestVars, IsEnv
  <2>2. CASE PrintReport
    <3>1. BlockedComponents(env) \subseteq Components
      BY DEF BlockedComponents
    <3>2. DeployReady(env) \in BOOLEAN
      BY DEF DeployReady
    <3> QED
      BY <2>2, <3>1, <3>2 DEF PrintReport, TypeOK, requestVars, IsEnv
  <2>3. ASSUME NEW r \in Requests, NEW q, Arrive(r, q),
               q.token \in {"none", "wrong", "right"}
        PROVE  Typed'
    <3>1. \A s \in Requests : pc'[s] # "idle" =>
            /\ request'[s].token \in {"none", "wrong", "right"}
            /\ decision'[s].reason \in Reasons
            /\ decision'[s].reason = "admin_token_invalid" =>
                 request'[s].token = "wrong"
      BY <2>3, AuthorizeTyped DEF Arrive, TypeOK
    <3> QED
      BY <2>3, <3>1 DEF Arrive, TypeOK, reportVars, IsEnv
  <2>4. ASSUME NEW r \in Requests, RecordAccess(r) PROVE Typed'
    BY <2>4 DEF RecordAccess, Enter, TypeOK, reportVars, IsEnv
  <2>5. ASSUME NEW r \in Requests, RecordFails(r) PROVE Typed'
    BY <2>5 DEF RecordFails, AfterLostAudit, TypeOK, reportVars, IsEnv
  <2>6. CASE UNCHANGED vars
    BY <2>6 DEF vars, reportVars, requestVars, TypeOK, IsEnv
  <2> QED
    BY <2>1, <2>2, <2>3, <2>4, <2>5, <2>6 DEF Next
<1> QED
  BY <1>1, <1>2, PTL DEF Spec
=============================================================================
