------------------------------ MODULE EnvGates ------------------------------
(***************************************************************************)
(* What is decided from process.env: the readiness gates of the database,  *)
(* the LINE channel, the admin boundary, the webhooks, the migrations and  *)
(* the runtime contract, the reports that combine them, and the admission  *)
(* of admin requests.  An operator edits the environment one variable at a *)
(* time; gates read the variables raw, each with a normalization of its    *)
(* own, so a value is what the gates can tell apart about it.              *)
(***************************************************************************)
EXTENDS Naturals

CONSTANTS
  Requests,       (* requests to admin pages and admin APIs                   *)
  Starts,         (* the environments the operator starts from                *)
  FilesReady,     (* wrangler.jsonc, .env.example, static files and functions *)
                  (* pass inspection                                          *)
  MigrationsOk,   (* the migration files pass validation and plan inspection  *)
  MaxEdits,       (* bound: variables edited                                  *)
  MaxFaults       (* bound: audit writes that may fail                        *)

(* SIRINX_ADMIN_LOCAL_DEV_BYPASS and its like, trimmed and lower-cased;     *)
(* "other" includes a blank string.                                         *)
Flag   == {"unset", "true", "false", "other"}
Secret == {"unset", "set"}

(* The variables and their values.  window says who accepts the replay      *)
(* window: 7200 only the contract, 08 only the gate; a "known" mode is      *)
(* local or staging.                                                        *)
Values ==
  [dbUrl |-> {"unset", "blank", "set"}, sslMode |-> {"unset", "allowed", "other"},
   lineToken |-> Secret, lineSecret |-> Secret, metaSecret |-> Secret,
   adminToken |-> Secret, recipients |-> {"unset", "valid", "invalid"},
   window |-> {"unset", "both", "gate", "contract", "bad"},
   mode |-> {"unset", "validate-only", "known", "other"},
   sends |-> Flag, processing |-> Flag, bypass |-> Flag, mutation |-> Flag,
   smoke |-> Flag, origin |-> {"unset", "valid", "invalid"}]

IsEnv(e) ==
  /\ e = [n \in DOMAIN Values |-> e[n]]
  /\ \A n \in DOMAIN Values : e[n] \in Values[n]

ASSUME EnvAssumption ==
  /\ \A e \in Starts : IsEnv(e)
  /\ FilesReady \in BOOLEAN /\ MigrationsOk \in BOOLEAN
  /\ MaxEdits \in Nat /\ MaxFaults \in Nat

VARIABLES
  env,        (* process.env                                                  *)
  edits,
  report,     (* what the last report script printed, since the last edit     *)
  pc,         (* where each admin request is                                  *)
  request,    (* its token header and remote address                          *)
  decision,   (* authorizeAdminRequest's reason, and the mode that allowed it *)
  audits,     (* requests with an admin access audit row                      *)
  faults

reportVars  == <<env, edits, report>>
requestVars == <<pc, request, decision, audits, faults>>
vars        == <<reportVars, requestVars>>

Components == {"db", "line", "admin", "webhookSecurity", "migration",
               "runtimeEnvContract"}
Reasons    == {"allowed", "admin_token_not_configured", "admin_token_missing",
               "admin_token_invalid"}
NoReport   == [printed |-> FALSE, blocked |-> Components, deploy |-> FALSE]
NoRequest  == [token |-> "none", remote |-> "none"]
NoDecision == [reason |-> "none", mode |-> "none"]

Init ==
  /\ env \in Starts
  /\ edits = 0
  /\ report = NoReport
  /\ pc = [r \in Requests |-> "idle"]
  /\ request = [r \in Requests |-> NoRequest]
  /\ decision = [r \in Requests |-> NoDecision]
  /\ audits = {}
  /\ faults = 0

-----------------------------------------------------------------------------
(* The gates *)

(* inspectDbEnv looks at the length only: a blank URL is present. *)
DbReady(e) == e.dbUrl # "unset" /\ e.sslMode = "allowed"

LineReady(e) ==
  e.lineToken = "set" /\ e.recipients = "valid" /\ e.sends = "true"

BypassEnabled(e) == e.bypass = "true"
AdminReady(e)    == e.adminToken = "set" /\ ~BypassEnabled(e)

(* Without a window the default of 300 seconds is used. *)
WindowValid(e) == e.window \in {"unset", "both", "gate"}
SignatureGateReady(e) ==
  e.lineSecret = "set" /\ e.metaSecret = "set" /\ WindowValid(e)
WebhookReady(e) == SignatureGateReady(e) /\ e.processing = "true"

(* Of the mode, only validate-only, the default, is told from the others.   *)
MutationAllowed(e) ==
  e.mode \notin {"unset", "validate-only"} /\ e.mutation = "true"
MigrationReady(e) == DbReady(e) /\ MutationAllowed(e) /\ MigrationsOk

(* Mutants: the flags are not checked; only some of them are.               *)
SafeDefaultsIgnored(e) == TRUE
SafeDefaultsSends(e)   == e.sends \in {"unset", "false"}
SafeDefaults(e) ==
  \A v \in {e.sends, e.processing, e.bypass, e.mutation} :
    v \in {"unset", "false"}

(* inspectRuntimeEnvPresence: nothing missing, no finding. *)
PrivatePresent(e) ==
  /\ e.dbUrl = "set" /\ e.recipients # "unset"
  /\ \A v \in {e.lineToken, e.lineSecret, e.metaSecret, e.adminToken} : v = "set"
RuntimeReady(e) ==
  /\ PrivatePresent(e)
  /\ e.sslMode = "allowed"
  /\ e.window \in {"both", "contract"}
  /\ SafeDefaults(e)

ContractReady(e) == FilesReady /\ RuntimeReady(e)

SmokeReady(e) ==
  /\ e.smoke = "true" /\ e.origin = "valid"
  /\ e.lineSecret = "set" /\ e.metaSecret = "set"

(* The components whose gate says productionReady = false. *)
BlockedComponents(e) ==
  {c \in Components :
     \/ c = "db" /\ ~DbReady(e)
     \/ c = "line" /\ ~LineReady(e)
     \/ c = "admin" /\ ~AdminReady(e)
     \/ c = "webhookSecurity" /\ ~WebhookReady(e)
     \/ c = "migration" /\ ~MigrationReady(e)
     \/ c = "runtimeEnvContract" /\ ~ContractReady(e)}

DeployReady(e) ==
  /\ FilesReady /\ RuntimeReady(e)
  /\ SmokeReady(e)
  /\ BlockedComponents(e) = {}

-----------------------------------------------------------------------------
(* The operator and the report scripts *)

Edit(n, v) ==
  /\ edits < MaxEdits
  /\ v # env[n]
  /\ edits' = edits + 1
  /\ env' = [env EXCEPT ![n] = v]
  /\ report' = NoReport
  /\ UNCHANGED requestVars

PrintReport ==
  /\ ~report.printed
  /\ report' = [printed |-> TRUE, blocked |-> BlockedComponents(env),
                deploy |-> DeployReady(env)]
  /\ UNCHANGED <<env, edits, requestVars>>

-----------------------------------------------------------------------------
(* The admin boundary: guardAdminRequest in front of the admin routes *)

Allowed(mode)    == [reason |-> "allowed", mode |-> mode]
Rejected(reason) == [reason |-> reason, mode |-> "blocked"]

(* Mutants: the bypass serves everybody; a missing header is compared.      *)
BypassedAnywhere(e, q) == BypassEnabled(e)
Bypassed(e, q)         == BypassEnabled(e) /\ q.remote = "loopback"
TokenReasonCompared(token) ==
  IF token = "right" THEN "allowed" ELSE "admin_token_invalid"
TokenReason(token) ==
  CASE token = "none"  -> "admin_token_missing"
    [] token = "wrong" -> "admin_token_invalid"
    [] token = "right" -> "allowed"

Authorize(e, q) ==
  IF Bypassed(e, q) THEN Allowed("local-dev-bypass")
  ELSE IF e.adminToken = "unset" THEN Rejected("admin_token_not_configured")
  ELSE IF TokenReason(q.token) = "allowed" THEN Allowed("token")
  ELSE Rejected(TokenReason(q.token))

Arrive(r, q) ==
  /\ pc[r] = "idle"
  /\ pc' = [pc EXCEPT ![r] = "audit"]
  /\ request' = [request EXCEPT ![r] = q]
  /\ decision' = [decision EXCEPT ![r] = Authorize(env, q)]
  /\ UNCHANGED <<reportVars, audits, faults>>

Enter(r) == IF decision[r].reason = "allowed" THEN "serving" ELSE "refused"

(* recordAdminAccessDecision is awaited before the handler is entered.      *)
RecordAccess(r) ==
  /\ pc[r] = "audit"
  /\ audits' = audits \cup {r}
  /\ pc' = [pc EXCEPT ![r] = Enter(r)]
  /\ UNCHANGED <<reportVars, request, decision, faults>>

(* Mutant: a failed audit write is ignored. *)
AfterLostAuditServed(r) == Enter(r)
AfterLostAudit(r)       == "server_error"

(* The Postgres insert rejects, committed or not: the router answers 500.   *)
RecordFails(r) ==
  /\ pc[r] = "audit"
  /\ faults < MaxFaults
  /\ faults' = faults + 1
  /\ audits' \in {audits, audits \cup {r}}
  /\ pc' = [pc EXCEPT ![r] = AfterLostAudit(r)]
  /\ UNCHANGED <<reportVars, request, decision>>

Next ==
  \/ \E n \in DOMAIN Values : \E v \in Values[n] : Edit(n, v)
  \/ PrintReport
  \/ \E r \in Requests :
       \/ \E token \in {"none", "wrong", "right"},
             remote \in {"loopback", "elsewhere"} :
            Arrive(r, [token |-> token, remote |-> remote])
       \/ RecordAccess(r) \/ RecordFails(r)

Spec == Init /\ [][Next]_vars

-----------------------------------------------------------------------------
(* Properties *)

(* Every variable keeps its shape, and a decision fits the request it was   *)
(* taken on: a token that was not presented is never called invalid.        *)
TypeOK ==
  /\ IsEnv(env)
  /\ report.printed \in BOOLEAN /\ report.blocked \subseteq Components
  /\ report.deploy \in BOOLEAN
  /\ pc \in [Requests -> {"idle", "audit", "serving", "refused", "server_error"}]
  /\ \A r \in Requests : pc[r] # "idle" =>
       /\ request[r].token \in {"none", "wrong", "right"}
       /\ decision[r].reason \in Reasons
       /\ decision[r].reason = "admin_token_invalid" => request[r].token = "wrong"
  /\ audits \subseteq Requests

(* No environment makes the production report ready: the runtime contract   *)
(* wants the flags off that the channel, webhook and migration gates want   *)
(* on (runtimeEnvContract.mjs:309 against lineChannelGate.mjs:26,           *)
(* webhookSecurityGate.mjs:33, migrationReadinessGate.mjs:19).              *)
ProductionStaysBlocked ==
  report.printed => report.blocked # {} /\ ~report.deploy

(* When the runtime contract does not block, no gate reads a dangerous flag *)
(* as on, although contract and gates normalize the values separately: no   *)
(* sends, no webhook processing, no migration, no admin bypass, and the     *)
(* database and admin gates agree.                                          *)
ContractKeepsGatesShut ==
  report.printed /\ "runtimeEnvContract" \notin report.blocked =>
    /\ {"line", "webhookSecurity", "migration"} \subseteq report.blocked
    /\ {"db", "admin"} \cap report.blocked = {}
    /\ ~MutationAllowed(env) /\ ~BypassEnabled(env)

(* A caller from elsewhere is only served with the token of the environment *)
(* it was decided in, whatever the operator edits meanwhile; the bypass is  *)
(* for loopback (SPRINT7_ADMIN_AUTH_BOUNDARY.md:17).                        *)
RemoteNeedsToken ==
  \A r \in Requests :
    pc[r] = "serving" /\ request[r].remote # "loopback" =>
      request[r].token = "right" /\ decision[r].mode = "token"

(* An admin handler is entered only after the access was audited, even if   *)
(* audit writes fail (server.mjs:281-293, 395-400).                         *)
ServedWasAudited ==
  \A r \in Requests : pc[r] \in {"serving", "refused"} => r \in audits
=============================================================================
