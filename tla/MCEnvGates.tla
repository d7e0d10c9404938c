----------------------------- MODULE MCEnvGates -----------------------------
(***************************************************************************)
(* Instances of EnvGates: an operator who starts from .env.example, from   *)
(* the complete environment of runtime-env-contract.test.mjs, or from one  *)
(* that opens every gate but the runtime contract.                         *)
(***************************************************************************)
EXTENDS EnvGates

EnvExample ==
  [dbUrl |-> "unset", sslMode |-> "allowed", lineToken |-> "unset",
   lineSecret |-> "unset", metaSecret |-> "unset", adminToken |-> "unset",
   recipients |-> "unset", window |-> "both", mode |-> "validate-only",
   sends |-> "false", processing |-> "false", bypass |-> "false",
   mutation |-> "false", smoke |-> "false", origin |-> "unset"]

TestEnv ==
  [EnvExample EXCEPT
     !.dbUrl = "set", !.lineToken = "set", !.lineSecret = "set",
     !.metaSecret = "set", !.adminToken = "set", !.recipients = "valid",
     !.mode = "unset"]

OpenEnv ==
  [TestEnv EXCEPT
     !.mode = "known", !.sends = "true", !.processing = "true",
     !.mutation = "true", !.smoke = "true", !.origin = "valid"]

MCStarts == {EnvExample, TestEnv, OpenEnv}
=============================================================================
