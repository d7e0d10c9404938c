----------------------------- MODULE PagesDeploy -----------------------------
(***************************************************************************)
(* What the public site is deployed from, the reports that read it, and    *)
(* the function that forwards /api/* to the gateway.  Two packages inspect *)
(* the same files each in its own way, and the function checks the origin  *)
(* a third time, when a request comes.  The files are edited one property  *)
(* at a time, reported on and deployed in any order.                       *)
(***************************************************************************)
EXTENDS Naturals

CONSTANTS
  Paths,       (* the paths of requests                                       *)
  ApiPaths,    (* those that start with "/api/"                               *)
  Patterns,    (* entries of _routes.json, with "/*" and "/api/*" among them  *)
  Covers,      (* Covers[p]: the paths an entry matches                       *)
  Repository,  (* the files as they are at the commit                         *)
  MaxEdits     (* bound: properties edited                                    *)

(* An origin as new URL() sees it, or what is wrong with it before that;    *)
(* "local" is localhost or 127.0.0.1, "extra" a path, query or fragment.    *)
Origins ==
  [text : {"url"}, scheme : {"https", "http"}, host : {"public", "local"},
   credentials : BOOLEAN, extra : BOOLEAN]
  \cup [text : {"blank", "garbage"}]

(* wrangler.jsonc parses, and names project, directory and date well; vars  *)
(* is what else is in its vars: nothing, the permission of local origins, a *)
(* key or a value that looks like a secret.  proxy is                       *)
(* functions/api/[[path]].js as it is, without the names the report looks   *)
(* for, with an environment variable more, or missing.                      *)
Values ==
  [wrangler |-> {"valid", "nameless", "unreadable"}, origin |-> Origins,
   strategy |-> {"node-backend-origin", "other", "absent"},
   processing |-> {"false", "other"}, sends |-> {"false", "other"},
   vars |-> {"none", "allow-local", "secret-key", "secret-value"},
   proxy |-> {"current", "unvalidated", "reads-more", "missing"},
   routes |-> BOOLEAN, include |-> SUBSET Patterns, exclude |-> SUBSET Patterns,
   example |-> {"safe", "incomplete", "filled-in", "unsafe"},
   static |-> {"clean", "names-private-env", "secret-value"}]

IsFiles(f) ==
  /\ f = [n \in DOMAIN Values |-> f[n]]
  /\ \A n \in DOMAIN Values : f[n] \in Values[n]

ASSUME PagesAssumption ==
  /\ ApiPaths \subseteq Paths
  /\ {"/*", "/api/*"} \subseteq Patterns
  /\ Covers \in [Patterns -> SUBSET Paths]
  /\ Covers["/*"] = Paths /\ Covers["/api/*"] = ApiPaths
  /\ IsFiles(Repository)
  /\ MaxEdits \in Nat

VARIABLES
  files,     (* the files in the working tree                                 *)
  edits,
  reported,  (* what the last report was about, and whether it was ready      *)
  deployed,  (* the files the site runs on                                    *)
  answer     (* the last answer of the deployed site                          *)

vars == <<files, edits, reported, deployed, answer>>

Nothing  == [is |-> "nothing"]
NoAnswer == [kind |-> "none"]

Init ==
  /\ files = Repository
  /\ edits = 0
  /\ reported = Nothing
  /\ deployed = Nothing
  /\ answer = NoAnswer

-----------------------------------------------------------------------------
(* Who accepts an origin *)

(* Mutant: only the scheme is looked at. *)
PublicOriginOkByScheme(o) == o.text = "url" /\ o.scheme = "https"
PublicOriginOk(o) ==
  /\ o.text = "url" /\ o.scheme = "https"
  /\ ~o.credentials /\ ~o.extra

ApiOriginOk(o, localAllowed) ==
  /\ o.text = "url"
  /\ o.scheme = "https" \/ (localAllowed /\ o.host = "local")
  /\ ~o.credentials /\ ~o.extra

-----------------------------------------------------------------------------
(* The inspections *)

WranglerOk(f) ==
  /\ f.wrangler = "valid"
  /\ PublicOriginOk(f.origin)
  /\ f.strategy = "node-backend-origin"
  /\ f.vars # "secret-key"
  /\ f.processing = "false" /\ f.sends = "false"

ApiProxyOk(f) == f.proxy \in {"current", "reads-more"}

PagesRoutesOk(f) ==
  /\ f.routes
  /\ "/api/*" \in f.include /\ "/*" \notin f.include
  /\ {"/api/*", "/*"} \cap f.exclude = {}

WranglerContractOk(f) ==
  /\ f.wrangler # "unreadable" /\ f.origin.text # "blank" /\ f.strategy # "absent"
  /\ f.vars = "none"
  /\ f.processing = "false" /\ f.sends = "false"

EnvExampleOk(f) == f.example = "safe"
StaticOk(f)     == f.static = "clean"
(* A missing function has nothing to object to. *)
FunctionsOk(f)  == f.proxy # "reads-more"

ContractReady(f) ==
  WranglerContractOk(f) /\ EnvExampleOk(f) /\ StaticOk(f) /\ FunctionsOk(f)

ConfigReady(f) ==
  WranglerOk(f) /\ ApiProxyOk(f) /\ PagesRoutesOk(f) /\ ContractReady(f)

-----------------------------------------------------------------------------
(* Editing, reporting, deploying *)

Edit(n, v) ==
  /\ edits < MaxEdits
  /\ v # files[n]
  /\ edits' = edits + 1
  /\ files' = [files EXCEPT ![n] = v]
  /\ UNCHANGED <<reported, deployed, answer>>

(* buildDeployReadinessReport *)
Report ==
  /\ reported' = [is |-> "report", on |-> files, ready |-> ConfigReady(files)]
  /\ UNCHANGED <<files, edits, deployed, answer>>

(* wrangler pages deploy reads its configuration; nothing ties it to the    *)
(* report.                                                                  *)
Deploy ==
  /\ files.wrangler # "unreadable"
  /\ deployed' = [is |-> "site", of |-> files]
  /\ answer' = NoAnswer
  /\ UNCHANGED <<files, edits, reported>>

-----------------------------------------------------------------------------
(* The deployed site *)

(* _routes.json decides whether a function is asked at all; without a       *)
(* usable file all paths are.  The function's own route is /api and below.  *)
FunctionPath(path) == path \in ApiPaths \/ path = "/api"
Invoked(f, path) ==
  /\ f.proxy # "missing" /\ FunctionPath(path)
  /\ f.routes =>
       /\ \E p \in f.include : path \in Covers[p]
       /\ \A p \in f.exclude : path \notin Covers[p]

(* Mutant: the second check's leniency is the only check. *)
LocalAllowedAlways(f) == TRUE
LocalAllowed(f)       == f.vars = "allow-local"

ShouldForwardBody(method) == method \notin {"GET", "HEAD"}

(* onRequest: the origin, then the path, checked again with local origins   *)
(* allowed whatever the environment says.                                   *)
Proxied(f, path, method) ==
  IF ~ApiOriginOk(f.origin, LocalAllowed(f)) THEN [kind |-> "503", path |-> path]
  ELSE IF ~ApiOriginOk(f.origin, TRUE) \/ path \notin ApiPaths
       THEN [kind |-> "400", path |-> path]
  ELSE [kind |-> "forwarded", path |-> path, origin |-> f.origin,
        body |-> ShouldForwardBody(method)]

Answered(f, path, method) ==
  IF Invoked(f, path) THEN Proxied(f, path, method) ELSE [kind |-> "static", path |-> path]

(* Another function's answers are not here. *)
Serve(path, method) ==
  /\ deployed.is = "site" /\ deployed.of.proxy \in {"current", "missing"}
  /\ answer' = Answered(deployed.of, path, method)
  /\ UNCHANGED <<files, edits, reported, deployed>>

Next ==
  \/ Report \/ Deploy
  \/ \E n \in DOMAIN Values : \E v \in Values[n] : Edit(n, v)
  \/ \E path \in Paths, method \in {"GET", "POST"} : Serve(path, method)

Spec == Init /\ [][Next]_vars

-----------------------------------------------------------------------------
(* Properties *)

Vetted ==
  /\ reported.is = "report" /\ deployed.is = "site"
  /\ reported.ready /\ reported.on = deployed.of

(* A site deployed from the files the last report called ready answers each *)
(* request under /api/ from the gateway: the report saw to the origin the   *)
(* function insists on, to the function and to its routes.  What it leaves  *)
(* to the operator is an exclusion narrower than /api/*.                    *)
ReadySiteForwards ==
  Vetted /\ answer.kind # "none" /\ answer.path \in ApiPaths =>
    \/ answer.kind = "forwarded"
    \/ \E p \in deployed.of.exclude \ {"/*", "/api/*"} : answer.path \in Covers[p]

(* Whatever is deployed, reported or not, a request is only forwarded below *)
(* /api/, to a bare origin, over https, or to this machine where wrangler's *)
(* vars allow it; a vetted site never forwards over http.                   *)
ForwardedInBounds ==
  answer.kind = "forwarded" =>
    /\ answer.path \in ApiPaths
    /\ ~answer.origin.credentials /\ ~answer.origin.extra
    /\ \/ answer.origin.scheme = "https"
       \/ /\ answer.origin.host = "local" /\ deployed.of.vars = "allow-local"
          /\ ~Vetted
=============================================================================
