---------------------------- MODULE MCPagesDeploy ----------------------------
(***************************************************************************)
(* The files of the repository and the site's own requests, with routes    *)
(* that are too wide and too narrow.                                       *)
(***************************************************************************)
EXTENDS PagesDeploy

MCApiPaths == {"/api/solar-estimate", "/api/admin/reply-drafts"}
MCPaths    == MCApiPaths \cup {"/api", "/admin-outbox"}
MCPatterns == {"/*", "/api/*", "/api", "/api/admin/*"}
MCCovers   ==
  [p \in MCPatterns |->
     CASE p = "/*"           -> MCPaths
       [] p = "/api/*"       -> MCApiPaths
       [] p = "/api"         -> {"/api"}
       [] p = "/api/admin/*" -> {"/api/admin/reply-drafts"}]

MCRepository ==
  [wrangler |-> "valid",
   origin |-> [text |-> "url", scheme |-> "https", host |-> "public",
               credentials |-> FALSE, extra |-> FALSE],
   strategy |-> "node-backend-origin", processing |-> "false", sends |-> "false",
   vars |-> "none", proxy |-> "current", routes |-> TRUE,
   include |-> {"/api/*"}, exclude |-> {}, example |-> "safe", static |-> "clean"]
=============================================================================
