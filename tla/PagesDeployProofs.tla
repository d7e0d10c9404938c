-------------------------- MODULE PagesDeployProofs --------------------------
(***************************************************************************)
(* What the deploy report promises about the site, for any paths, route    *)
(* entries and edits.  The argument relates the two packages' checks of    *)
(* the origin to the function's: VettedOrigin.                             *)
(***************************************************************************)
EXTENDS PagesDeploy, TLAPS

Methods == {"GET", "POST"}

(* A report says what the inspections say of the files it is on; an answer  *)
(* is that of the site as deployed.                                         *)
IInv ==
  /\ reported.is = "report" => (reported.ready <=> ConfigReady(reported.on))
  /\ answer.kind # "none" =>
       /\ deployed.is = "site"
       /\ \E path \in Paths, method \in Methods :
            answer = Answered(deployed.of, path, method)

-----------------------------------------------------------------------------
(* The three checks of one origin: what the report accepts, the function    *)
(* accepts, whatever it allows besides.                                     *)
LEMMA VettedOrigin ==
  ASSUME NEW f, ConfigReady(f)
  PROVE  /\ f.origin.scheme = "https" /\ f.proxy = "current"
         /\ \A allowed \in BOOLEAN : ApiOriginOk(f.origin, allowed)
BY DEF ConfigReady, ContractReady, WranglerOk, ApiProxyOk, FunctionsOk,
       PublicOriginOk, ApiOriginOk

(* Under ready routes, only a narrower exclusion keeps a request under      *)
(* /api/ from the function.                                                 *)
LEMMA VettedRoutes ==
  ASSUME NEW f, ConfigReady(f), NEW path \in ApiPaths, ~Invoked(f, path)
  PROVE  \E p \in f.exclude \ {"/*", "/api/*"} : path \in Covers[p]
<1>1. /\ f.proxy = "current" /\ f.routes /\ "/api/*" \in f.include
      /\ {"/api/*", "/*"} \cap f.exclude = {}
  BY VettedOrigin DEF ConfigReady, PagesRoutesOk
<1>2. path \in Covers["/api/*"]
  BY PagesAssumption
<1>3. PICK p \in f.exclude : path \in Covers[p]
  BY <1>1, <1>2 DEF Invoked, FunctionPath
<1> QED
  BY <1>1, <1>3

(* The answer is about the path asked for. *)
LEMMA AnswerPath ==
  ASSUME NEW f, NEW path, NEW method
  PROVE  /\ Answered(f, path, method).path = path
         /\ Answered(f, path, method).kind \in {"static", "503", "400", "forwarded"}
BY DEF Answered, Proxied

LEMMA Invariant == Spec => []IInv
<1>1. Init => IInv
  BY DEF Init, IInv, Nothing, NoAnswer
<1>2. IInv /\ [Next]_vars => IInv'
  <2> SUFFICES ASSUME IInv, [Next]_vars PROVE IInv'
    OBVIOUS
  <2>1. CASE Report
    <3>1. reported' = [is |-> "report", on |-> files, ready |-> ConfigReady(files)]
          /\ UNCHANGED <<files, deployed, answer>>
      BY <2>1 DEF Report
    <3>2. reported'.ready <=> ConfigReady(reported'.on)
      <4>1. reported'.on = files /\ (reported'.ready <=> ConfigReady(files))
        BY <3>1, Zenon
      <4> QED
        BY <4>1, Zenon
    <3>3. (reported'.ready <=> ConfigReady(reported'.on)) <=>
            (reported.ready <=> ConfigReady(reported.on))'
      OBVIOUS
    <3> QED
      BY <3>1, <3>2, <3>3 DEF IInv
  <2>2. CASE Deploy
    BY <2>2 DEF Deploy, IInv, NoAnswer, ConfigReady
  <2>3. ASSUME NEW n \in DOMAIN Values, NEW v \in Values[n], Edit(n, v)
        PROVE  IInv'
    BY <2>3 DEF Edit, IInv
  <2>4. ASSUME NEW path \in Paths, NEW method \in Methods, Serve(path, method)
        PROVE  IInv'
    <3>1. /\ deployed.is = "site" /\ UNCHANGED <<reported, deployed>>
          /\ answer' = Answered(deployed.of, path, method)
      BY <2>4 DEF Serve
    <3> QED
      BY <3>1 DEF IInv
  <2>5. CASE UNCHANGED vars
    BY <2>5 DEF vars, IInv
  <2> QED
    BY <2>1, <2>2, <2>3, <2>4, <2>5 DEF Next, Methods
<1> QED
  BY <1>1, <1>2, PTL DEF Spec

-----------------------------------------------------------------------------
(* Theorems *)

(* The report's checks are enough for the function's: a site deployed from  *)
(* ready files forwards /api/, but for what narrower exclusions take away   *)
(* (deployReadinessGate.mjs:218-262 against functions/api/[[path]].js).     *)
THEOREM ReadySitesForward == Spec => []ReadySiteForwards
<1>1. IInv => ReadySiteForwards
  <2> SUFFICES ASSUME IInv, Vetted, answer.kind # "none", answer.path \in ApiPaths,
                      answer.kind # "forwarded"
               PROVE  \E p \in deployed.of.exclude \ {"/*", "/api/*"} :
                        answer.path \in Covers[p]
    BY DEF ReadySiteForwards
  <2> DEFINE f == deployed.of
  <2>1. ConfigReady(f)
    BY Zenon DEF IInv, Vetted
  <2>2. PICK path \in Paths, method \in Methods : answer = Answered(f, path, method)
    BY DEF IInv
  <2> HIDE DEF f
  <2>3. answer.path = path
    BY <2>2, AnswerPath
  <2>4. LocalAllowed(f) \in BOOLEAN
    BY DEF LocalAllowed
  <2>5. ~Invoked(f, path)
    BY <2>1, <2>2, <2>3, <2>4, VettedOrigin DEF Answered, Proxied
  <2> QED
    BY <2>1, <2>3, <2>5, VettedRoutes DEF f
<1> QED
  BY <1>1, Invariant, PTL

(* onRequest forwards within its bounds, whatever was deployed.             *)
THEOREM ForwardingBounded == Spec => []ForwardedInBounds
<1>1. IInv => ForwardedInBounds
  <2> SUFFICES ASSUME IInv, answer.kind = "forwarded"
               PROVE  /\ answer.path \in ApiPaths
                      /\ ~answer.origin.credentials /\ ~answer.origin.extra
                      /\ \/ answer.origin.scheme = "https"
                         \/ /\ answer.origin.host = "local" /\ deployed.of.vars = "allow-local"
                            /\ ~Vetted
    BY DEF ForwardedInBounds
  <2> DEFINE f == deployed.of
  <2>1. PICK path \in Paths, method \in Methods : answer = Answered(f, path, method)
    BY DEF IInv
  <2>2. Vetted => ConfigReady(f)
    BY Zenon DEF IInv, Vetted
  <2> HIDE DEF f
  <2>3. /\ ApiOriginOk(f.origin, LocalAllowed(f)) /\ path \in ApiPaths
        /\ answer.origin = f.origin /\ answer.path = path
    BY <2>1 DEF Answered, Proxied
  <2>4. Vetted => f.origin.scheme = "https"
    BY <2>2, VettedOrigin
  <2> QED
    BY <2>3, <2>4 DEF ApiOriginOk, LocalAllowed, f
<1> QED
  BY <1>1, Invariant, PTL
=============================================================================
