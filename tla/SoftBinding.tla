----------------------------- MODULE SoftBinding -----------------------------
(***************************************************************************)
(* The Soft Binding Resolution client: crates/encypher-c2pa/src/           *)
(* soft_binding.rs.                                                        *)
(*                                                                         *)
(* A session emits one request at a time and consumes one response at a    *)
(* time; the transport belongs to whoever drives it.  The native driver    *)
(* (resolve_soft_binding, request_soft_binding_receipt_verification) stops *)
(* at the first error.  A caller of the public session may do anything the *)
(* API allows: answer with a redirect, answer when nothing is pending, call *)
(* finish at any moment.                                                   *)
(*                                                                         *)
(* Both sessions are here: flow "resolve" is SoftBindingResolverSession,   *)
(* flow "receipt" is SoftBindingReceiptVerificationSession.  A URL is its  *)
(* origin, whether it carries credentials, and what it addresses.  JSON is *)
(* the value it parses to, or Malformed.                                   *)
(***************************************************************************)
EXTENDS Integers, Sequences, FiniteSets

CONSTANTS
    Origins,      \* network origins
    Allowed,      \* options.allowed_origins, canonicalised
    Algorithms,   \* registered soft-binding algorithms
    ManifestIds,  \* manifest ids
    MaxResults,   \* the effective max_results
    MaxSpurious,  \* exploration bound: responses offered when nothing is pending
    Malformed,    \* a body parse_json refuses
    None          \* Option::None

ASSUME OriginsAssumption == Allowed \subseteq Origins
ASSUME BoundsAssumption == MaxResults \in Nat \ {0} /\ MaxSpurious \in Nat

Routes == {"bindingGet", "bindingPost", "content", "reference"}
Consents == {"uploadAsset", "discloseReference"}
Endpoints == [origin: Origins, credentials: BOOLEAN]
Matches == [id: ManifestIds, endpoint: Endpoints \cup {None}]

RequestBodies == {"none", "binding", "asset", "reference", "receipt"}
Kinds == {"discovery", "capabilities", "status", "algorithms", "query", "manifest", "receipt",
          "receiptPost"}
Requests == [kind: Kinds, endpoint: Endpoints, body: RequestBodies,
             matched: Matches \cup {None}, index: Nat]

\* An Option is Some or None.
ASSUME NoneAssumption ==
    /\ None \notin Requests /\ None \notin Matches /\ None \notin Seq(Matches)
    /\ None \notin {"ok", "error"}

\* A binding query names one algorithm and needs no consent; the other two may name one
\* and hint at another.  wellFormed: the field checks of validate other than consent.
Queries ==
    {q \in [route: Routes, algorithms: SUBSET Algorithms, consent: Consents \cup {None},
            wellFormed: BOOLEAN] :
        /\ Cardinality(q.algorithms) <= 2
        /\ q.route \in {"bindingGet", "bindingPost"} <=> q.consent = None
        /\ q.consent = None => Cardinality(q.algorithms) = 1}

VARIABLES
    flow,        \* "resolve" or "receipt"
    driver,      \* "native" or "caller"
    query, fetchStatus, fetchReceipts,   \* fixed for the session
    phase,       \* "new", "open", "closed" (consumed by finish or by an error of the driver)
    api,         \* endpoint of the API, or None
    discovered,  \* discovery is Some
    capabilities, algorithms,  \* the documents stored, or None
    statusEndpoint,
    matches,     \* matches not yet scheduled
    recovered,   \* manifests recovered so far
    pending,     \* the request awaiting a response, or None
    verified,    \* receipt flow: the repository's answer is Some
    outcome,     \* None, "error" or "ok": what finish or the driver returned
    issued,      \* history: every request that was ever pending
    answered,    \* history: the query's matches, or None
    spurious     \* exploration bound

vars == <<flow, driver, query, fetchStatus, fetchReceipts, phase, api, discovered, capabilities,
          algorithms, statusEndpoint, matches, recovered, pending, verified, outcome,
          issued, answered, spurious>>
fixed == <<flow, driver, query, fetchStatus, fetchReceipts>>

-----------------------------------------------------------------------------
\* Mutant: an allowlisted origin is enough.
RequireOrigin(endpoint) == endpoint.origin \in Allowed

\* require_allowed: an allowlisted origin and no credentials in the URL.
RequireAllowed(endpoint) == endpoint.origin \in Allowed /\ ~endpoint.credentials

\* A PendingRequest.  For a manifest or a receipt, matched names the match it is for;
\* for a receipt, index is PendingKind::Receipt(index).
Request(kind, endpoint, body) ==
    [kind |-> kind, endpoint |-> endpoint, body |-> body, matched |-> None, index |-> 0]
ManifestRequest(endpoint, match) ==
    [kind |-> "manifest", endpoint |-> endpoint, body |-> "none", matched |-> match, index |-> 0]

\* Mutant: any consent serves any route.
AnyConsent(q) == q.wellFormed

\* SoftBindingQuery::validate.
ValidQuery(q) ==
    /\ q.wellFormed
    /\ q.route = "content" => q.consent = "uploadAsset"
    /\ q.route = "reference" => q.consent = "discloseReference"

\* What the query's own request discloses.
QueryBody ==
    CASE query.route = "bindingGet" -> "none"
      [] query.route = "bindingPost" -> "binding"
      [] query.route = "content" -> "asset"
      [] query.route = "reference" -> "reference"

Init ==
    /\ flow \in {"resolve", "receipt"}
    /\ driver \in {"native", "caller"}
    /\ query \in Queries
    /\ fetchStatus \in BOOLEAN /\ fetchReceipts \in BOOLEAN
    /\ phase = "new"
    /\ api = None
    /\ discovered = FALSE /\ capabilities = None /\ algorithms = None
    /\ statusEndpoint = None
    /\ matches = <<>> /\ recovered = <<>>
    /\ pending = None
    /\ verified = FALSE
    /\ outcome = None
    /\ issued = {} /\ answered = None /\ spurious = 0

-----------------------------------------------------------------------------
(* Outcomes of a call of the session.                                      *)

\* The request becomes pending.
Schedule(request) ==
    /\ pending' = request
    /\ issued' = issued \cup {request}
    /\ UNCHANGED <<phase, outcome>>

\* The call returns Err.  accept_response has taken the pending request by then, so
\* nothing is pending any more; the native driver returns the error to its caller.
Fails ==
    /\ pending' = None
    /\ phase' = IF driver = "native" THEN "closed" ELSE phase
    /\ outcome' = IF driver = "native" THEN "error" ELSE outcome
    /\ UNCHANGED issued

\* Nothing more to request.
Completes ==
    /\ pending' = None
    /\ UNCHANGED <<phase, outcome, issued>>

\* SoftBindingResolverSession::new and SoftBindingReceiptVerificationSession::new.
\* inputsOk: online, MIME type, allowed-origins and max_results or receipt-object checks.
New(root, inputsOk) ==
    /\ phase = "new"
    /\ \/ /\ inputsOk /\ RequireAllowed(root) /\ (flow = "resolve" => ValidQuery(query))
          /\ phase' = "open"
          /\ pending' = Request("discovery", root, "none")
          /\ issued' = {Request("discovery", root, "none")}
          /\ UNCHANGED outcome
       \/ /\ ~(inputsOk /\ RequireAllowed(root) /\ (flow = "resolve" => ValidQuery(query)))
          /\ phase' = "closed" /\ outcome' = "error"
          /\ UNCHANGED <<pending, issued>>
    /\ UNCHANGED <<fixed, api, discovered, capabilities, algorithms, statusEndpoint, matches,
                   recovered, verified, answered, spurious>>

Awaits(kind) == phase = "open" /\ pending # None /\ pending.kind = kind

\* accept_response before it looks at the body: another final URL, or too many bytes.
\* fetch_transport's own failures end the native driver the same way.
RefuseResponse ==
    /\ phase = "open" /\ pending # None
    /\ Fails
    /\ UNCHANGED <<fixed, api, discovered, capabilities, algorithms, statusEndpoint, matches,
                   recovered, verified, answered, spurious>>

\* accept_response with nothing pending.
SpuriousResponse ==
    /\ phase = "open" /\ pending = None /\ driver = "caller"
    /\ spurious < MaxSpurious
    /\ spurious' = spurious + 1
    /\ UNCHANGED <<fixed, phase, api, discovered, capabilities, algorithms, statusEndpoint, matches,
                   recovered, pending, verified, outcome, issued, answered>>

\* accept_discovery, and the Discovery arm of the receipt session, which goes on to post
\* the receipt.  doc.capabilities is None when discovery names no endpoint.
AcceptDiscovery(doc) ==
    /\ Awaits("discovery")
    /\ LET usable == /\ doc # Malformed
                     /\ RequireAllowed(doc.api)
                     /\ flow = "resolve" /\ doc.capabilities # None
                          => RequireAllowed(doc.capabilities)
       IN  \/ /\ usable /\ flow = "resolve"
              /\ api' = doc.api /\ discovered' = TRUE /\ statusEndpoint' = doc.status
              /\ Schedule(Request("capabilities",
                                  IF doc.capabilities = None THEN doc.api ELSE doc.capabilities,
                                  "none"))
           \/ /\ usable /\ flow = "receipt"
              /\ Schedule(Request("receiptPost", doc.api, "receipt"))
              /\ UNCHANGED <<api, discovered, statusEndpoint>>
           \/ /\ ~usable
              /\ Fails
              /\ UNCHANGED <<api, discovered, statusEndpoint>>
    /\ UNCHANGED <<fixed, capabilities, algorithms, matches, recovered, verified, answered, spurious>>

\* Mutant: the capabilities are asked for again.
RechecksCapabilities == Schedule(Request("capabilities", api, "none"))

\* schedule_algorithms.
ScheduleAlgorithms == Schedule(Request("algorithms", api, "none"))

\* The service advertises the capability the route needs.
SupportsRoute(supported) ==
    /\ query.route = "content" => "queryByContent" \in supported
    /\ query.route = "reference" => "queryByReference" \in supported

\* accept_capabilities.  The document is stored before the status endpoint is looked at.
AcceptCapabilities(supported) ==
    /\ Awaits("capabilities")
    /\ LET supports == supported # Malformed /\ SupportsRoute(supported)
           statusUsable == statusEndpoint # None /\ RequireAllowed(statusEndpoint)
       IN  /\ capabilities' = IF supports THEN supported ELSE capabilities
           /\ \/ /\ supports /\ fetchStatus /\ statusUsable
                 /\ Schedule(Request("status", statusEndpoint, "none"))
              \/ /\ supports /\ ~fetchStatus
                 /\ ScheduleAlgorithms
              \/ /\ ~supports \/ (fetchStatus /\ ~statusUsable)
                 /\ Fails
    /\ UNCHANGED <<fixed, api, discovered, algorithms, statusEndpoint, matches, recovered,
                   verified, answered, spurious>>

\* accept_status.
AcceptStatus(wellFormed) ==
    /\ Awaits("status")
    /\ \/ wellFormed /\ ScheduleAlgorithms
       \/ ~wellFormed /\ Fails
    /\ UNCHANGED <<fixed, api, discovered, capabilities, algorithms, statusEndpoint, matches,
                   recovered, verified, answered, spurious>>

\* accept_algorithms and query_request: every algorithm the query names is advertised.
AcceptAlgorithms(advertised) ==
    /\ Awaits("algorithms")
    /\ \/ /\ advertised # Malformed /\ query.algorithms \subseteq advertised
          /\ algorithms' = advertised
          /\ Schedule(Request("query", api, QueryBody))
       \/ /\ ~(advertised # Malformed /\ query.algorithms \subseteq advertised)
          /\ Fails
          /\ UNCHANGED algorithms
    /\ UNCHANGED <<fixed, api, discovered, capabilities, statusEndpoint, matches, recovered,
                   verified, answered, spurious>>

\* directory_endpoint of the match's repository.
Repository(match) == IF match.endpoint = None THEN api ELSE match.endpoint

\* Mutant: a repository that is not allowed is skipped with the matches after it.
SkipsRefused(left) ==
    IF left # <<>> /\ RequireAllowed(Repository(Head(left)))
    THEN /\ Schedule(ManifestRequest(Repository(Head(left)), Head(left)))
         /\ matches' = Tail(left)
    ELSE Completes /\ matches' = <<>>

\* schedule_next_manifest over the matches left.  A match whose repository is not
\* allowed is consumed, and the call fails.
ScheduleNextManifest(left) ==
    \/ /\ left = <<>>
       /\ Completes
       /\ matches' = left
    \/ /\ left # <<>> /\ RequireAllowed(Repository(Head(left)))
       /\ Schedule(ManifestRequest(Repository(Head(left)), Head(left)))
       /\ matches' = Tail(left)
    \/ /\ left # <<>> /\ ~RequireAllowed(Repository(Head(left)))
       /\ Fails
       /\ matches' = Tail(left)

\* The matches accept_matches takes.
AnswerUsable(found, wellFormed) == wellFormed /\ Len(found) <= MaxResults

\* accept_matches.  wellFormed: it parses, no manifest id is empty and no similarity
\* score is above 100.
AcceptMatches(found, wellFormed) ==
    /\ Awaits("query")
    /\ \/ /\ AnswerUsable(found, wellFormed)
          /\ answered' = found
          /\ ScheduleNextManifest(found)
       \/ /\ ~AnswerUsable(found, wellFormed)
          /\ Fails
          /\ UNCHANGED <<answered, matches>>
    /\ UNCHANGED <<fixed, api, discovered, capabilities, algorithms, statusEndpoint, recovered,
                   verified, spurious>>

\* Mutant: the receipt is stored with the manifest before.
PreviousIndex == IF recovered = <<>> THEN 1 ELSE Len(recovered)

\* index = self.recovered.len() - 1 after the push, counting from one.
ReceiptIndex == Len(recovered) + 1

ReceiptRequest ==
    [kind |-> "receipt", endpoint |-> pending.endpoint, body |-> "none",
     matched |-> pending.matched, index |-> ReceiptIndex]

\* accept_manifest.  verifies: verify_with_manifest_store returned a report.
AcceptManifest(verifies) ==
    /\ Awaits("manifest")
    /\ \/ /\ verifies
          /\ recovered' = Append(recovered, [matched |-> pending.matched, receipt |-> None])
          /\ \/ /\ fetchReceipts
                /\ Schedule(ReceiptRequest)
                /\ UNCHANGED matches
             \/ /\ ~fetchReceipts
                /\ ScheduleNextManifest(matches)
       \/ /\ ~verifies
          /\ Fails
          /\ UNCHANGED <<recovered, matches>>
    /\ UNCHANGED <<fixed, api, discovered, capabilities, algorithms, statusEndpoint, verified,
                   answered, spurious>>

\* accept_receipt.  The evidence is the answer for the manifest the request named.
AcceptReceipt(wellFormed) ==
    /\ Awaits("receipt")
    /\ \/ /\ wellFormed
          /\ recovered' = [recovered EXCEPT ![pending.index].receipt = pending.matched]
          /\ ScheduleNextManifest(matches)
       \/ /\ ~wellFormed
          /\ Fails
          /\ UNCHANGED <<recovered, matches>>
    /\ UNCHANGED <<fixed, api, discovered, capabilities, algorithms, statusEndpoint, verified,
                   answered, spurious>>

\* The Verification arm of the receipt session.
AcceptReceiptPost(wellFormed) ==
    /\ Awaits("receiptPost")
    /\ \/ wellFormed /\ verified' = TRUE /\ Completes
       \/ ~wellFormed /\ Fails /\ UNCHANGED verified
    /\ UNCHANGED <<fixed, api, discovered, capabilities, algorithms, statusEndpoint, matches,
                   recovered, answered, spurious>>

\* What finish returns: only the documents of the negotiation are looked at, not
\* whether the query was answered or its matches recovered.
FinishOk ==
    /\ pending = None
    /\ IF flow = "receipt" THEN verified ELSE discovered /\ capabilities # None /\ algorithms # None

\* finish consumes the session.  The native driver calls it once nothing is pending.
Finish ==
    /\ phase = "open"
    /\ driver = "native" => pending = None
    /\ phase' = "closed"
    /\ outcome' = IF FinishOk THEN "ok" ELSE "error"
    /\ UNCHANGED <<fixed, api, discovered, capabilities, algorithms, statusEndpoint, matches,
                   recovered, pending, verified, issued, answered, spurious>>

DiscoveryDocs == [api: Endpoints, capabilities: Endpoints \cup {None},
                  status: Endpoints \cup {None}]

\* Responses of the service (external).
Respond ==
    \/ \E doc \in DiscoveryDocs \cup {Malformed} : AcceptDiscovery(doc)
    \/ \E supported \in (SUBSET {"queryByContent", "queryByReference"}) \cup {Malformed} :
          AcceptCapabilities(supported)
    \/ \E wellFormed \in BOOLEAN : AcceptStatus(wellFormed)
    \/ \E advertised \in (SUBSET Algorithms) \cup {Malformed} : AcceptAlgorithms(advertised)
    \/ \E found \in UNION {[1..n -> Matches] : n \in 0..(MaxResults + 1)},
          wellFormed \in BOOLEAN : AcceptMatches(found, wellFormed)
    \/ \E verifies \in BOOLEAN : AcceptManifest(verifies)
    \/ \E wellFormed \in BOOLEAN : AcceptReceipt(wellFormed)
    \/ \E wellFormed \in BOOLEAN : AcceptReceiptPost(wellFormed)

Next ==
    \/ \E root \in Endpoints, inputsOk \in BOOLEAN : New(root, inputsOk)
    \/ Respond
    \/ RefuseResponse
    \/ SpuriousResponse
    \/ Finish

\* The native driver is a loop: it takes its next step.  A public caller need not.
Fairness == WF_vars(driver = "native" /\ Next)

Spec == Init /\ [][Next]_vars /\ Fairness

-----------------------------------------------------------------------------
(* Properties.                                                             *)

\* The session's fields have the types of its structs, and a receipt's index names a
\* manifest already recovered.
TypeOK ==
    /\ phase \in {"new", "open", "closed"}
    /\ outcome \in {None, "ok", "error"} /\ (outcome # None <=> phase = "closed")
    /\ api \in Endpoints \cup {None} /\ statusEndpoint \in Endpoints \cup {None}
    /\ pending # None =>
         /\ pending.kind \in Kinds /\ pending.endpoint \in Endpoints
         /\ pending.body \in RequestBodies /\ pending.matched \in Matches \cup {None}
         /\ pending.kind = "receipt" => pending.index \in DOMAIN recovered
    /\ capabilities \in (SUBSET {"queryByContent", "queryByReference"}) \cup {None}
    /\ algorithms \in (SUBSET Algorithms) \cup {None}
    /\ Len(matches) <= MaxResults /\ Len(recovered) <= MaxResults

\* Whatever the discovery document and the matches say, every request of the session
\* goes to an allowlisted origin and to a URL without credentials (require_allowed on
\* the root, the API, the capabilities and status endpoints and every repository).
RequestsStayAllowed ==
    \A r \in issued : r.endpoint.origin \in Allowed /\ ~r.endpoint.credentials

\* The asset or its reference leaves the process only for the one route the caller
\* selected and with the matching consent (validate, query_request); a receipt leaves it
\* only in a session opened to submit one.
DisclosesWithConsent ==
    \A r \in issued :
        /\ r.body = "asset" => query.route = "content" /\ query.consent = "uploadAsset"
        /\ r.body = "reference" =>
             query.route = "reference" /\ query.consent = "discloseReference"
        /\ r.body \in {"asset", "reference", "binding"} => flow = "resolve"
        /\ r.body = "receipt" => flow = "receipt"

\* A manifest recovered is the answer to a match, in the order of the answer, and the
\* receipt stored with it is the repository's answer for that manifest (the index kept in
\* PendingKind::Receipt over two round trips); a service that answers with more matches than
\* asked for gets none of them fetched.
RecoveredInOrder ==
    Len(recovered) <= MaxResults /\ \A i \in DOMAIN recovered :
        /\ answered # None /\ i \in DOMAIN answered
        /\ recovered[i].matched = answered[i]
        /\ recovered[i].receipt \in {None, answered[i]}

\* What a result promises: every match of the query's answer was fetched and verified, and
\* has its receipt when receipts were asked for.
Complete ==
    /\ answered # None
    /\ Len(recovered) = Len(answered)
    /\ fetchReceipts => \A i \in DOMAIN recovered : recovered[i].receipt # None

\* resolve_soft_binding returns Ok only with complete evidence.
NativeComplete == driver = "native" /\ flow = "resolve" /\ outcome = "ok" => Complete

\* The native driver returns: every answer, refusal or transport failure brings it nearer
\* to the end (matches are consumed, never added).
NativeReturns == driver = "native" ~> outcome # None
=============================================================================
