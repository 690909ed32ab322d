---------------------------- MODULE OnlineSession ----------------------------
(***************************************************************************)
(* One C2PA 2.5 verification with online checks: the facade's rounds       *)
(* (lib.rs, verify_embedded_online_v25 and verify_detached_online_v25),    *)
(* the adapter that owns every body (native_online.rs), the fetch session  *)
(* with its budget (online.rs) and the decision to fetch (online.rs,       *)
(* online_consent.rs), composed with ExternalDiscovery.                    *)
(*                                                                         *)
(* A server may answer every request with any body or failure.  The person *)
(* asked may answer every prompt differently.  A DID document is named by  *)
(* its URL.  Sizes count in units; Limit gives the largest answer accepted *)
(* for each purpose.                                                       *)
(***************************************************************************)
EXTENDS ExternalDiscovery

CONSTANTS
    PlainHttp,     \* URIs that are not https
    Pinned,        \* DID documents the caller pinned
    Evidence,      \* what callers may supply: functions from Uris to Outcomes
    Consents,      \* what may be decided before: option, environment, surface, saved choice
    OcspLists,     \* the OCSP requests a pass may ask for: <<certificate, request>>
    Limit,         \* largest answer by purpose
    MaxRequests,   \* MAX_REQUESTS
    MaxReceived    \* MAX_RECEIVED_BYTES

Purposes == {"remote_manifest", "external_data", "did_document", "ocsp"}
Certs == {need[1] : need \in UNION {Range(l) : l \in OcspLists}}

ASSUME SessionAssumption ==
    /\ PlainHttp \subseteq Uris
    /\ Pinned \subseteq Uris
    /\ Evidence \subseteq [Uris -> Outcomes]
    /\ Consents \subseteq [option : {"unset", "on", "off"},
                           environment : {"unset", "on", "off", "invalid"},
                           surface : {"library", "pipe", "terminal"},
                           saved : {"absent", "ask", "on", "off", "unreadable"}]
    /\ \A l \in OcspLists : l \in Seq(Range(l))
    /\ Limit \in [Purposes -> Nat]
    /\ MaxRequests \in Nat
    /\ MaxReceived \in Nat
    /\ None \notin [Uris -> Outcomes]
    /\ {"unavailable", "not_attempted", "unread"} \cap Bodies = {}

VARIABLES
    consent,     \* option, environment, surface and the saved preference
    supplied,    \* URIs whose outcome came from the caller
    position,    \* how many of the current list are done
    handled,     \* handled_gets
    asksOcsp,    \* the OCSP needs of the first pass, and handled_ocsp below
    handledOcsp,
    budget,      \* FetchBudget
    needed,      \* network.needed
    requests,    \* network.requests
    documents,   \* DID documents resolved: the body used, None before
    ocsp,        \* OcspUpdate: "none", "answer", "empty" or "unreachable" by certificate
    saw,         \* what discovery read for each URI, "unread" before
    judged,      \* outcomes the first pass judged with, None before
    contacted,   \* URIs a GET was sent to
    sent,        \* requests sent
    received,    \* units taken off the wire
    asked,       \* prompts shown for each URI
    refused      \* URIs a person said no to

fetchVars == <<handled, budget, requests, contacted, sent, received>>
consentVars == <<consent, asked, refused>>
sessionVars == <<supplied, position, asksOcsp, handledOcsp, needed, documents, ocsp, judged>>
vars == <<discoveryVars, fetchVars, consentVars, sessionVars, saw>>

-----------------------------------------------------------------------------
\* NativeResources::from_caller, NativeOnline::new and FetchSession::new
Init ==
    /\ InitPlan
    /\ outcomes \in Evidence
    /\ consent \in Consents
    /\ supplied = {u \in Uris : outcomes[u] # "not_attempted"}
    /\ position = 0
    /\ handled = {}
    /\ asksOcsp = <<>>
    /\ handledOcsp = {}
    /\ budget = [requests |-> MaxRequests, bytes |-> MaxReceived]
    /\ needed = {}
    /\ requests = <<>>
    /\ documents = [u \in Uris |-> None]
    /\ ocsp = [c \in Certs |-> "none"]
    /\ saw = [u \in Uris |-> "unread"]
    /\ judged = None
    /\ contacted = {}
    /\ sent = 0
    /\ received = 0
    /\ asked = [u \in Uris |-> 0]
    /\ refused = {}

\* Mutant of Standing: the saved choice counts in a library too.
StandingEverywhere ==
    IF consent.option # "unset" THEN consent.option
    ELSE IF consent.environment # "unset"
         THEN IF consent.environment = "on" THEN "on" ELSE "off"
    ELSE IF consent.saved \in {"on", "off"} THEN consent.saved
    ELSE IF consent.saved = "unreadable" \/ consent.surface # "terminal" THEN "off"
    ELSE "ask"

\* resolve_online up to the prompt: the option, then the environment, then, in
\* a command-line program only, the saved choice.  Without a terminal the
\* prompt answers nothing.
Standing ==
    IF consent.option # "unset" THEN consent.option
    ELSE IF consent.environment # "unset"
         THEN IF consent.environment = "on" THEN "on" ELSE "off"
    ELSE IF consent.surface = "library" THEN "off"
    ELSE IF consent.saved \in {"on", "off"} THEN consent.saved
    ELSE IF consent.saved = "unreadable" \/ consent.surface # "terminal" THEN "off"
    ELSE "ask"

\* prompt_for_online_consent: "always" and "never" are saved before they
\* count, and a save that fails counts as a no.
Answers == [grant : BOOLEAN, saved : {consent.saved}]
           \cup [grant : {TRUE}, saved : {"on"}] \cup [grant : {FALSE}, saved : {"off"}]

\* resolve_online for one resource; `who` is the URI, or None for OCSP
Decides(who, granted) ==
    \/ /\ Standing # "ask"
       /\ granted = (Standing = "on")
       /\ UNCHANGED consentVars
    \/ /\ Standing = "ask"
       /\ \E answer \in Answers :
            /\ granted = answer.grant
            /\ consent' = [consent EXCEPT !.saved = answer.saved]
       /\ asked' = IF who = None THEN asked ELSE [asked EXCEPT ![who] = @ + 1]
       /\ refused' = IF who = None \/ granted THEN refused ELSE refused \cup {who}

-----------------------------------------------------------------------------
\* budget_exhaustion
Exhausted == budget.requests = 0 \/ budget.bytes = 0

\* request_for_need: the answer may be as long as its purpose and the budget
\* allow.
Allowance(purpose) ==
    IF Limit[purpose] < budget.bytes THEN Limit[purpose] ELSE budget.bytes

Answer(outcome, body, keeps, used, bytes) ==
    [outcome |-> outcome, body |-> body, keeps |-> keeps, used |-> used, bytes |-> bytes]

\* FetchSession::fetch over NativeFetcher::fetch and read_body: the outcome
\* reported, the body, whether the failure settles the resource
\* (!blocked || received_response), the requests and the units spent.  A
\* reader takes one unit more than the limit to see that an answer is too
\* long.
Fetches(refusedScheme, purpose) ==
    LET limit == Allowance(purpose) IN
    IF Exhausted THEN {Answer("skipped", None, FALSE, 0, 0)}
    ELSE IF refusedScheme THEN {Answer("blocked", None, FALSE, 0, 0)}
    ELSE {Answer("blocked", None, FALSE, 1, 0), Answer("blocked", None, TRUE, 1, limit + 1)}
         \cup {Answer("failed", None, TRUE, 1, n) : n \in 0..limit}
         \cup {Answer("fetched", b, TRUE, 1, Content[b].size) :
                 b \in {b \in Bodies : Content[b].size <= limit}}

Minus(a, b) == IF b > a THEN 0 ELSE a - b

\* Mutant of Spends: an answer that is refused costs no bytes.
SpendsOnBodies(a) ==
    [requests |-> Minus(budget.requests, a.used),
     bytes |-> IF a.outcome = "fetched" THEN Minus(budget.bytes, a.bytes) ELSE budget.bytes]

\* fetch_one: what is left of the budget
Spends(a) ==
    [requests |-> Minus(budget.requests, a.used), bytes |-> Minus(budget.bytes, a.bytes)]

Sends(a, purpose, url, outcome) ==
    /\ budget' = Spends(a)
    /\ requests' = Append(requests, [purpose |-> purpose, url |-> url, outcome |-> outcome])
    /\ sent' = sent + a.used
    /\ received' = received + a.bytes

\* NativeResources::fetched and ::unavailable
Keeps(u, a) ==
    IF a.outcome = "fetched" THEN [outcomes EXCEPT ![u] = a.body]
    ELSE IF a.keeps THEN [outcomes EXCEPT ![u] = "unavailable"]
    ELSE outcomes

HasOutcome(u) == outcomes[u] # "not_attempted"

\* Mutant of Settles: only a resource with an outcome is settled.
SettlesByOutcome(u) == HasOutcome(u)

\* Mutant of Settles: only what this session handled is settled.
SettlesByHandling(u) == u \in handled

\* A resource that has an outcome, or was handled before, is not asked for.
Settles(u) == HasOutcome(u) \/ u \in handled

\* A DID document that is too large or not JSON is reported as failed.
Reported(purpose, a) ==
    IF purpose = "did_document" /\ a.outcome = "fetched" /\ ~Content[a.body].json
    THEN "failed" ELSE a.outcome

\* The GET shared by ensure_graph_resource and resolve_did_documents
Gets(u, purpose) ==
    \/ /\ Settles(u)
       /\ UNCHANGED <<outcomes, fetchVars, consentVars>>
    \/ /\ ~Settles(u)
       /\ handled' = handled \cup {u}
       /\ \/ /\ Decides(u, FALSE)
             /\ UNCHANGED <<outcomes, budget, requests, contacted, sent, received>>
          \/ /\ Decides(u, TRUE)
             /\ \E a \in Fetches(u \in PlainHttp, purpose) :
                  /\ Sends(a, purpose, u, Reported(purpose, a))
                  /\ outcomes' = Keeps(u, a)
                  /\ contacted' = IF a.used = 0 THEN contacted ELSE contacted \cup {u}

Needs(u, purpose) ==
    IF u \in supplied THEN needed ELSE needed \cup {<<purpose, u>>}

-----------------------------------------------------------------------------
\* locate_external_resources and its detached form
Locates ==
    /\ Locate
    /\ UNCHANGED <<fetchVars, consentVars, sessionVars, saw>>

\* ensure_graph_resource for the next request of the frontier
EnsureGraphResource ==
    LET u == frontier[position + 1].uri
        purpose == IF uris[u].root THEN "remote_manifest" ELSE "external_data"
    IN
    /\ pc = "planned"
    /\ position < Len(frontier)
    /\ position' = position + 1
    /\ needed' = Needs(u, purpose)
    /\ Gets(u, purpose)
    /\ UNCHANGED <<pc, planVars, walkVars, supplied, asksOcsp, handledOcsp, documents, ocsp,
                   saw, judged>>

\* continue_with, once every request of the frontier was handled
Continues ==
    /\ position = Len(frontier)
    /\ ContinueWith
    /\ position' = 0
    /\ UNCHANGED <<fetchVars, consentVars, supplied, asksOcsp, handledOcsp, needed, documents,
                   ocsp, saw, judged>>

Parsed(states, u) == states[u].rootParsed \/ states[u].segmentParsed

\* A step of continue_with; a URI it resolves is read now.
Discovers ==
    /\ Continue
    /\ saw' = [u \in Uris |->
                 IF ~Parsed(uris, u) /\ Parsed(uris', u) THEN outcomes[u] ELSE saw[u]]
    /\ UNCHANGED <<fetchVars, consentVars, sessionVars>>

\* mark_discovery_stop: the request that delivered a malformed store failed.
Marked ==
    LET i == SelectInSeq(requests, LAMBDA r : r.url = stop.uri /\ r.outcome = "fetched")
    IN  IF stop.why = "malformed" /\ stop.uri # None /\ i # 0
        THEN [requests EXCEPT ![i].outcome = "failed"] ELSE requests

EndDiscovery ==
    /\ pc = "planned"
    /\ frontier = <<>>
    /\ pc' = "dids"
    /\ requests' = Marked
    /\ UNCHANGED <<planVars, walkVars, outcomes, consentVars, sessionVars, saw, handled, budget,
                   contacted, sent, received>>

\* resolve_did_documents for the next DID
ResolveDidDocument ==
    LET u == dids[position + 1] IN
    /\ pc = "dids"
    /\ position < Len(dids)
    /\ position' = position + 1
    /\ \/ /\ u \in Pinned
          /\ UNCHANGED <<outcomes, fetchVars, consentVars, needed, documents>>
       \/ /\ u \notin Pinned
          /\ needed' = Needs(u, "did_document")
          /\ Gets(u, "did_document")
          /\ documents' = [documents EXCEPT ![u] =
                 IF outcomes'[u] \in Bodies /\ Content[outcomes'[u]].json THEN outcomes'[u]
                 ELSE None]
    /\ UNCHANGED <<pc, planVars, walkVars, supplied, asksOcsp, handledOcsp, ocsp, saw, judged>>

\* The first pass over the asset: it may fail, and it names the OCSP requests
\* that would settle a certificate.
Pass ==
    /\ pc = "dids"
    /\ position = Len(dids)
    /\ judged' = outcomes
    /\ position' = 0
    /\ \/ pc' = "failed" /\ UNCHANGED asksOcsp
       \/ pc' = "ocsp" /\ asksOcsp' \in OcspLists
    /\ UNCHANGED <<planVars, walkVars, outcomes, fetchVars, consentVars, saw, supplied,
                   handledOcsp, needed, documents, ocsp>>

\* One answer becomes the certificate's evidence; the first response stays.
OcspKept(c, a) ==
    IF a.outcome = "fetched" /\ ocsp[c] \notin {"answer", "empty"} THEN "answer"
    ELSE IF a.outcome = "blocked" /\ a.keeps /\ ocsp[c] \notin {"answer", "empty"} THEN "empty"
    ELSE IF a.outcome = "failed" /\ ocsp[c] = "none" THEN "unreachable"
    ELSE ocsp[c]

\* fetch_ocsp for the next need
FetchOcsp ==
    LET need == asksOcsp[position + 1] IN
    /\ pc = "ocsp"
    /\ position < Len(asksOcsp)
    /\ position' = position + 1
    /\ needed' = needed \cup {<<"ocsp", need>>}
    /\ handledOcsp' = handledOcsp \cup {need}
    /\ \/ /\ need \in handledOcsp
          /\ UNCHANGED <<consentVars, budget, requests, sent, received, ocsp>>
       \/ /\ need \notin handledOcsp
          /\ Decides(None, FALSE)
          /\ UNCHANGED <<budget, requests, sent, received, ocsp>>
       \/ /\ need \notin handledOcsp
          /\ Decides(None, TRUE)
          /\ \E a \in Fetches(FALSE, "ocsp") :
               /\ Sends(a, "ocsp", need[1], a.outcome)
               /\ ocsp' = [ocsp EXCEPT ![need[1]] = OcspKept(need[1], a)]
    /\ UNCHANGED <<pc, planVars, walkVars, outcomes, handled, contacted, supplied, asksOcsp,
                   documents, saw, judged>>

\* The second pass, when there is evidence, and the report
Finish ==
    /\ pc = "ocsp"
    /\ position = Len(asksOcsp)
    /\ pc' \in IF \E c \in Certs : ocsp[c] # "none" THEN {"done", "failed"} ELSE {"done"}
    /\ UNCHANGED <<planVars, walkVars, outcomes, fetchVars, consentVars, sessionVars, saw>>

Ended == pc \in {"done", "failed"} /\ UNCHANGED vars

Next ==
    \/ Locates \/ EnsureGraphResource \/ Continues \/ Discovers \/ EndDiscovery
    \/ ResolveDidDocument \/ Pass \/ FetchOcsp \/ Finish \/ Ended

\* The verification runs on: a request ends within its timeout, and a prompt
\* is answered or its input closed.
Spec == Init /\ [][Next]_vars /\ WF_vars(Next)

-----------------------------------------------------------------------------
(***************************************************************************)
(* Properties.                                                             *)
(***************************************************************************)

\* Every variable holds what the code declares it to hold.
TypeOK ==
    /\ TypeOKPlan
    /\ supplied \subseteq Uris
    /\ position \in Nat
    /\ handled \subseteq Uris
    /\ budget.requests \in 0..MaxRequests /\ budget.bytes \in 0..MaxReceived
    /\ \A i \in DOMAIN requests :
         /\ requests[i].purpose \in Purposes
         /\ requests[i].outcome \in {"fetched", "failed", "blocked", "skipped"}
    /\ documents \in [Uris -> Bodies \cup {None}]
    /\ saw \in [Uris -> Outcomes \cup {"unread"}]
    /\ refused \subseteq Uris

\* The session implements the write-once outcome map: whatever order the
\* frontiers, the DID documents and the OCSP requests come in, a URL is
\* contacted once, its outcome stays, the caller's evidence is never fetched
\* over, and no pass judges with anything that moves afterwards.
Map == INSTANCE OutcomeMap WITH
           held <- outcomes, contacted <- contacted, sent <- sent, frozen <- judged # None

ImplementsOutcomeMap == Map!Spec

\* What discovery read of a resource, the final passes read too: a resource
\* that discovery took for missing is not fetched afterwards on behalf of a
\* DID document, nor one it took for present replaced.
DiscoveryAndPassAgree ==
    \A u \in Uris : saw[u] # "unread" => saw[u] = outcomes[u]

\* Consent governs every contact: a person is asked once about a URL and one
\* refused is not contacted, even when it is found again as another kind of
\* resource; and nothing is sent on the strength of a choice saved at a
\* terminal when a library runs, nor when the operator's override is off or
\* unreadable.
ConsentGoverns ==
    /\ \A u \in Uris : asked[u] <= 1 /\ (u \in refused => u \notin contacted)
    /\ (\/ consent.option = "off"
        \/ consent.option = "unset" /\ consent.environment \in {"off", "invalid"}
        \/ consent.option = "unset" /\ consent.environment = "unset"
           /\ consent.surface # "terminal"
           /\ (consent.surface = "pipe" => consent.saved # "on"))
       => sent = 0

\* One verification stays within its budget over every frontier, DID document
\* and OCSP request: rejected, redirected and broken answers count, and at
\* most one unit past the budget is read, to see that an answer is too long.
WithinBudget ==
    /\ sent <= MaxRequests
    /\ received <= MaxReceived + 1

\* The stores whose references discovery has to follow: bodies it read.
Read(u) == saw[u] \in Bodies

\* Discovery that ends without a reason to stop is complete: every URI it
\* found was offered to the fetch session, every URI that a predecessor
\* reference names was read, and no store it read names a predecessor or,
\* for the root, a resource that it missed.
CompleteUnlessStopped ==
    (pc = "dids" /\ stop = NoStop) =>
        \A u \in Uris :
            /\ uris[u].known => HasOutcome(u) \/ u \in handled
            /\ uris[u].segment => Read(u)
            /\ Read(u) =>
                 /\ Content[saw[u]].pred.kind = "external" =>
                      uris[Content[saw[u]].pred.to].segment
                 /\ uris[u].root =>
                      \A v \in Range(Content[saw[u]].links.uris) : uris[v].known

\* The rounds end: every frontier, whatever the servers answer, leads to a
\* report or an error.
Terminates == <>(pc \in {"done", "failed"})
=============================================================================
