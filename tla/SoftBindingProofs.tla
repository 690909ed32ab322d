-------------------------- MODULE SoftBindingProofs --------------------------
(***************************************************************************)
(* The resolver's promises, for every set of origins, algorithms and       *)
(* manifest ids, every answer of the service and any driver: requests stay *)
(* on the allowlist, disclosure has consent, recovery keeps the order of   *)
(* the answer, and the native driver returns Ok only with all of it.       *)
(*                                                                         *)
(* None of them is inductive.  What is asked next depends on the API       *)
(* endpoint, on the pending request and on the matches left, so the        *)
(* invariant says that the API endpoint was checked (InFlow), that nothing *)
(* is recovered before the query is answered (Negotiating), and that the   *)
(* manifests recovered, the one pending and the matches left are together  *)
(* the answer (Position).                                                  *)
(***************************************************************************)
EXTENDS SoftBinding, SequenceTheorems, TLAPS

-----------------------------------------------------------------------------
(* The inductive invariant.                                                *)

Recoveries == [matched : Matches, receipt : Matches \cup {None}]

\* Requests before the answer to the query, and after discovery
Early == {"discovery", "capabilities", "status", "algorithms", "query", "receiptPost"}
Later == {"capabilities", "status", "algorithms", "query", "manifest", "receipt"}

\* What a request discloses is what this session may disclose.
Consented(r) ==
    /\ r.body = "asset" => query.route = "content" /\ query.consent = "uploadAsset"
    /\ r.body = "reference" =>
         query.route = "reference" /\ query.consent = "discloseReference"
    /\ r.body \in {"asset", "reference", "binding"} => flow = "resolve"
    /\ r.body = "receipt" => flow = "receipt"

Typed ==
    /\ flow \in {"resolve", "receipt"} /\ driver \in {"native", "caller"}
    /\ query \in Queries /\ fetchReceipts \in BOOLEAN
    /\ phase \in {"new", "open", "closed"}
    /\ outcome \in {None, "ok", "error"}
    /\ outcome # None <=> phase = "closed"
    /\ api \in Endpoints \cup {None} /\ statusEndpoint \in Endpoints \cup {None}
    /\ capabilities \in (SUBSET {"queryByContent", "queryByReference"}) \cup {None}
    /\ algorithms \in (SUBSET Algorithms) \cup {None}
    /\ pending \in Requests \cup {None}
    /\ matches \in Seq(Matches) /\ recovered \in Seq(Recoveries)
    /\ answered \in Seq(Matches) \cup {None}
    /\ Len(matches) <= MaxResults

\* A session that was not opened has nothing.
Fresh ==
    phase = "new" =>
        /\ pending = None /\ issued = {} /\ answered = None
        /\ recovered = <<>> /\ matches = <<>>

Issued == \A r \in issued : RequireAllowed(r.endpoint) /\ Consented(r)

\* Nothing is pending in a session whose query was refused, and what is asked
\* after discovery is asked with a checked API endpoint.
InFlow ==
    pending # None =>
        /\ RequireAllowed(pending.endpoint)
        /\ flow = "resolve" => ValidQuery(query)
        /\ pending.kind \in Later => flow = "resolve" /\ api \in Endpoints /\ RequireAllowed(api)
        /\ pending.kind = "receiptPost" => flow = "receipt"

\* Nothing is recovered before the query is answered.
Negotiating ==
    /\ pending # None /\ pending.kind \in Early => answered = None
    /\ answered = None => recovered = <<>> /\ matches = <<>>

\* What was recovered is the beginning of the answer.
Ordered ==
    answered # None =>
        /\ Len(answered) <= MaxResults
        /\ Len(recovered) <= Len(answered)
        /\ \A i \in 1..Len(recovered) :
             recovered[i].matched = answered[i] /\ recovered[i].receipt \in {None, answered[i]}

\* left is the answer after its first n matches.
Left(left, n) ==
    /\ answered # None
    /\ n + Len(left) = Len(answered)
    /\ \A i \in 1..Len(left) : left[i] = answered[n + i]

\* What was recovered, what is pending and what is left make up the answer.
Position ==
    /\ pending # None /\ pending.kind = "manifest" =>
         /\ Left(matches, Len(recovered) + 1)
         /\ pending.matched = answered[Len(recovered) + 1]
    /\ pending # None /\ pending.kind = "receipt" =>
         /\ Left(matches, Len(recovered))
         /\ Len(recovered) > 0
         /\ pending.index = Len(recovered)
         /\ pending.matched = answered[Len(recovered)]

\* Receipts wanted are there, but for the one that is pending.
Receipts ==
    pending # None /\ fetchReceipts =>
        \A i \in 1..Len(recovered) :
            recovered[i].receipt # None \/ (pending.kind = "receipt" /\ i = Len(recovered))

\* The native driver has nothing pending only at the end.
AtEnd ==
    /\ driver = "native" /\ flow = "resolve" /\ phase = "open" /\ pending = None => Complete
    /\ NativeComplete

Inv ==
    /\ Typed /\ Fresh /\ Issued /\ InFlow /\ Negotiating /\ Ordered /\ Position /\ Receipts
    /\ AtEnd

-----------------------------------------------------------------------------
(* What the operations of the session build.                               *)

\* The requests json_get, json_post and the manifest and receipt arms make.
LEMMA RequestsAre ==
    ASSUME NEW e \in Endpoints
    PROVE  /\ \A k \in Kinds, b \in RequestBodies :
                /\ Request(k, e, b) \in Requests
                /\ Request(k, e, b).kind = k /\ Request(k, e, b).endpoint = e
                /\ Request(k, e, b).body = b
           /\ \A m \in Matches :
                /\ ManifestRequest(e, m) \in Requests
                /\ ManifestRequest(e, m).kind = "manifest"
                /\ ManifestRequest(e, m).endpoint = e
                /\ ManifestRequest(e, m).body = "none"
                /\ ManifestRequest(e, m).matched = m
  BY DEF Request, ManifestRequest, Requests, Kinds, RequestBodies

\* A request without a body discloses nothing.
LEMMA NothingDisclosed ==
    ASSUME NEW r, r.body = "none" PROVE Consented(r)
  BY DEF Consented

\* What the four routes send.
LEMMA QueryBodyIs ==
    ASSUME query \in Queries
    PROVE  /\ QueryBody \in RequestBodies
           /\ \/ query.route = "bindingGet" /\ QueryBody = "none"
              \/ query.route = "bindingPost" /\ QueryBody = "binding"
              \/ query.route = "content" /\ QueryBody = "asset"
              \/ query.route = "reference" /\ QueryBody = "reference"
  <1>1. query.route \in {"bindingGet", "bindingPost", "content", "reference"}
    BY DEF Queries, Routes
  <1>2. \/ query.route = "bindingGet" /\ QueryBody = "none"
        \/ query.route = "bindingPost" /\ QueryBody = "binding"
        \/ query.route = "content" /\ QueryBody = "asset"
        \/ query.route = "reference" /\ QueryBody = "reference"
    BY <1>1 DEF QueryBody
  <1> QED
    BY <1>2 DEF RequestBodies

\* A query that validate accepts discloses only what it has consent for.
LEMMA QueryConsented ==
    ASSUME query \in Queries, ValidQuery(query), flow = "resolve", NEW r, r.body = QueryBody
    PROVE  Consented(r)
  <1>1. /\ query.route = "content" => query.consent = "uploadAsset"
        /\ query.route = "reference" => query.consent = "discloseReference"
    BY DEF ValidQuery
  <1> QED
    BY <1>1, QueryBodyIs DEF Consented

\* Where a match's manifest is asked for.
LEMMA RepositoryIs ==
    ASSUME api \in Endpoints, NEW m \in Matches PROVE Repository(m) \in Endpoints
  BY DEF Repository, Matches

-----------------------------------------------------------------------------
(* The ways a step of the session ends.                                    *)

\* What a step leaves alone.
Kept == UNCHANGED <<flow, driver, query, fetchReceipts>>

\* The documents of the negotiation keep their types.
Documents ==
    /\ api \in Endpoints \cup {None} /\ statusEndpoint \in Endpoints \cup {None}
    /\ capabilities \in (SUBSET {"queryByContent", "queryByReference"}) \cup {None}
    /\ algorithms \in (SUBSET Algorithms) \cup {None}

\* An error takes the pending request and leaves what was recovered.
LEMMA FailsKeeps ==
    ASSUME Inv, phase = "open", pending # None, Fails, Kept, Documents',
           UNCHANGED <<answered, recovered>>,
           matches' \in Seq(Matches), Len(matches') <= MaxResults,
           answered = None => matches' = <<>>
    PROVE  Inv'
  <1>1. /\ pending' = None /\ issued' = issued
        /\ \/ driver = "native" /\ phase' = "closed" /\ outcome' = "error"
           \/ driver = "caller" /\ phase' = "open" /\ outcome' = outcome
    BY DEF Fails, Inv, Typed
  <1>2. Typed'
    BY <1>1, NoneAssumption DEF Inv, Typed, Kept, Documents
  <1>3. Fresh'
    BY <1>1 DEF Fresh
  <1>4. Issued'
    BY <1>1 DEF Inv, Issued, Consented, Kept
  <1>5. InFlow' /\ Position' /\ Receipts'
    BY <1>1 DEF InFlow, Position, Receipts
  <1>6. Negotiating' /\ Ordered'
    BY <1>1 DEF Inv, Negotiating, Ordered
  <1>7. AtEnd'
    BY <1>1, NoneAssumption DEF Inv, Typed, AtEnd, NativeComplete, Kept
  <1> QED
    BY <1>2, <1>3, <1>4, <1>5, <1>6, <1>7 DEF Inv

\* A request of the negotiation becomes pending.
LEMMA NegotiationKeeps ==
    ASSUME Inv, phase = "open", answered = None, Kept, Documents',
           NEW r \in Requests, r.kind \in Early, Schedule(r),
           RequireAllowed(r.endpoint), Consented(r),
           flow = "resolve" => ValidQuery(query),
           r.kind \in Later => flow = "resolve" /\ api' \in Endpoints /\ RequireAllowed(api'),
           r.kind = "receiptPost" => flow = "receipt",
           UNCHANGED <<answered, recovered, matches>>
    PROVE  Inv'
  <1>1. /\ pending' = r /\ issued' = issued \cup {r} /\ phase' = "open" /\ outcome' = outcome
        /\ pending' # None
    BY NoneAssumption DEF Schedule
  <1>2. Typed'
    BY <1>1 DEF Inv, Typed, Kept, Documents
  <1>3. Fresh'
    BY <1>1 DEF Fresh
  <1>4. Issued'
    BY <1>1 DEF Inv, Issued, Consented, Kept
  <1>5. InFlow'
    BY <1>1 DEF InFlow, Kept, ValidQuery
  <1>6. Negotiating' /\ Ordered'
    BY <1>1 DEF Inv, Negotiating, Ordered
  <1>7. r.kind \notin {"manifest", "receipt"}
    BY DEF Early
  <1>8. Position'
    BY <1>1, <1>7 DEF Position
  <1>9. recovered' = <<>>
    BY DEF Inv, Negotiating
  <1>10. Receipts'
    BY <1>9 DEF Receipts
  <1>11. AtEnd'
    BY <1>1, NoneAssumption DEF Inv, Typed, AtEnd, NativeComplete, Kept
  <1> QED
    BY <1>2, <1>3, <1>4, <1>5, <1>6, <1>8, <1>10, <1>11 DEF Inv

\* What is left of a sequence of matches.
LEMMA TailOf ==
    ASSUME NEW left \in Seq(Matches), left # <<>>
    PROVE  /\ Head(left) \in Matches /\ Head(left) = left[1] /\ 1 \in 1..Len(left)
           /\ Tail(left) \in Seq(Matches) /\ Len(left) \in Nat /\ Len(left) >= 1
           /\ Len(Tail(left)) = Len(left) - 1
           /\ \A i \in 1..Len(Tail(left)) : Tail(left)[i] = left[i + 1] /\ i + 1 \in 1..Len(left)
  OBVIOUS

\* The next manifest is asked for, or the resolution is complete.
LEMMA NextManifestKeeps ==
    ASSUME Inv, phase = "open", pending # None, pending.kind \in Later, Kept, Documents',
           api' = api, NEW left \in Seq(Matches), ScheduleNextManifest(left),
           answered' \in Seq(Matches), Len(answered') <= MaxResults,
           recovered' \in Seq(Recoveries),
           \A i \in 1..Len(recovered') :
             /\ recovered'[i].matched = answered'[i]
             /\ recovered'[i].receipt \in {None, answered'[i]}
             /\ fetchReceipts => recovered'[i].receipt # None,
           Len(recovered') + Len(left) = Len(answered'),
           \A i \in 1..Len(left) : left[i] = answered'[Len(recovered') + i]
    PROVE  Inv'
  <1>1. /\ answered' # None /\ Len(answered') \in Nat /\ Len(recovered') \in Nat
        /\ Len(left) \in Nat /\ MaxResults \in Nat
    BY NoneAssumption, BoundsAssumption
  <1>2. Len(recovered') <= Len(answered') /\ Len(left) <= MaxResults
    BY <1>1
  <1>3. Negotiating' <=> ~(pending' # None /\ pending'.kind \in Early)
    BY <1>1 DEF Negotiating
  <1>4. Ordered'
    BY <1>1, <1>2 DEF Ordered
  <1>5. /\ flow = "resolve" /\ api \in Endpoints /\ RequireAllowed(api) /\ ValidQuery(query)
    BY DEF Inv, InFlow, Typed
  <1>6. CASE left = <<>> /\ Completes /\ matches' = left
    <2>1. pending' = None /\ UNCHANGED <<phase, outcome, issued>>
      BY <1>6 DEF Completes
    <2>2. Len(left) = 0
      BY <1>6
    <2>3. Typed'
      BY <1>1, <1>2, <1>6, <2>1 DEF Inv, Typed, Kept, Documents
    <2>4. Fresh' /\ InFlow' /\ Position' /\ Receipts' /\ Negotiating'
      BY <1>3, <2>1 DEF Fresh, InFlow, Position, Receipts
    <2>5. Issued'
      BY <2>1 DEF Inv, Issued, Consented, Kept
    <2>6. Complete'
      <3>1. DOMAIN recovered' = 1..Len(recovered')
        OBVIOUS
      <3>2. Len(recovered') = Len(answered')
        BY <1>1, <2>2
      <3> QED
        BY <1>1, <3>1, <3>2 DEF Complete, Kept
    <2>7. AtEnd'
      BY <2>6 DEF AtEnd, NativeComplete
    <2> QED
      BY <1>4, <2>3, <2>4, <2>5, <2>7 DEF Inv
  <1>7. CASE /\ left # <<>> /\ RequireAllowed(Repository(Head(left)))
             /\ Schedule(ManifestRequest(Repository(Head(left)), Head(left)))
             /\ matches' = Tail(left)
    <2> DEFINE m == Head(left)
               r == ManifestRequest(Repository(m), m)
    <2>1. /\ m \in Matches /\ m = left[1] /\ 1 \in 1..Len(left)
          /\ matches' \in Seq(Matches) /\ Len(matches') = Len(left) - 1
          /\ \A i \in 1..Len(matches') : matches'[i] = left[i + 1] /\ i + 1 \in 1..Len(left)
      BY <1>7, TailOf
    <2>2. Repository(m) \in Endpoints
      BY <1>5, <2>1, RepositoryIs
    <2> HIDE DEF m
    <2>3. /\ r \in Requests /\ r.kind = "manifest" /\ r.endpoint = Repository(m)
          /\ r.body = "none" /\ r.matched = m
      BY <2>1, <2>2, RequestsAre
    <2>4. pending' = r /\ issued' = issued \cup {r} /\ UNCHANGED <<phase, outcome>>
      BY <1>7 DEF Schedule, m
    <2>5. RequireAllowed(Repository(m))
      BY <1>7 DEF m
    <2> HIDE DEF r
    <2>6. pending' # None
      BY <2>3, <2>4, NoneAssumption
    <2>7. Typed'
      BY <1>1, <1>2, <2>1, <2>3, <2>4 DEF Inv, Typed, Kept, Documents
    <2>8. Fresh'
      BY <2>4 DEF Fresh
    <2>9. Issued'
      <3>1. Consented(r)
        BY <2>3, NothingDisclosed
      <3> QED
        BY <2>3, <2>4, <2>5, <3>1 DEF Inv, Issued, Consented, Kept
    <2>10. InFlow'
      BY <1>5, <2>3, <2>4, <2>5, NoneAssumption DEF Inv, InFlow, Kept, ValidQuery
    <2>11. Negotiating'
      BY <1>3, <2>3, <2>4 DEF Early
    <2>12. Position'
      <3>1. Left(matches, Len(recovered) + 1)'
        <4>1. ASSUME NEW i \in 1..Len(matches')
              PROVE  matches'[i] = answered'[(Len(recovered') + 1) + i]
          <5>1. matches'[i] = left[i + 1] /\ i + 1 \in 1..Len(left)
            BY <2>1
          <5>2. left[i + 1] = answered'[Len(recovered') + (i + 1)]
            BY <5>1
          <5>3. Len(recovered') + (i + 1) = (Len(recovered') + 1) + i
            BY <1>1
          <5> QED
            BY <5>1, <5>2, <5>3
        <4>2. (Len(recovered') + 1) + Len(matches') = Len(answered')
          <5> SUFFICES ASSUME NEW a, a = Len(recovered'), NEW b, b = Len(left),
                              NEW c, c = Len(answered'), NEW d, d = Len(matches')
                       PROVE  (a + 1) + d = c
            OBVIOUS
          <5>1. d = b - 1 /\ a + b = c
            BY <2>1
          <5>2. a \in Nat /\ b \in Nat
            BY <1>1
          <5> QED
            BY <5>1, <5>2
        <4> QED
          BY <1>1, <4>1, <4>2 DEF Left
      <3>2. pending'.matched = answered'[Len(recovered') + 1]
        BY <2>1, <2>3, <2>4
      <3> QED
        BY <2>3, <2>4, <3>1, <3>2 DEF Position
    <2>13. Receipts'
      BY DEF Receipts, Kept
    <2>14. AtEnd'
      BY <2>4, <2>6, NoneAssumption DEF Inv, Typed, AtEnd, NativeComplete
    <2> QED
      BY <1>4, <2>7, <2>8, <2>9, <2>10, <2>11, <2>12, <2>13, <2>14 DEF Inv
  <1>8. CASE left # <<>> /\ Fails /\ matches' = Tail(left)
    <2>1. /\ matches' \in Seq(Matches) /\ Len(matches') <= MaxResults
      BY <1>1, <1>2, <1>8, TailOf
    <2>2. /\ pending' = None /\ issued' = issued
          /\ \/ driver = "native" /\ phase' = "closed" /\ outcome' = "error"
             \/ driver = "caller" /\ phase' = "open" /\ outcome' = outcome
      BY <1>8 DEF Fails, Inv, Typed
    <2>3. Typed'
      BY <2>1, <2>2, NoneAssumption DEF Inv, Typed, Kept, Documents
    <2>4. Fresh' /\ InFlow' /\ Position' /\ Receipts' /\ Negotiating'
      BY <1>3, <2>2 DEF Fresh, InFlow, Position, Receipts
    <2>5. Issued'
      BY <2>2 DEF Inv, Issued, Consented, Kept
    <2>6. AtEnd'
      BY <2>2, NoneAssumption DEF Inv, Typed, AtEnd, NativeComplete, Kept
    <2> QED
      BY <1>4, <2>3, <2>4, <2>5, <2>6 DEF Inv
  <1> QED
    BY <1>6, <1>7, <1>8 DEF ScheduleNextManifest

-----------------------------------------------------------------------------
(* The operations.                                                         *)

\* What an awaited response finds.
LEMMA Awaiting ==
    ASSUME Inv, NEW k \in Kinds, Awaits(k)
    PROVE  /\ phase = "open" /\ pending # None /\ pending.kind = k /\ pending \in Requests
           /\ pending.endpoint \in Endpoints /\ RequireAllowed(pending.endpoint)
           /\ flow = "resolve" => ValidQuery(query)
           /\ k \in Later => flow = "resolve" /\ api \in Endpoints /\ RequireAllowed(api)
           /\ k = "receiptPost" => flow = "receipt"
           /\ k \in Early => answered = None /\ recovered = <<>> /\ matches = <<>>
  BY DEF Awaits, Inv, Typed, InFlow, Negotiating, Requests

\* The two session constructors.
LEMMA NewKeeps ==
    ASSUME Inv, NEW root \in Endpoints, NEW inputsOk \in BOOLEAN, New(root, inputsOk)
    PROVE  Inv'
  <1> DEFINE r == Request("discovery", root, "none")
  <1>1. /\ phase = "new" /\ Kept
        /\ UNCHANGED <<api, statusEndpoint, capabilities, algorithms, matches, recovered, answered>>
        /\ \/ /\ RequireAllowed(root) /\ (flow = "resolve" => ValidQuery(query))
              /\ phase' = "open" /\ pending' = r /\ issued' = {r} /\ outcome' = outcome
           \/ phase' = "closed" /\ outcome' = "error" /\ UNCHANGED <<pending, issued>>
    BY DEF New, Kept, fixed
  <1>2. pending = None /\ issued = {} /\ answered = None /\ recovered = <<>> /\ matches = <<>>
    BY <1>1 DEF Inv, Fresh
  <1>3. r \in Requests /\ r.kind = "discovery" /\ r.endpoint = root /\ r.body = "none"
    BY RequestsAre DEF Kinds, RequestBodies
  <1> HIDE DEF r
  <1>4. r # None /\ Consented(r)
    BY <1>3, NoneAssumption, NothingDisclosed
  <1>5. Negotiating' /\ Ordered'
    BY <1>1, <1>2 DEF Negotiating, Ordered
  <1>6. CASE /\ RequireAllowed(root) /\ (flow = "resolve" => ValidQuery(query))
             /\ phase' = "open" /\ pending' = r /\ issued' = {r} /\ outcome' = outcome
    <2>1. Typed'
      BY <1>1, <1>3, <1>6 DEF Inv, Typed, Kept
    <2>2. Fresh' /\ Issued'
      BY <1>1, <1>3, <1>4, <1>6 DEF Fresh, Issued, Consented, Kept
    <2>3. InFlow' /\ Position'
      BY <1>1, <1>3, <1>6 DEF InFlow, Position, Kept, ValidQuery, Later
    <2>4. Receipts'
      BY <1>1, <1>2 DEF Receipts
    <2>5. AtEnd'
      BY <1>1, <1>4, <1>6, NoneAssumption DEF Inv, Typed, AtEnd, NativeComplete
    <2> QED
      BY <1>5, <2>1, <2>2, <2>3, <2>4, <2>5 DEF Inv
  <1>7. CASE phase' = "closed" /\ outcome' = "error" /\ UNCHANGED <<pending, issued>>
    <2>1. Typed'
      BY <1>1, <1>7, NoneAssumption DEF Inv, Typed, Kept
    <2>2. Fresh' /\ Issued'
      BY <1>2, <1>7 DEF Fresh, Issued
    <2>3. InFlow' /\ Position' /\ Receipts'
      BY <1>2, <1>7 DEF InFlow, Position, Receipts
    <2>4. AtEnd'
      BY <1>7 DEF AtEnd, NativeComplete
    <2> QED
      BY <1>5, <2>1, <2>2, <2>3, <2>4 DEF Inv
  <1> QED
    BY <1>1, <1>6, <1>7

\* accept_response refuses the answer.
LEMMA RefuseKeeps == Inv /\ RefuseResponse => Inv'
  <1> SUFFICES ASSUME Inv, RefuseResponse PROVE Inv'
    OBVIOUS
  <1>1. /\ phase = "open" /\ pending # None /\ Fails /\ Kept /\ Documents'
        /\ UNCHANGED <<answered, recovered, matches>>
    BY DEF RefuseResponse, Kept, fixed, Documents, Inv, Typed
  <1>2. matches' \in Seq(Matches) /\ Len(matches') <= MaxResults
          /\ (answered = None => matches' = <<>>)
    BY <1>1 DEF Inv, Typed, Negotiating
  <1> QED
    BY <1>1, <1>2, FailsKeeps

\* A failing answer of the negotiation.
LEMMA EarlyFails ==
    ASSUME Inv, phase = "open", pending # None, Fails, Kept, Documents',
           UNCHANGED <<answered, recovered, matches>>
    PROVE  Inv'
  <1>1. matches' \in Seq(Matches) /\ Len(matches') <= MaxResults
          /\ (answered = None => matches' = <<>>)
    BY DEF Inv, Typed, Negotiating
  <1> QED
    BY <1>1, FailsKeeps

\* accept_discovery, and the discovery arm of the receipt session.
LEMMA DiscoveryKeeps ==
    ASSUME Inv, NEW doc \in DiscoveryDocs \cup {Malformed}, AcceptDiscovery(doc)
    PROVE  Inv'
  <1>1. Awaits("discovery") /\ Kept
        /\ UNCHANGED <<capabilities, algorithms, answered, recovered, matches>>
    BY DEF AcceptDiscovery, Kept, fixed
  <1>2. /\ phase = "open" /\ pending # None /\ answered = None
        /\ flow = "resolve" => ValidQuery(query)
    BY <1>1, Awaiting DEF Kinds, Early
  <1> DEFINE next == IF doc.capabilities = None THEN doc.api ELSE doc.capabilities
             c == Request("capabilities", next, "none")
             p == Request("receiptPost", doc.api, "receipt")
  <1>3. \/ /\ doc # Malformed /\ RequireAllowed(doc.api) /\ flow = "resolve"
           /\ doc.capabilities # None => RequireAllowed(doc.capabilities)
           /\ api' = doc.api /\ statusEndpoint' = doc.status /\ Schedule(c)
        \/ /\ doc # Malformed /\ RequireAllowed(doc.api) /\ flow = "receipt"
           /\ Schedule(p) /\ UNCHANGED <<api, statusEndpoint>>
        \/ Fails /\ UNCHANGED <<api, statusEndpoint>>
    BY DEF AcceptDiscovery
  <1>4. CASE /\ doc # Malformed /\ RequireAllowed(doc.api) /\ flow = "resolve"
             /\ doc.capabilities # None => RequireAllowed(doc.capabilities)
             /\ api' = doc.api /\ statusEndpoint' = doc.status /\ Schedule(c)
    <2>1. /\ doc.api \in Endpoints /\ doc.status \in Endpoints \cup {None}
          /\ next \in Endpoints /\ RequireAllowed(next)
      BY <1>4 DEF DiscoveryDocs
    <2> HIDE DEF next
    <2>2. c \in Requests /\ c.kind = "capabilities" /\ c.endpoint = next /\ c.body = "none"
      BY <2>1, RequestsAre DEF Kinds, RequestBodies
    <2> HIDE DEF c
    <2>3. c.kind \in Early /\ Consented(c)
      BY <2>2, NothingDisclosed DEF Early
    <2>4. Documents' /\ api' \in Endpoints
      BY <1>1, <1>4, <2>1 DEF Documents, Inv, Typed, RequireAllowed
    <2> QED
      BY <1>1, <1>2, <1>4, <2>1, <2>2, <2>3, <2>4, NegotiationKeeps
  <1>5. CASE /\ doc # Malformed /\ RequireAllowed(doc.api) /\ flow = "receipt"
             /\ Schedule(p) /\ UNCHANGED <<api, statusEndpoint>>
    <2>1. doc.api \in Endpoints
      BY <1>5 DEF DiscoveryDocs
    <2>2. p \in Requests /\ p.kind = "receiptPost" /\ p.endpoint = doc.api /\ p.body = "receipt"
      BY <2>1, RequestsAre DEF Kinds, RequestBodies
    <2> HIDE DEF p
    <2>3. p.kind \in Early /\ p.kind \notin Later /\ Consented(p)
      BY <1>5, <2>2 DEF Early, Later, Consented
    <2>4. Documents'
      BY <1>1, <1>5 DEF Documents, Inv, Typed
    <2> QED
      BY <1>1, <1>2, <1>5, <2>2, <2>3, <2>4, NegotiationKeeps
  <1>6. CASE Fails /\ UNCHANGED <<api, statusEndpoint>>
    <2>1. Documents'
      BY <1>1, <1>6 DEF Documents, Inv, Typed
    <2> QED
      BY <1>1, <1>2, <1>6, <2>1, EarlyFails
  <1> QED
    BY <1>3, <1>4, <1>5, <1>6

\* A request without a body to an allowed endpoint, in the negotiation of a
\* resolution.
LEMMA PlainKeeps ==
    ASSUME Inv, phase = "open", answered = None, Kept, Documents', api' = api,
           NEW k \in {"capabilities", "status", "algorithms"},
           NEW e \in Endpoints, RequireAllowed(e), Schedule(Request(k, e, "none")),
           flow = "resolve", ValidQuery(query), api \in Endpoints, RequireAllowed(api),
           UNCHANGED <<answered, recovered, matches>>
    PROVE  Inv'
  <1> DEFINE r == Request(k, e, "none")
  <1>1. r \in Requests /\ r.kind = k /\ r.endpoint = e /\ r.body = "none"
    BY RequestsAre DEF Kinds, RequestBodies
  <1>2. Schedule(r)
    OBVIOUS
  <1> HIDE DEF r
  <1>3. r.kind \in Early /\ r.kind # "receiptPost" /\ Consented(r)
    BY <1>1, NothingDisclosed DEF Early
  <1> QED
    BY <1>1, <1>2, <1>3, NegotiationKeeps

\* accept_capabilities
LEMMA CapabilitiesKeeps ==
    ASSUME Inv,
           NEW supported \in (SUBSET {"queryByContent", "queryByReference"}) \cup {Malformed},
           AcceptCapabilities(supported)
    PROVE  Inv'
  <1>1. /\ Awaits("capabilities") /\ Kept
        /\ UNCHANGED <<api, statusEndpoint, algorithms, answered, recovered, matches>>
    BY DEF AcceptCapabilities, Kept, fixed
  <1>2. /\ phase = "open" /\ pending # None /\ answered = None /\ flow = "resolve"
        /\ ValidQuery(query) /\ api \in Endpoints /\ RequireAllowed(api)
    BY <1>1, Awaiting DEF Kinds, Early, Later
  <1>3. /\ capabilities' = capabilities \/ (capabilities' = supported /\ supported # Malformed)
        /\ \/ /\ statusEndpoint # None /\ RequireAllowed(statusEndpoint)
              /\ Schedule(Request("status", statusEndpoint, "none"))
           \/ Schedule(Request("algorithms", api, "none"))
           \/ Fails
    BY DEF AcceptCapabilities, ScheduleAlgorithms
  <1>4. Documents'
    BY <1>1, <1>3 DEF Documents, Inv, Typed
  <1>5. statusEndpoint \in Endpoints \cup {None}
    BY DEF Inv, Typed
  <1> QED
    BY <1>1, <1>2, <1>3, <1>4, <1>5, PlainKeeps, EarlyFails

\* accept_status
LEMMA StatusKeeps ==
    ASSUME Inv, NEW wellFormed \in BOOLEAN, AcceptStatus(wellFormed)
    PROVE  Inv'
  <1>1. /\ Awaits("status") /\ Kept
        /\ UNCHANGED <<api, statusEndpoint, capabilities, algorithms, answered, recovered, matches>>
    BY DEF AcceptStatus, Kept, fixed
  <1>2. /\ phase = "open" /\ pending # None /\ answered = None /\ flow = "resolve"
        /\ ValidQuery(query) /\ api \in Endpoints /\ RequireAllowed(api)
    BY <1>1, Awaiting DEF Kinds, Early, Later
  <1>3. Schedule(Request("algorithms", api, "none")) \/ Fails
    BY DEF AcceptStatus, ScheduleAlgorithms
  <1>4. Documents'
    BY <1>1 DEF Documents, Inv, Typed
  <1> QED
    BY <1>1, <1>2, <1>3, <1>4, PlainKeeps, EarlyFails

\* accept_algorithms, which sends the query.
LEMMA AlgorithmsKeeps ==
    ASSUME Inv, NEW advertised \in (SUBSET Algorithms) \cup {Malformed},
           AcceptAlgorithms(advertised)
    PROVE  Inv'
  <1>1. /\ Awaits("algorithms") /\ Kept
        /\ UNCHANGED <<api, statusEndpoint, capabilities, answered, recovered, matches>>
    BY DEF AcceptAlgorithms, Kept, fixed
  <1>2. /\ phase = "open" /\ pending # None /\ answered = None /\ flow = "resolve"
        /\ ValidQuery(query) /\ api \in Endpoints /\ RequireAllowed(api)
    BY <1>1, Awaiting DEF Kinds, Early, Later
  <1> DEFINE r == Request("query", api, QueryBody)
  <1>3. \/ advertised # Malformed /\ algorithms' = advertised /\ Schedule(r)
        \/ Fails /\ algorithms' = algorithms
    BY DEF AcceptAlgorithms
  <1>4. Documents'
    BY <1>1, <1>3 DEF Documents, Inv, Typed
  <1>5. query \in Queries
    BY DEF Inv, Typed
  <1>6. QueryBody \in RequestBodies
    BY <1>5, QueryBodyIs
  <1>7. r \in Requests /\ r.kind = "query" /\ r.endpoint = api /\ r.body = QueryBody
    BY <1>2, <1>6, RequestsAre DEF Kinds
  <1> HIDE DEF r
  <1>8. r.kind \in Early /\ r.kind # "receiptPost" /\ Consented(r)
    BY <1>2, <1>5, <1>7, QueryConsented DEF Early
  <1>9. CASE Schedule(r)
    BY <1>1, <1>2, <1>4, <1>7, <1>8, <1>9, NegotiationKeeps
  <1>10. CASE Fails
    BY <1>1, <1>2, <1>4, <1>10, EarlyFails
  <1> QED
    BY <1>3, <1>9, <1>10

\* accept_matches
LEMMA MatchesKeeps ==
    ASSUME Inv, NEW found \in UNION {[1..n -> Matches] : n \in 0..(MaxResults + 1)},
           NEW wellFormed \in BOOLEAN, AcceptMatches(found, wellFormed)
    PROVE  Inv'
  <1>1. /\ Awaits("query") /\ Kept
        /\ UNCHANGED <<api, statusEndpoint, capabilities, algorithms, recovered>>
    BY DEF AcceptMatches, Kept, fixed
  <1>2. /\ phase = "open" /\ pending # None /\ pending.kind = "query" /\ recovered = <<>>
    BY <1>1, Awaiting DEF Kinds, Early
  <1>3. Documents'
    BY <1>1 DEF Documents, Inv, Typed
  <1>4. \/ Len(found) <= MaxResults /\ answered' = found /\ ScheduleNextManifest(found)
        \/ Fails /\ UNCHANGED <<answered, matches>>
    BY DEF AcceptMatches, AnswerUsable
  <1>5. CASE Fails /\ UNCHANGED <<answered, matches>>
    BY <1>1, <1>2, <1>3, <1>5, EarlyFails
  <1>6. CASE Len(found) <= MaxResults /\ answered' = found /\ ScheduleNextManifest(found)
    <2>1. found \in Seq(Matches)
      <3>1. PICK n \in 0..(MaxResults + 1) : found \in [1..n -> Matches]
        OBVIOUS
      <3>2. n \in Nat
        BY BoundsAssumption
      <3> QED
        BY <3>1, <3>2
    <2>2. /\ recovered' = <<>> /\ Len(recovered') = 0 /\ 1..Len(recovered') = {}
          /\ recovered' \in Seq(Recoveries)
      BY <1>1, <1>2
    <2>3. Len(found) \in Nat
      BY <2>1
    <2>4. Len(recovered') + Len(found) = Len(answered')
      BY <1>6, <2>2, <2>3
    <2>5. \A i \in 1..Len(found) : found[i] = answered'[Len(recovered') + i]
      BY <1>6, <2>2, <2>3
    <2>6. answered' \in Seq(Matches) /\ Len(answered') <= MaxResults
      BY <1>6, <2>1
    <2>7. pending.kind \in Later
      BY <1>2 DEF Later
    <2> QED
      BY <1>1, <1>2, <1>3, <1>6, <2>1, <2>2, <2>4, <2>5, <2>6, <2>7, NextManifestKeeps
  <1> QED
    BY <1>4, <1>5, <1>6

\* accept_manifest.  The manifest stored is the answer's next.
LEMMA ManifestKeeps ==
    ASSUME Inv, NEW verifies \in BOOLEAN, AcceptManifest(verifies)
    PROVE  Inv'
  <1> DEFINE m == pending.matched
             n == Len(recovered)
  <1>1. /\ Awaits("manifest") /\ Kept
        /\ UNCHANGED <<api, statusEndpoint, capabilities, algorithms, answered>>
    BY DEF AcceptManifest, Kept, fixed
  <1>2. /\ phase = "open" /\ pending # None /\ pending.kind = "manifest"
        /\ pending \in Requests /\ pending.endpoint \in Endpoints
        /\ RequireAllowed(pending.endpoint)
        /\ flow = "resolve" /\ ValidQuery(query) /\ api \in Endpoints /\ RequireAllowed(api)
    BY <1>1, Awaiting DEF Kinds, Later
  <1>3. Documents'
    BY <1>1 DEF Documents, Inv, Typed
  <1>4. /\ answered # None /\ answered \in Seq(Matches) /\ Len(answered) <= MaxResults
        /\ (n + 1) + Len(matches) = Len(answered)
        /\ \A i \in 1..Len(matches) : matches[i] = answered[(n + 1) + i]
        /\ m = answered[n + 1]
        /\ recovered \in Seq(Recoveries) /\ matches \in Seq(Matches)
    BY <1>2 DEF Inv, Typed, Ordered, Position, Left
  <1>5. n \in Nat /\ Len(matches) \in Nat /\ Len(answered) \in Nat /\ MaxResults \in Nat
    BY <1>4, BoundsAssumption
  <1>6. /\ \A i \in 1..n : /\ recovered[i].matched = answered[i]
                           /\ recovered[i].receipt \in {None, answered[i]}
                           /\ fetchReceipts => recovered[i].receipt # None
    BY <1>2, <1>4 DEF Inv, Ordered, Receipts
  <1>7. \/ /\ recovered' = Append(recovered, [matched |-> m, receipt |-> None])
           /\ \/ fetchReceipts /\ Schedule(ReceiptRequest) /\ matches' = matches
              \/ ~fetchReceipts /\ ScheduleNextManifest(matches)
        \/ Fails /\ UNCHANGED <<recovered, matches>>
    BY DEF AcceptManifest
  <1> HIDE DEF m, n
  <1>8. CASE Fails /\ UNCHANGED <<recovered, matches>>
    BY <1>1, <1>2, <1>3, <1>8, EarlyFails
  <1>9. ASSUME recovered' = Append(recovered, [matched |-> m, receipt |-> None])
        PROVE  /\ recovered' \in Seq(Recoveries) /\ Len(recovered') = n + 1
               /\ \A i \in 1..n : recovered'[i] = recovered[i]
               /\ recovered'[n + 1].matched = m /\ recovered'[n + 1].receipt = None
    <2>1. m \in Matches
      <3>1. n + 1 \in 1..Len(answered)
        BY <1>4, <1>5
      <3> QED
        BY <1>4, <3>1
    <2> DEFINE e == [matched |-> m, receipt |-> None]
    <2>2. e \in Recoveries /\ e.matched = m /\ e.receipt = None
      BY <2>1 DEF Recoveries
    <2>3. recovered' = Append(recovered, e)
      BY <1>9
    <2> HIDE DEF e
    <2> QED
      BY <1>4, <2>2, <2>3 DEF n
  <1>10. ASSUME recovered' = Append(recovered, [matched |-> m, receipt |-> None]),
                NEW i \in 1..Len(recovered')
         PROVE  /\ recovered'[i].matched = answered[i]
                /\ recovered'[i].receipt \in {None, answered[i]}
                /\ i # n + 1 /\ fetchReceipts => recovered'[i].receipt # None
    <2>1. i \in 1..n \/ i = n + 1
      BY <1>5, <1>9, <1>10
    <2> QED
      BY <1>4, <1>6, <1>9, <1>10, <2>1
  <1>11. CASE /\ recovered' = Append(recovered, [matched |-> m, receipt |-> None])
              /\ ~fetchReceipts /\ ScheduleNextManifest(matches)
    <2>1. Len(recovered') = n + 1 /\ recovered' \in Seq(Recoveries)
      BY <1>9, <1>11
    <2>2. \A i \in 1..Len(recovered') :
            /\ recovered'[i].matched = answered'[i]
            /\ recovered'[i].receipt \in {None, answered'[i]}
            /\ fetchReceipts => recovered'[i].receipt # None
      BY <1>1, <1>10, <1>11
    <2>3. Len(recovered') + Len(matches) = Len(answered')
      BY <1>1, <1>4, <2>1
    <2>4. \A i \in 1..Len(matches) : matches[i] = answered'[Len(recovered') + i]
      BY <1>1, <1>4, <2>1
    <2>5. answered' \in Seq(Matches) /\ Len(answered') <= MaxResults /\ api' = api
      BY <1>1, <1>4
    <2>6. pending.kind \in Later
      BY <1>2 DEF Later
    <2> QED
      BY <1>1, <1>2, <1>3, <1>4, <1>11, <2>1, <2>2, <2>3, <2>4, <2>5, <2>6, NextManifestKeeps
  <1>12. CASE /\ recovered' = Append(recovered, [matched |-> m, receipt |-> None])
              /\ fetchReceipts /\ Schedule(ReceiptRequest) /\ matches' = matches
    <2> DEFINE r == ReceiptRequest
    <2>1. /\ r \in Requests /\ r.kind = "receipt" /\ r.endpoint = pending.endpoint
          /\ r.body = "none" /\ r.matched = m /\ r.index = n + 1
      BY <1>2, <1>5 DEF ReceiptRequest, ReceiptIndex, Requests, Kinds, RequestBodies, m, n
    <2>2. /\ pending' = r /\ issued' = issued \cup {r} /\ UNCHANGED <<phase, outcome>>
      BY <1>12 DEF Schedule
    <2> HIDE DEF r
    <2>3. pending' # None
      BY <2>1, <2>2, NoneAssumption
    <2>4. Len(recovered') = n + 1 /\ recovered' \in Seq(Recoveries)
      BY <1>9, <1>12
    <2>5. Typed'
      BY <1>1, <1>12, <2>1, <2>2, <2>4 DEF Inv, Typed, Kept
    <2>6. Fresh'
      BY <1>2, <2>2 DEF Fresh
    <2>7. Issued'
      <3>1. Consented(r)
        BY <2>1, NothingDisclosed
      <3> QED
        BY <1>1, <1>2, <2>1, <2>2, <3>1 DEF Inv, Issued, Consented, Kept
    <2>8. InFlow'
      BY <1>1, <1>2, <2>1, <2>2 DEF InFlow, Kept, ValidQuery
    <2>9. Negotiating'
      BY <1>1, <1>4, <2>1, <2>2 DEF Negotiating, Early
    <2>10. Ordered'
      <3>1. Len(recovered') <= Len(answered)
        BY <1>4, <1>5, <2>4
      <3> QED
        BY <1>1, <1>4, <1>10, <1>12, <3>1 DEF Ordered
    <2>11. Position'
      <3>1. Left(matches, Len(recovered))'
        BY <1>1, <1>4, <1>12, <2>4 DEF Left
      <3>2. /\ Len(recovered') > 0 /\ pending'.index = Len(recovered')
            /\ pending'.matched = answered'[Len(recovered')]
        BY <1>1, <1>4, <1>5, <2>1, <2>2, <2>4
      <3> QED
        BY <2>1, <2>2, <3>1, <3>2 DEF Position
    <2>12. Receipts'
      BY <1>10, <1>12, <2>1, <2>2, <2>4 DEF Receipts
    <2>13. AtEnd'
      BY <1>2, <2>2, <2>3, NoneAssumption DEF Inv, Typed, AtEnd, NativeComplete
    <2> QED
      BY <2>5, <2>6, <2>7, <2>8, <2>9, <2>10, <2>11, <2>12, <2>13 DEF Inv
  <1> QED
    BY <1>7, <1>8, <1>11, <1>12

\* accept_receipt.  The receipt is stored with the manifest recovered last.
LEMMA ReceiptKeeps ==
    ASSUME Inv, NEW wellFormed \in BOOLEAN, AcceptReceipt(wellFormed)
    PROVE  Inv'
  <1> DEFINE m == pending.matched
             n == Len(recovered)
  <1>1. /\ Awaits("receipt") /\ Kept
        /\ UNCHANGED <<api, statusEndpoint, capabilities, algorithms, answered>>
    BY DEF AcceptReceipt, Kept, fixed
  <1>2. phase = "open" /\ pending # None /\ pending.kind = "receipt"
    BY <1>1, Awaiting DEF Kinds
  <1>3. Documents'
    BY <1>1 DEF Documents, Inv, Typed
  <1>4. /\ answered # None /\ answered \in Seq(Matches) /\ Len(answered) <= MaxResults
        /\ n + Len(matches) = Len(answered) /\ n > 0 /\ pending.index = n
        /\ \A i \in 1..Len(matches) : matches[i] = answered[n + i]
        /\ m = answered[n]
        /\ recovered \in Seq(Recoveries) /\ matches \in Seq(Matches)
    BY <1>2 DEF Inv, Typed, Ordered, Position, Left
  <1>5. n \in Nat /\ Len(matches) \in Nat /\ Len(answered) \in Nat
    BY <1>4
  <1>6. /\ \A i \in 1..n : /\ recovered[i].matched = answered[i]
                           /\ recovered[i].receipt \in {None, answered[i]}
                           /\ fetchReceipts /\ i # n => recovered[i].receipt # None
    BY <1>2, <1>4 DEF Inv, Ordered, Receipts
  <1>7. \/ /\ recovered' = [recovered EXCEPT ![n].receipt = m]
           /\ ScheduleNextManifest(matches)
        \/ Fails /\ UNCHANGED <<recovered, matches>>
    BY <1>4 DEF AcceptReceipt
  <1> HIDE DEF m, n
  <1>8. CASE Fails /\ UNCHANGED <<recovered, matches>>
    BY <1>1, <1>2, <1>3, <1>8, EarlyFails
  <1>9. CASE /\ recovered' = [recovered EXCEPT ![n].receipt = m]
             /\ ScheduleNextManifest(matches)
    <2>1. m \in Matches /\ n \in 1..n
      <3>1. n \in 1..Len(answered) /\ n \in 1..n
        BY <1>4, <1>5
      <3> QED
        BY <1>4, <3>1
    <2>2. /\ \A i \in 1..n : recovered[i] \in Recoveries
          /\ DOMAIN recovered = 1..n
      BY <1>4 DEF n
    <2>3. /\ DOMAIN recovered' = 1..n
          /\ \A i \in 1..n : i # n => recovered'[i] = recovered[i]
          /\ recovered'[n] = [recovered[n] EXCEPT !.receipt = m]
      BY <1>9, <2>1, <2>2
    <2>4. /\ recovered'[n] \in Recoveries /\ recovered'[n].receipt = m
          /\ recovered'[n].matched = recovered[n].matched
      BY <2>1, <2>2, <2>3 DEF Recoveries
    <2>5. recovered' \in Seq(Recoveries) /\ Len(recovered') = n
      <3>1. recovered' = [i \in 1..n |-> recovered'[i]]
        BY <1>9, <2>2
      <3>2. \A i \in 1..n : recovered'[i] \in Recoveries
        BY <2>2, <2>3, <2>4
      <3>3. recovered' \in [1..n -> Recoveries]
        BY <3>1, <3>2
      <3> QED
        BY <1>5, <3>3
    <2>6. m # None
      BY <2>1, NoneAssumption
    <2>7. \A i \in 1..Len(recovered') :
            /\ recovered'[i].matched = answered'[i]
            /\ recovered'[i].receipt \in {None, answered'[i]}
            /\ fetchReceipts => recovered'[i].receipt # None
      BY <1>1, <1>4, <1>6, <2>3, <2>4, <2>5, <2>6
    <2>8. Len(recovered') + Len(matches) = Len(answered')
      BY <1>1, <1>4, <2>5
    <2>9. \A i \in 1..Len(matches) : matches[i] = answered'[Len(recovered') + i]
      BY <1>1, <1>4, <2>5
    <2>10. answered' \in Seq(Matches) /\ Len(answered') <= MaxResults /\ api' = api
      BY <1>1, <1>4
    <2>11. pending.kind \in Later
      BY <1>2 DEF Later
    <2> QED
      BY <1>1, <1>2, <1>3, <1>4, <1>9, <2>5, <2>7, <2>8, <2>9, <2>10, <2>11, NextManifestKeeps
  <1> QED
    BY <1>7, <1>8, <1>9

\* The verification arm of the receipt session, which then has nothing pending.
LEMMA ReceiptPostKeeps ==
    ASSUME Inv, NEW wellFormed \in BOOLEAN, AcceptReceiptPost(wellFormed)
    PROVE  Inv'
  <1>1. /\ Awaits("receiptPost") /\ Kept
        /\ UNCHANGED <<api, statusEndpoint, capabilities, algorithms, answered, recovered, matches>>
    BY DEF AcceptReceiptPost, Kept, fixed
  <1>2. phase = "open" /\ pending # None /\ flow = "receipt"
    BY <1>1, Awaiting DEF Kinds
  <1>3. Documents'
    BY <1>1 DEF Documents, Inv, Typed
  <1>4. Completes \/ Fails
    BY DEF AcceptReceiptPost
  <1>5. CASE Fails
    BY <1>1, <1>2, <1>3, <1>5, EarlyFails
  <1>6. CASE Completes
    <2>1. pending' = None /\ UNCHANGED <<phase, outcome, issued>>
      BY <1>6 DEF Completes
    <2>2. Typed'
      BY <1>1, <2>1 DEF Inv, Typed, Kept
    <2>3. Fresh' /\ InFlow' /\ Position' /\ Receipts'
      BY <1>2, <2>1 DEF Fresh, InFlow, Position, Receipts
    <2>4. Issued' /\ Negotiating' /\ Ordered'
      BY <1>1, <2>1 DEF Inv, Issued, Consented, Kept, Negotiating, Ordered
    <2>5. AtEnd'
      BY <1>1, <1>2 DEF AtEnd, NativeComplete, Kept
    <2> QED
      BY <2>2, <2>3, <2>4, <2>5 DEF Inv
  <1> QED
    BY <1>4, <1>5, <1>6

\* finish
LEMMA FinishKeeps == Inv /\ Finish => Inv'
  <1> SUFFICES ASSUME Inv, Finish PROVE Inv'
    OBVIOUS
  <1>1. /\ phase = "open" /\ phase' = "closed" /\ outcome' \in {"ok", "error"}
        /\ driver = "native" => pending = None
        /\ Kept /\ UNCHANGED <<api, statusEndpoint, capabilities, algorithms, answered, recovered,
                               matches, pending, issued>>
    BY DEF Finish, Kept, fixed
  <1>2. Typed'
    BY <1>1, NoneAssumption DEF Inv, Typed, Kept
  <1>3. Fresh' /\ InFlow' /\ Position' /\ Receipts'
    BY <1>1 DEF Inv, Fresh, InFlow, Position, Receipts, Left, Kept, ValidQuery
  <1>4. Issued' /\ Negotiating' /\ Ordered'
    BY <1>1 DEF Inv, Issued, Consented, Kept, Negotiating, Ordered
  <1>5. AtEnd'
    <2>1. driver = "native" /\ flow = "resolve" => Complete
      BY <1>1 DEF Inv, AtEnd
    <2> QED
      BY <1>1, <2>1 DEF AtEnd, NativeComplete, Complete, Kept
  <1> QED
    BY <1>2, <1>3, <1>4, <1>5 DEF Inv

\* Nothing the invariant is about changes: a spurious response, and stuttering.
LEMMA IdleKeeps ==
    ASSUME Inv, Kept, UNCHANGED <<phase, api, capabilities, algorithms, statusEndpoint, matches,
                                  recovered, pending, outcome, issued, answered>>
    PROVE  Inv'
  <1>1. Typed' /\ Fresh' /\ Ordered' /\ Negotiating'
    BY DEF Inv, Typed, Kept, Fresh, Ordered, Negotiating
  <1>2. Issued' /\ InFlow' /\ Position'
    BY DEF Inv, Issued, Consented, InFlow, ValidQuery, Position, Left, Kept
  <1>3. Receipts' /\ AtEnd'
    BY DEF Inv, Receipts, AtEnd, NativeComplete, Complete, Kept
  <1> QED
    BY <1>1, <1>2, <1>3 DEF Inv

-----------------------------------------------------------------------------
(* The theorems.                                                           *)

LEMMA InitInv == Init => Inv
  <1> SUFFICES ASSUME Init PROVE Inv
    OBVIOUS
  <1>1. Typed
    BY BoundsAssumption, NoneAssumption DEF Init, Typed
  <1>2. Fresh /\ Issued /\ InFlow /\ Negotiating /\ Ordered /\ Position /\ Receipts
    BY DEF Init, Fresh, Issued, InFlow, Negotiating, Ordered, Position, Receipts
  <1>3. AtEnd
    BY NoneAssumption DEF Init, AtEnd, NativeComplete
  <1> QED
    BY <1>1, <1>2, <1>3 DEF Inv

LEMMA NextKeeps == Inv /\ [Next]_vars => Inv'
  <1> SUFFICES ASSUME Inv, [Next]_vars PROVE Inv'
    OBVIOUS
  <1>1. CASE \E root \in Endpoints, inputsOk \in BOOLEAN : New(root, inputsOk)
    BY <1>1, NewKeeps
  <1>2. CASE Respond
    BY <1>2, DiscoveryKeeps, CapabilitiesKeeps, StatusKeeps, AlgorithmsKeeps, MatchesKeeps,
       ManifestKeeps, ReceiptKeeps, ReceiptPostKeeps DEF Respond
  <1>3. CASE RefuseResponse
    BY <1>3, RefuseKeeps
  <1>4. CASE SpuriousResponse
    BY <1>4, IdleKeeps DEF SpuriousResponse, fixed, Kept
  <1>5. CASE Finish
    BY <1>5, FinishKeeps
  <1>6. CASE UNCHANGED vars
    BY <1>6, IdleKeeps DEF vars, Kept
  <1> QED
    BY <1>1, <1>2, <1>3, <1>4, <1>5, <1>6 DEF Next

\* The invariant holds of every session, whoever drives it and whatever the service
\* answers; fairness plays no part.
THEOREM InvAlways == Spec => []Inv
  BY InitInv, NextKeeps, PTL DEF Spec

\* Every request of a session goes to an allowlisted origin and to a URL without
\* credentials (require_allowed at each place a URL enters).
THEOREM OnlyAllowed == Spec => []RequestsStayAllowed
  <1>1. Inv => RequestsStayAllowed
    BY DEF Inv, Issued, RequireAllowed, RequestsStayAllowed
  <1> QED
    BY <1>1, InvAlways, PTL

\* The asset, its reference or a receipt leaves the process only in the flow, on the
\* route and with the consent the caller chose (validate, query_request).
THEOREM ConsentKept == Spec => []DisclosesWithConsent
  <1>1. Inv => DisclosesWithConsent
    BY DEF Inv, Issued, Consented, DisclosesWithConsent
  <1> QED
    BY <1>1, InvAlways, PTL

\* The manifests recovered are the beginning of the answer in its order, each with its own
\* receipt (PendingKind::Receipt's index), and never more than max_results.
THEOREM InOrder == Spec => []RecoveredInOrder
  <1>1. ASSUME Inv PROVE RecoveredInOrder
    <2>1. recovered \in Seq(Recoveries) /\ MaxResults \in Nat
      BY <1>1, BoundsAssumption DEF Inv, Typed
    <2>2. DOMAIN recovered = 1..Len(recovered) /\ Len(recovered) \in Nat
      BY <2>1
    <2>3. CASE answered = None
      <3>1. recovered = <<>>
        BY <1>1, <2>3 DEF Inv, Negotiating
      <3>2. Len(recovered) = 0 /\ DOMAIN recovered = {}
        BY <3>1
      <3> QED
        BY <2>1, <3>2 DEF RecoveredInOrder
    <2>4. CASE answered # None
      <3>1. answered \in Seq(Matches)
        BY <1>1, <2>4 DEF Inv, Typed
      <3>2. Len(answered) \in Nat /\ DOMAIN answered = 1..Len(answered)
        BY <3>1
      <3>3. /\ Len(answered) <= MaxResults /\ Len(recovered) <= Len(answered)
            /\ \A i \in 1..Len(recovered) :
                 recovered[i].matched = answered[i] /\ recovered[i].receipt \in {None, answered[i]}
        BY <1>1, <2>4 DEF Inv, Ordered
      <3>4. Len(recovered) <= MaxResults /\ \A i \in 1..Len(recovered) : i \in 1..Len(answered)
        BY <2>1, <2>2, <3>2, <3>3
      <3> QED
        BY <2>2, <2>4, <3>2, <3>3, <3>4 DEF RecoveredInOrder
    <2> QED
      BY <2>3, <2>4
  <1> QED
    BY <1>1, InvAlways, PTL

\* resolve_soft_binding returns Ok only when every match of the answer was fetched and
\* verified, with its receipt where receipts were asked for, although finish itself looks
\* only at the documents of the negotiation.
THEOREM NativeIsComplete == Spec => []NativeComplete
  <1>1. Inv => NativeComplete
    BY DEF Inv, AtEnd
  <1> QED
    BY <1>1, InvAlways, PTL

\* The fields keep the types of the session's structs, and a pending receipt's index names
\* a manifest already recovered, so that storing its answer finds one.
THEOREM TypesKept == Spec => []TypeOK
  <1>1. ASSUME Inv PROVE TypeOK
    <2>1. pending # None /\ pending.kind = "receipt" => pending.index \in DOMAIN recovered
      <3> SUFFICES ASSUME pending # None, pending.kind = "receipt"
                   PROVE  pending.index \in DOMAIN recovered
        OBVIOUS
      <3>1. recovered \in Seq(Recoveries) /\ Len(recovered) > 0 /\ pending.index = Len(recovered)
        BY <1>1 DEF Inv, Typed, Position
      <3> QED
        BY <3>1
    <2>2. pending # None => pending \in Requests
      BY <1>1 DEF Inv, Typed
    <2>3. Len(recovered) <= MaxResults
      <3>1. CASE answered = None
        <4>1. recovered = <<>>
          BY <1>1, <3>1 DEF Inv, Negotiating
        <4> QED
          BY <4>1, BoundsAssumption
      <3>2. CASE answered # None
        <4>1. /\ answered \in Seq(Matches) /\ recovered \in Seq(Recoveries)
              /\ Len(answered) <= MaxResults /\ Len(recovered) <= Len(answered)
          BY <1>1, <3>2 DEF Inv, Typed, Ordered
        <4>2. Len(answered) \in Nat /\ Len(recovered) \in Nat /\ MaxResults \in Nat
          BY <4>1, BoundsAssumption
        <4> QED
          BY <4>1, <4>2
      <3> QED
        BY <3>1, <3>2
    <2> QED
      BY <1>1, <2>1, <2>2, <2>3 DEF Inv, Typed, TypeOK, Requests
  <1> QED
    BY <1>1, InvAlways, PTL

=============================================================================
