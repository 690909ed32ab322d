-------------------------- MODULE ExternalDiscovery --------------------------
(***************************************************************************)
(* Parse-only discovery of the external resources of an asset              *)
(* (c2pa-validate/external_discovery.rs).                                  *)
(*                                                                         *)
(* A plan holds a frontier of URIs.  The caller settles every URI of the   *)
(* frontier in `outcomes` and calls continue_with, which reads the bodies  *)
(* of manifest stores among them, follows their predecessors, and leaves   *)
(* the next frontier.  One budget of nodes, references and bytes covers    *)
(* the whole plan.  The functions call one another only as their last act, *)
(* so a call is a walk of small steps: `pc` says which function runs next. *)
(*                                                                         *)
(* A body is a name; Content says what parsing it finds.  A manifest's     *)
(* references are the URIs they lead to with the number of references      *)
(* examined to find them; every manifest is one byte long.  What a stop    *)
(* leaves of the budget is never read again, and is not charged further.   *)
(***************************************************************************)
EXTENDS Options, Integers, Sequences, FiniteSets, SequencesExt

CONSTANTS
    Uris,       \* external URIs
    Bodies,     \* the byte strings a store, a caller or a server may hold
    Content,    \* what each body holds
    Limits      \* the GraphLimits a caller may set: depth, nodes, references, bytes

(***************************************************************************)
(* Content[b].store    the body is a manifest store with an active claim   *)
(* Content[b].dids     URLs of the DID documents its identities name       *)
(* Content[b].links    what its active manifest refers to                  *)
(* Content[b].graph    its manifests by label, "active" among them         *)
(* Content[b].pred     the active manifest's predecessor reference         *)
(* Content[b].json     the body is a DID document                          *)
(* Content[b].size     its length on the wire                              *)
(***************************************************************************)
Links == [uris : Seq(Uris), examined : Nat]
Labels == UNION {DOMAIN Content[b].graph : b \in Bodies}
References == [kind : {"none", "bad"}, to : {None}]
              \cup [kind : {"external"}, to : Uris]
              \cup [kind : {"inline"}, to : Bodies]

ASSUME ContentAssumption ==
    /\ None \notin Uris \cup Bodies
    /\ Limits \subseteq [depth : Nat, nodes : Nat, references : Nat, bytes : Nat]
    /\ \A b \in Bodies :
         /\ Content[b].store \in BOOLEAN /\ Content[b].json \in BOOLEAN
         /\ Content[b].size \in Nat
         /\ Content[b].dids \in Seq(Uris)
         /\ Content[b].links \in Links
         /\ Content[b].pred \in References
         /\ "active" \in DOMAIN Content[b].graph
         /\ \A l \in DOMAIN Content[b].graph :
              /\ Content[b].graph[l].links \in Links
              /\ Content[b].graph[l].ingredients \in Seq(STRING)

VARIABLES
    pc,         \* the step that runs next
    present,    \* manifest_store_present
    frontier,   \* plan.resources
    stop,       \* plan.stop_reason
    limits,     \* session.budget.limits
    uris,       \* session.uris
    spent,      \* session.budget
    dids,       \* session.did_documents
    todo,       \* continue_with: what is left of the frontier it consumes
    work,       \* the arguments of the step that runs next
    queue,      \* scan_initial_store: manifests to visit, with their depth
    reached,    \* scan_initial_store: manifests ever queued
    outcomes    \* the caller's provider

planVars == <<present, frontier, stop, uris, spent, dids, limits>>
walkVars == <<todo, work, queue, reached>>
discoveryVars == <<pc, planVars, walkVars, outcomes>>

Kinds == {"opaque", "segment"}
Settled == Bodies \cup {"unavailable"}
Outcomes == Settled \cup {"not_attempted"}
UriState == [known : BOOLEAN, root : BOOLEAN, rootParsed : BOOLEAN, segment : BOOLEAN,
             segmentParsed : BOOLEAN, depth : Nat]
NoStop == [why |-> "none", uri |-> None]
Idle == [body |-> None, uri |-> None, depth |-> 0, ref |-> [kind |-> "none", to |-> None],
         provider |-> FALSE]

-----------------------------------------------------------------------------
InitPlan ==
    /\ pc = "locate"
    /\ present = FALSE
    /\ frontier = <<>>
    /\ stop = NoStop
    /\ limits \in Limits
    /\ uris = [u \in Uris |-> [known |-> FALSE, root |-> FALSE, rootParsed |-> FALSE,
                               segment |-> FALSE, segmentParsed |-> FALSE, depth |-> 0]]
    /\ spent = [nodes |-> 0, references |-> 0, bytes |-> 0]
    /\ dids = <<>>
    /\ todo = <<>>
    /\ work = Idle
    /\ queue = <<>>
    /\ reached = {}

Known(u) == uris[u].known

\* DiscoverySession::stop and ExternalResourcePlan::stop: every caller returns
\* at once, the frontier is cleared and the plan is handed back.
Stops(why, uri) ==
    /\ stop' = [why |-> why, uri |-> uri]
    /\ frontier' = <<>>
    /\ todo' = <<>>
    /\ queue' = <<>>
    /\ work' = Idle
    /\ pc' = "planned"

\* DiscoveryBudget: what may not be charged any more
NodesSpent == spent.nodes >= limits.nodes
ReferencesSpent(n) == spent.references + n > limits.references

BytesSpent(n) == spent.bytes + n > limits.bytes
TooDeep(depth) == depth > limits.depth

Charged(nodes, references, bytes) ==
    [nodes |-> spent.nodes + nodes, references |-> spent.references + references,
     bytes |-> spent.bytes + bytes]

\* add_opaque
AddOpaque(plan, u) ==
    IF plan.uris[u].known THEN plan
    ELSE [uris |-> [plan.uris EXCEPT ![u].known = TRUE],
          frontier |-> Append(plan.frontier, [uri |-> u, kind |-> "opaque"])]

\* locate_external_data, locate_linked_resources and
\* locate_external_references: the URIs found join the frontier.
Located(links) ==
    LET added[i \in 0..Len(links.uris)] ==
          IF i = 0 THEN [uris |-> uris, frontier |-> frontier]
          ELSE AddOpaque(added[i - 1], links.uris[i])
    IN  added[Len(links.uris)]

\* The call that runs returns to continue_with, or to locate.
Returns ==
    /\ pc' = "resolve"
    /\ work' = Idle

Scans(body, uri, provider) ==
    /\ pc' = "scan"
    /\ work' = [Idle EXCEPT !.body = body, !.uri = uri, !.provider = provider]

-----------------------------------------------------------------------------
\* locate_external_resources with an embedded store, and
\* locate_external_resources_with_manifest_store
LocateStore(body) ==
    /\ pc = "locate"
    /\ present' = TRUE
    /\ Scans(body, None, FALSE)
    /\ UNCHANGED <<limits, frontier, stop, uris, spent, dids, todo, queue, reached, outcomes>>

\* locate_external_resources without an embedded store: add_root_manifest
LocateRoot(u) ==
    /\ pc = "locate"
    /\ uris' = [uris EXCEPT ![u].known = TRUE, ![u].root = TRUE]
    /\ frontier' = Append(frontier, [uri |-> u, kind |-> "segment"])
    /\ pc' = "planned"
    /\ UNCHANGED <<present, limits, stop, spent, dids, walkVars, outcomes>>

\* ... an extraction error, a malformed remote reference, or an empty store
LocateMalformed ==
    /\ pc = "locate"
    /\ Stops("malformed", None)
    /\ UNCHANGED <<present, limits, uris, spent, dids, reached, outcomes>>

\* ... no store and no remote reference
LocateNothing ==
    /\ pc = "locate"
    /\ pc' = "planned"
    /\ UNCHANGED <<planVars, walkVars, outcomes>>

\* Mutant of ContinueWith: the frontier is read and not taken.
ContinueWithCopy ==
    /\ pc = "planned"
    /\ frontier # <<>>
    /\ todo' = frontier
    /\ pc' = "resolve"
    /\ UNCHANGED <<planVars, work, queue, reached, outcomes>>

\* continue_with takes the frontier ...
ContinueWith ==
    /\ pc = "planned"
    /\ frontier # <<>>
    /\ todo' = frontier
    /\ frontier' = <<>>
    /\ pc' = "resolve"
    /\ UNCHANGED <<present, limits, stop, uris, spent, dids, work, queue, reached, outcomes>>

\* ... and ends when it is consumed.
Planned ==
    /\ pc = "resolve"
    /\ todo = <<>>
    /\ pc' = "planned"
    /\ UNCHANGED <<planVars, walkVars, outcomes>>

Opaque ==
    /\ pc = "resolve"
    /\ todo # <<>>
    /\ Head(todo).kind = "opaque"
    /\ todo' = Tail(todo)
    /\ UNCHANGED <<pc, planVars, work, queue, reached, outcomes>>

\* The body of the root counts as a parsed segment as well: a predecessor that
\* points back to its URI is not read a second time.
RootHeld(u) ==
    [uris EXCEPT ![u].rootParsed = TRUE, ![u].segment = TRUE, ![u].segmentParsed = TRUE]

\* resolve_root_uri
ResolveRoot ==
    /\ pc = "resolve"
    /\ todo # <<>>
    /\ LET u == Head(todo).uri IN
       /\ Head(todo).kind = "segment"
       /\ uris[u].root
       /\ \/ /\ uris[u].rootParsed
             /\ todo' = Tail(todo)
             /\ UNCHANGED <<pc, present, frontier, stop, uris, work, queue>>
          \/ /\ ~uris[u].rootParsed
             /\ outcomes[u] \in Bodies
             /\ present' = TRUE
             /\ uris' = RootHeld(u)
             /\ todo' = Tail(todo)
             /\ Scans(outcomes[u], u, TRUE)
             /\ UNCHANGED <<frontier, stop, queue>>
          \/ /\ ~uris[u].rootParsed
             /\ outcomes[u] \notin Bodies
             /\ uris' = [uris EXCEPT ![u].rootParsed = TRUE]
             /\ Stops("unavailable", u)
             /\ UNCHANGED present
    /\ UNCHANGED <<limits, spent, dids, reached, outcomes>>

\* resolve_segment_uri for a predecessor whose body may be parsed now; `rest`
\* is what is left of the frontier.
ResolvesSegment(u, states, rest) ==
    \/ /\ states[u].segmentParsed
       /\ uris' = states
       /\ todo' = rest
       /\ Returns
       /\ UNCHANGED <<frontier, stop, queue>>
    \/ /\ ~states[u].segmentParsed
       /\ outcomes[u] \in Bodies
       /\ uris' = [states EXCEPT ![u].segmentParsed = TRUE]
       /\ todo' = rest
       /\ pc' = "store"
       /\ work' = [Idle EXCEPT !.body = outcomes[u], !.uri = u, !.depth = states[u].depth,
                               !.provider = TRUE]
       /\ UNCHANGED <<frontier, stop, queue>>
    \/ /\ ~states[u].segmentParsed
       /\ outcomes[u] \notin Bodies
       /\ uris' = [states EXCEPT ![u].segmentParsed = TRUE]
       /\ Stops("unavailable", u)

ResolveSegment ==
    /\ pc = "resolve"
    /\ todo # <<>>
    /\ Head(todo).kind = "segment"
    /\ ~uris[Head(todo).uri].root
    /\ ResolvesSegment(Head(todo).uri, uris, Tail(todo))
    /\ UNCHANGED <<present, limits, spent, dids, reached, outcomes>>

-----------------------------------------------------------------------------
\* did_document_ids keeps a DID that several identities name once.
WithDid(known, u) == IF u \in Range(known) THEN known ELSE Append(known, u)

WithDids(found) ==
    LET known[i \in 0..Len(found)] ==
          IF i = 0 THEN dids ELSE WithDid(known[i - 1], found[i])
    IN  known[Len(found)]

\* scan_initial_store up to the walk over the ingredients
ScanInitialStore ==
    LET c == Content[work.body] IN
    /\ pc = "scan"
    /\ \/ /\ ~c.store
          /\ Stops("malformed", work.uri)
          /\ UNCHANGED <<uris, spent, dids, reached>>
       \/ /\ c.store
          /\ dids' = WithDids(c.dids)
          /\ \/ /\ ReferencesSpent(c.links.examined)
                /\ Stops("references", None)
                /\ UNCHANGED <<uris, spent, reached>>
             \/ /\ ~ReferencesSpent(c.links.examined)
                /\ spent' = Charged(0, c.links.examined, 0)
                /\ uris' = Located(c.links).uris
                /\ frontier' = Located(c.links).frontier
                /\ queue' = <<[label |-> "active", depth |-> 0]>>
                /\ reached' = {"active"}
                /\ pc' = "walk"
                /\ UNCHANGED <<stop, todo, work>>
    /\ UNCHANGED <<present, limits, outcomes>>

\* enqueue_ingredients: a reference is charged before its target is looked up,
\* a target joins `reached` before its depth is charged.
Enqueue(walk, label) ==
    IF walk.limit # "none" THEN walk
    ELSE IF walk.references >= limits.references THEN [walk EXCEPT !.limit = "references"]
    ELSE LET w == [walk EXCEPT !.references = @ + 1] IN
         IF label \notin DOMAIN Content[work.body].graph \/ label \in w.reached THEN w
         ELSE IF TooDeep(w.depth + 1) THEN [w EXCEPT !.limit = "depth"]
         ELSE [w EXCEPT !.reached = @ \cup {label},
                        !.queue = Append(@, [label |-> label, depth |-> w.depth + 1])]

Enqueued(walk, ingredients) ==
    LET queued[i \in 0..Len(ingredients)] ==
          IF i = 0 THEN walk ELSE Enqueue(queued[i - 1], ingredients[i])
    IN  queued[Len(ingredients)]

\* One manifest of the walk of scan_initial_store.  The references of the
\* active manifest were examined before the walk; a time-stamp manifest is a
\* leaf.
WalkManifest ==
    LET at == Head(queue)
        m == Content[work.body].graph[at.label]
        other == at.label # "active"
        links == IF other THEN m.links ELSE [uris |-> <<>>, examined |-> 0]
        entered == Charged(1, 0, 1)
        walk == Enqueued(
                  [references |-> spent.references + links.examined, limit |-> "none",
                   depth |-> at.depth, reached |-> reached, queue |-> Tail(queue)],
                  m.ingredients)
    IN
    /\ pc = "walk"
    /\ queue # <<>>
    /\ \/ /\ NodesSpent
          /\ Stops("nodes", None)
          /\ UNCHANGED <<spent, uris, reached>>
       \/ /\ ~NodesSpent /\ BytesSpent(1)
          /\ Stops("bytes", None)
          /\ spent' = Charged(1, 0, 0)
          /\ UNCHANGED <<uris, reached>>
       \/ /\ ~NodesSpent /\ ~BytesSpent(1)
          /\ \/ /\ ~m.claim
                /\ Stops("malformed", work.uri)
                /\ spent' = entered
                /\ UNCHANGED <<uris, reached>>
             \/ /\ m.claim /\ other /\ m.stamp
                /\ spent' = entered
                /\ queue' = Tail(queue)
                /\ UNCHANGED <<pc, stop, frontier, todo, work, uris, reached>>
             \/ /\ m.claim /\ ~(other /\ m.stamp) /\ ReferencesSpent(links.examined)
                /\ Stops("references", None)
                /\ spent' = entered
                /\ UNCHANGED <<uris, reached>>
             \/ /\ m.claim /\ ~(other /\ m.stamp) /\ ~ReferencesSpent(links.examined)
                /\ spent' = [entered EXCEPT !.references = walk.references]
                /\ uris' = Located(links).uris
                /\ reached' = walk.reached
                /\ IF walk.limit # "none" THEN Stops(walk.limit, None)
                   ELSE /\ frontier' = Located(links).frontier
                        /\ queue' = walk.queue
                        /\ UNCHANGED <<pc, stop, todo, work>>
    /\ UNCHANGED <<present, limits, dids, outcomes>>

\* What comes after a store: its predecessor reference
Follows(ref, depth) ==
    \/ /\ ref.kind = "none"
       /\ Returns
       /\ UNCHANGED <<stop, frontier, todo, queue>>
    \/ /\ ref.kind = "bad"
       /\ Stops("malformed", work.uri)
    \/ /\ ref.kind \in {"external", "inline"}
       /\ pc' = "pred"
       /\ work' = [work EXCEPT !.ref = ref, !.depth = depth]
       /\ UNCHANGED <<stop, frontier, todo, queue>>

\* The end of scan_initial_store
EndWalk ==
    /\ pc = "walk"
    /\ queue = <<>>
    /\ Follows(Content[work.body].pred, 1)
    /\ UNCHANGED <<present, limits, uris, spent, dids, reached, outcomes>>

\* scan_predecessor_store
ScanPredecessorStore ==
    LET c == Content[work.body] IN
    /\ pc = "store"
    /\ \/ /\ ~c.store
          /\ Stops("malformed", work.uri)
          /\ UNCHANGED spent
       \/ /\ c.store /\ BytesSpent(1)
          /\ Stops("bytes", None)
          /\ UNCHANGED spent
       \/ /\ c.store /\ ~BytesSpent(1)
          /\ spent' = Charged(0, 0, 1)
          /\ IF c.graph["active"].claim THEN Follows(c.pred, work.depth + 1)
             ELSE Stops("malformed", work.uri)
    /\ UNCHANGED <<present, limits, uris, dids, reached, outcomes>>

\* The charges of process_predecessor_reference, in its order
PredecessorLimit(node) ==
    IF ReferencesSpent(1) THEN "references"
    ELSE IF TooDeep(work.depth) THEN "depth"
    ELSE IF node /\ NodesSpent THEN "nodes" ELSE "none"

FollowInline ==
    /\ pc = "pred"
    /\ work.ref.kind = "inline"
    /\ IF PredecessorLimit(TRUE) # "none"
       THEN Stops(PredecessorLimit(TRUE), None) /\ UNCHANGED spent
       ELSE /\ spent' = Charged(1, 1, 0)
            /\ pc' = "store"
            /\ work' = [work EXCEPT !.body = work.ref.to, !.uri = None]
            /\ UNCHANGED <<stop, frontier, todo, queue>>
    /\ UNCHANGED <<present, limits, uris, dids, reached, outcomes>>

InFrontier(u) == \E i \in DOMAIN frontier : frontier[i].uri = u

\* Mutant of Upgraded: the request keeps its kind.
StaysOpaque(u) == frontier

\* The first request for the URI becomes a manifest store.
Upgraded(u) ==
    LET i == SelectInSeq(frontier, LAMBDA r : r.uri = u)
    IN  [frontier EXCEPT ![i].kind = "segment"]

\* The URI waits in the frontier that is being built.
Awaits(u) == InFrontier(u)

FollowExternal ==
    LET u == work.ref.to
        marked == [uris EXCEPT ![u].known = TRUE, ![u].segment = TRUE, ![u].depth = work.depth]
    IN
    /\ pc = "pred"
    /\ work.ref.kind = "external"
    /\ \/ /\ PredecessorLimit(~uris[u].segment) # "none"
          /\ Stops(PredecessorLimit(~uris[u].segment), None)
          /\ UNCHANGED <<uris, spent>>
       \/ /\ PredecessorLimit(FALSE) = "none"
          /\ uris[u].segment
          /\ spent' = Charged(0, 1, 0)
          /\ Returns
          /\ UNCHANGED <<uris, stop, frontier, todo, queue>>
       \/ /\ PredecessorLimit(TRUE) = "none"
          /\ ~uris[u].segment
          /\ spent' = Charged(1, 1, 0)
          /\ \/ /\ Awaits(u)
                /\ uris' = marked
                /\ frontier' = Upgraded(u)
                /\ Returns
                /\ UNCHANGED <<stop, todo, queue>>
             \/ /\ ~Awaits(u) /\ Known(u) /\ work.provider
                /\ ResolvesSegment(u, marked, todo)
             \/ /\ ~Awaits(u) /\ Known(u) /\ ~work.provider
                /\ uris' = marked
                /\ Stops("unavailable", u)
             \/ /\ ~Known(u)
                /\ uris' = marked
                /\ frontier' = Append(frontier, [uri |-> u, kind |-> "segment"])
                /\ Returns
                /\ UNCHANGED <<stop, todo, queue>>
    /\ UNCHANGED <<present, limits, dids, reached, outcomes>>

Locate ==
    \/ \E b \in Bodies : LocateStore(b)
    \/ \E u \in Uris : LocateRoot(u)
    \/ LocateMalformed
    \/ LocateNothing

Continue ==
    \/ Planned \/ Opaque \/ ResolveRoot \/ ResolveSegment
    \/ ScanInitialStore \/ WalkManifest \/ EndWalk
    \/ ScanPredecessorStore \/ FollowInline \/ FollowExternal

-----------------------------------------------------------------------------
TypeOKPlan ==
    /\ present \in BOOLEAN
    /\ \A i \in DOMAIN frontier : frontier[i].uri \in Uris /\ frontier[i].kind \in Kinds
    /\ limits \in Limits
    /\ stop.why \in {"none", "malformed", "unavailable", "depth", "nodes", "references", "bytes"}
    /\ stop.uri \in Uris \cup {None}
    /\ uris \in [Uris -> UriState]
    /\ \A k \in {"nodes", "references", "bytes"} : spent[k] \in 0..limits[k]
    /\ dids \in Seq(Uris)
    /\ outcomes \in [Uris -> Outcomes]
=============================================================================
