--------------------------- MODULE IngredientGraph ---------------------------
(***************************************************************************)
(* Bounded recursive ingredient validation                                 *)
(* (c2pa-validate/ingredient_graph.rs, redaction.rs, and the pass of       *)
(* c2pa-validate/lib.rs that calls them).                                  *)
(*                                                                         *)
(* One verification pass makes two breadth-first walks over the manifests  *)
(* of a store.  redaction_index discovers the lineage and collects what    *)
(* its claims redact; build then validates every manifest it visits under  *)
(* that index and reports each ingredient's delta against the verdict its  *)
(* signer recorded.  Each walk has a Budget of its own with the same       *)
(* ceilings.  A step of the specification is one turn of a loop.           *)
(*                                                                         *)
(* Labels are numbers, so that they have the order the discovery sorts by. *)
(* Digests, signatures and CBOR are abstracted to their outcomes: the box  *)
(* of an assertion matches its claim's hash, differs, is zeroed or is      *)
(* absent.  A status code is <<code, manifest, assertion>>;                *)
(* assertion.redactionForbidden stands for the two codes non_redactable    *)
(* returns.  A redaction names an assertion its target's claim declares.   *)
(* The codes of hashed references inside assertions and of CAWG identity   *)
(* references are left out, their charge to the budget is kept.  Sizes     *)
(* stay far below usize, so the saturating additions are plain ones.       *)
(***************************************************************************)
EXTENDS Integers, Sequences, FiniteSets, SequencesExt

CONSTANTS
    Labels,      \* labels of manifests, present in the store or not
    Active,      \* the active manifest's label
    Stores,      \* the stores to verify: functions from some labels to manifests
    LimitSets,   \* the GraphLimits to verify under
    None         \* no target, no recorded verdict

Ceilings == <<"depth", "nodes", "references", "bytes">>
Limits == [depth : Nat, nodes : Nat, references : Nat, bytes : Nat]
Budgets == [nodes : Nat, references : Nat, bytes : Nat, exhausted : SUBSET Range(Ceilings)]

Kinds == {"ingredient", "timestamp", "protected", "other"}
Boxes == {"match", "altered", "zeroed", "absent"}

ASSUME LabelsAssumption == Labels \subseteq Nat /\ IsFiniteSet(Labels) /\ None \notin Labels
ASSUME LimitsAssumption == LimitSets \subseteq Limits
\* A pass only starts on an active manifest whose claim decodes.  Of several
\* references to one assertion ClaimAssertionRefs keeps the first.
ASSUME StoresAssumption ==
    \A s \in Stores :
        /\ DOMAIN s \subseteq Labels
        /\ Active \in DOMAIN s
        /\ s[Active].claim = "decoded"
        /\ \A l \in DOMAIN s :
             /\ s[l].bytes \in Nat
             /\ s[l].references \in Nat
             /\ s[l].claim \in {"decoded", "invalid", "missing"}
             /\ IsFiniteSet(s[l].redacts)
             /\ s[l].assertions \in Seq(Range(s[l].assertions))
             /\ \A i \in DOMAIN s[l].assertions :
                  /\ s[l].assertions[i].kind \in Kinds
                  /\ s[l].assertions[i].box \in Boxes
                  /\ s[l].assertions[i].target \in Labels \cup {None}
                  /\ \A j \in DOMAIN s[l].assertions :
                       s[l].assertions[i].name = s[l].assertions[j].name => i = j

VARIABLES
    store,          \* the manifest store under verification
    limits,         \* the caller's GraphLimits, already lowered
    strict,         \* the profile is not the generous one
    phase,          \* "discover", "charge", "walk", "done"
    queue,          \* the walk's queue of [label, depth]
    from,           \* the entry build popped last
    links,          \* its links that remain to be followed
    seen,           \* labels the discovery has popped
    index,          \* the redaction Index: <<manifest, assertion>> pairs
    indexed,        \* manifests whose claims the index was built from
    discovery,      \* redaction_index's Budget
    budget,         \* the pass's shared Budget
    reached,        \* build's reached flags
    visited,        \* manifests build has charged to the budget
    validated,      \* manifests validate_reached_manifest has run on
    results,        \* the status codes per manifest
    pending,        \* links in the order met, for the deltas
    deltas,         \* ingredientDeltas
    claims,         \* IngredientGraph.reached, as handed to CAWG
    informational   \* ceilings reported on the active manifest, in order

vars == <<store, limits, strict, phase, queue, from, links, seen, index, indexed,
          discovery, budget, reached, visited, validated, results, pending, deltas,
          claims, informational>>

inputs == <<store, limits, strict>>

-----------------------------------------------------------------------------
(***************************************************************************)
(* Budget.  A charge that does not fit notes its ceiling; the references   *)
(* counter is then left full, the node stays charged when the bytes fail.  *)
(***************************************************************************)
EmptyBudget == [nodes |-> 0, references |-> 0, bytes |-> 0, exhausted |-> {}]

Note(b, ceiling) == [b EXCEPT !.exhausted = @ \cup {ceiling}]

NodeFits(b) == b.nodes < limits.nodes
BytesFit(b, n) == b.bytes + n <= limits.bytes
ReferencesFit(b, n) == b.references + n <= limits.references

\* Mutant of DepthFits: one link more than max_depth.
DepthOffByOne(depth) == depth <= limits.depth + 1

DepthFits(depth) == depth <= limits.depth

ManifestFits(b, n) == NodeFits(b) /\ BytesFit(b, n)

\* Mutant of ChargeManifest: running out of nodes is not noted.
ChargeSilently(b, n) ==
    IF ~NodeFits(b) THEN b
    ELSE IF ~BytesFit(b, n) THEN Note([b EXCEPT !.nodes = @ + 1], "bytes")
    ELSE [b EXCEPT !.nodes = @ + 1, !.bytes = @ + n]

ChargeManifest(b, n) ==
    IF ~NodeFits(b) THEN Note(b, "nodes")
    ELSE IF ~BytesFit(b, n) THEN Note([b EXCEPT !.nodes = @ + 1], "bytes")
    ELSE [b EXCEPT !.nodes = @ + 1, !.bytes = @ + n]

ChargeReferences(b, n) ==
    IF ReferencesFit(b, n) THEN [b EXCEPT !.references = @ + n]
    ELSE Note([b EXCEPT !.references = limits.references], "references")

\* Budget::report: one entry per noted ceiling not already among `already`.
Report(b, already) ==
    SelectSeq(Ceilings, LAMBDA c : c \in b.exhausted /\ c \notin Range(already))

-----------------------------------------------------------------------------
(***************************************************************************)
(* Manifests and their links.                                              *)
(***************************************************************************)
Manifests == DOMAIN store
Named(l) == Range(store[l].assertions)

\* "A time-stamp manifest carries a time-stamp assertion and ingredient
\* assertions, and nothing else."
IsTimeStampManifest(l) ==
    /\ \A a \in Named(l) : a.kind \in {"timestamp", "ingredient"}
    /\ \E a \in Named(l) : a.kind = "timestamp"

\* A manifest the walks look into: anything else ends its branch.
Opens(l) ==
    /\ store[l].claim = "decoded"
    /\ l = Active \/ ~IsTimeStampManifest(l)

\* The members of a finite set of numbers, the smallest first.
Ascending(S) ==
    [n \in 1..Cardinality(S) |-> CHOOSE i \in S : Cardinality({j \in S : j <= i}) = n]

\* edges(): only a link whose own assertion is bound and not redacted.
Eligible(l, a, redacted) ==
    /\ a.kind = "ingredient"
    /\ <<l, a.name>> \notin redacted
    /\ a.box = "match"
    /\ a.target # None

Edges(l, redacted) ==
    LET declared == store[l].assertions
        order == Ascending({i \in DOMAIN declared : Eligible(l, declared[i], redacted)})
    IN  [n \in DOMAIN order |-> declared[order[n]]]

\* The declarations Index::add_claim keeps: not into the claim's own manifest.
Redactions(l) == {r \in store[l].redacts : r[1] # l}

NamesManifest(l) == \E r \in index : r[1] = l
Nonzero(l, name) ==
    l \in Manifests /\ \E a \in Named(l) : a.name = name /\ a.box \in {"match", "altered"}

\* redaction::verify_claim_redactions
RedactionCodes(l) ==
    {<<"assertion.selfRedacted", l, r[2]>> : r \in store[l].redacts \ Redactions(l)}
    \cup {<<"assertion.notRedacted", r[1], r[2]>> :
            r \in {r \in Redactions(l) : Nonzero(r[1], r[2])}}

\* verify_assertion_bindings, with Index::verify_manifest
BindingCodes(l) ==
    LET hidden == {a \in Named(l) : <<l, a.name>> \in index}
        outcome == [match |-> "assertion.hashedURI.match",
                    altered |-> "assertion.hashedURI.mismatch",
                    zeroed |-> "assertion.hashedURI.mismatch",
                    absent |-> "assertion.missing"]
    IN  {<<outcome[a.box], l, a.name>> : a \in Named(l) \ hidden}
        \cup {<<"assertion.notRedacted", l, a.name>> :
                a \in {a \in hidden : Nonzero(l, a.name)}}
        \cup {<<"assertion.redactionForbidden", l, a.name>> :
                a \in {a \in hidden : a.kind = "protected"}}

\* verify_ingredient_references: the manifest hash, or the claim signature
\* reference when the index names the linked manifest.
LinkCodes(l) ==
    LET linked == {a \in Named(l) : a.kind = "ingredient" /\ a.box \notin {"absent", "zeroed"}}
        Outcome(a) ==
            IF a.target = None THEN "ingredient.unknownProvenance"
            ELSE IF NamesManifest(a.target) THEN a.signatureLink
            ELSE IF a.target \notin Manifests THEN "ingredient.manifest.missing"
            ELSE a.manifestLink
    IN  {<<Outcome(a), l, a.name>> : a \in linked}

\* validate_reached_manifest
ManifestCodes(l) ==
    RedactionCodes(l) \cup BindingCodes(l) \cup LinkCodes(l)
        \cup {<<store[l].signature, l, None>>}

\* What edges() adds: a strict profile wants a recorded verdict with a link.
MalformedCodes(l) ==
    {<<"assertion.ingredient.malformed", l, a.name>> :
        a \in {a \in Range(Edges(l, index)) : strict /\ a.recorded = None}}

\* validation_deltas
Delta(recorded, observed) ==
    LET known == IF recorded = None THEN {} ELSE recorded
    IN  [observed |-> observed \ known, recorded |-> known \ observed]

-----------------------------------------------------------------------------
(***************************************************************************)
(* The discovery (redaction_index).                                        *)
(***************************************************************************)
Entry(l, d) == [label |-> l, depth |-> d]
Targets(edges) == {edges[i].target : i \in DOMAIN edges}

Init ==
    /\ store \in Stores
    /\ limits \in LimitSets
    /\ strict \in BOOLEAN
    /\ phase = "discover"
    /\ queue = <<Entry(Active, 0)>>
    /\ from = Entry(Active, 0)
    /\ links = <<>>
    /\ seen = {}
    /\ index = {}
    /\ indexed = {}
    /\ discovery = EmptyBudget
    /\ budget = EmptyBudget
    /\ reached = {}
    /\ visited = {}
    /\ validated = {}
    /\ results = [l \in DOMAIN store |-> {}]
    /\ pending = <<>>
    /\ deltas = <<>>
    /\ claims = {}
    /\ informational = <<>>

walkState == <<from, links, budget, reached, visited, validated, results, pending, deltas, claims>>

EndDiscovery(b) ==
    /\ discovery' = b
    /\ informational' = informational \o Report(b, informational)
    /\ phase' = "charge"
    /\ queue' = <<>>

DiscoverExhausted ==
    /\ phase = "discover"
    /\ queue = <<>>
    /\ EndDiscovery(discovery)
    /\ UNCHANGED <<inputs, seen, index, indexed, walkState>>

\* A label met again, or one the store does not carry.
DiscoverSkip ==
    /\ phase = "discover"
    /\ queue # <<>>
    /\ LET l == Head(queue).label IN
         /\ l \in seen \/ l \notin Manifests
         /\ seen' = seen \cup {l}
    /\ queue' = Tail(queue)
    /\ UNCHANGED <<inputs, phase, index, indexed, discovery, informational, walkState>>

\* Mutant of SortedEntries: only the first ingredient is discovered.
FirstEntryOnly(edges, d) ==
    LET order == Ascending(Targets(edges))
    IN  [i \in DOMAIN order \cap {1} |-> Entry(order[i], d)]

\* The targets of a manifest's links in label order.  A target linked twice
\* is queued twice; the second entry would only be skipped.
SortedEntries(edges, d) ==
    LET order == Ascending(Targets(edges))
    IN  [i \in DOMAIN order |-> Entry(order[i], d)]

\* A manifest whose claim is read: its redactions, then its links, each
\* charged before it is used.
DiscoverOpen(l, d, b) ==
    LET declared == ChargeReferences(b, Cardinality(store[l].redacts))
        edges == Edges(l, {})
        linked == ChargeReferences(declared, Len(edges))
    IN  \/ /\ ~ReferencesFit(b, Cardinality(store[l].redacts))
           /\ EndDiscovery(declared)
           /\ UNCHANGED <<index, indexed>>
        \/ /\ ReferencesFit(b, Cardinality(store[l].redacts))
           /\ index' = index \cup Redactions(l)
           /\ indexed' = indexed \cup {l}
           /\ \/ ~ReferencesFit(declared, Len(edges)) /\ EndDiscovery(linked)
              \/ /\ ReferencesFit(declared, Len(edges))
                 /\ discovery' = linked
                 /\ queue' = Tail(queue) \o SortedEntries(edges, d + 1)
                 /\ UNCHANGED <<phase, informational>>

DiscoverManifest ==
    /\ phase = "discover"
    /\ queue # <<>>
    /\ LET l == Head(queue).label
           d == Head(queue).depth
           b == ChargeManifest(discovery, store[l].bytes)
       IN  /\ l \notin seen
           /\ l \in Manifests
           /\ seen' = seen \cup {l}
           /\ \/ /\ ~DepthFits(d)
                 /\ EndDiscovery(Note(discovery, "depth"))
                 /\ UNCHANGED <<index, indexed>>
              \/ /\ DepthFits(d)
                 /\ ~ManifestFits(discovery, store[l].bytes)
                 /\ EndDiscovery(b)
                 /\ UNCHANGED <<index, indexed>>
              \/ /\ DepthFits(d)
                 /\ ManifestFits(discovery, store[l].bytes)
                 /\ ~Opens(l)
                 /\ discovery' = b
                 /\ queue' = Tail(queue)
                 /\ UNCHANGED <<phase, index, indexed, informational>>
              \/ /\ DepthFits(d)
                 /\ ManifestFits(discovery, store[l].bytes)
                 /\ Opens(l)
                 /\ DiscoverOpen(l, d, b)
    /\ UNCHANGED <<inputs, walkState>>

-----------------------------------------------------------------------------
(***************************************************************************)
(* The rest of the pass.                                                   *)
(***************************************************************************)

\* The active manifest's own references are charged before the walk; running
\* out there does not end the pass.  The walk only runs when the claim
\* signature is usable.
ChargeActive ==
    /\ phase = "charge"
    /\ LET charged == ChargeReferences(budget, store[Active].references) IN
         /\ budget' = charged
         /\ \/ /\ phase' = "walk"
               /\ queue' = <<Entry(Active, 0)>>
               /\ reached' = {Active}
               /\ UNCHANGED informational
            \/ /\ phase' = "done"
               /\ informational' = informational \o Report(charged, informational)
               /\ UNCHANGED <<queue, reached>>
    /\ UNCHANGED <<inputs, seen, index, indexed, discovery, visited, validated,
                   results, pending, deltas, claims, from, links>>

\* Mutant of Told: one delta per manifest, for the first link to it.
ToldPerManifest(met, codes) ==
    LET Of(link) == Delta(link.recorded, codes[link.target])
        Differs(link) == Of(link) # Delta(None, {})
        told == Ascending({i \in DOMAIN met :
                             /\ Differs(met[i])
                             /\ \A j \in 1..(i - 1) : met[j].target # met[i].target})
    IN  [i \in DOMAIN told |->
            [from |-> met[told[i]].from, name |-> met[told[i]].name,
             target |-> met[told[i]].target, delta |-> Of(met[told[i]])]]

\* One delta per link whose recorded verdict differs from the codes derived.
Told(met, codes) ==
    LET Of(link) == Delta(link.recorded, codes[link.target])
        Differs(link) == Of(link) # Delta(None, {})
        told == Ascending({i \in DOMAIN met : Differs(met[i])})
    IN  [i \in DOMAIN told |->
            [from |-> met[told[i]].from, name |-> met[told[i]].name,
             target |-> met[told[i]].target, delta |-> Of(met[told[i]])]]

\* The end of build: the budget's report goes to the graph's own list, which
\* the caller appends; the deltas come last, from the final results.
EndWalk(b, met, codes) ==
    /\ budget' = b
    /\ pending' = met
    /\ results' = codes
    /\ deltas' = Told(met, codes)
    /\ claims' = {l \in reached \ {Active} : store[l].claim = "decoded"}
    /\ informational' = informational \o Report(b, <<>>)
    /\ phase' = "done"
    /\ queue' = <<>>
    /\ links' = <<>>

WalkExhausted ==
    /\ phase = "walk"
    /\ links = <<>>
    /\ queue = <<>>
    /\ EndWalk(budget, pending, results)
    /\ UNCHANGED <<inputs, seen, index, indexed, discovery, reached, visited, validated, from>>

\* index_of knows the link's target.
InStore(a) == a.target \in Manifests

\* Mutant of IsFresh: a manifest reached before is entered again.
EntersAgain(a) == TRUE

\* The link's target has not been reached yet.
IsFresh(a) == a.target \notin reached

\* One turn of the loop over a manifest's links.  A link to a manifest of the
\* store is pending; a manifest not yet reached is queued, unless it lies too
\* deep, which ends the walk at that link.
FollowLink ==
    /\ phase = "walk"
    /\ links # <<>>
    /\ LET a == Head(links)
           d == from.depth + 1
           told == Append(pending, [from |-> from.label, name |-> a.name,
                                    target |-> a.target, recorded |-> a.recorded])
       IN  \/ /\ ~InStore(a)
              /\ links' = Tail(links)
              /\ UNCHANGED <<phase, queue, budget, reached, results, pending, deltas, claims,
                             informational>>
           \/ /\ InStore(a)
              /\ ~IsFresh(a)
              /\ links' = Tail(links)
              /\ pending' = told
              /\ UNCHANGED <<phase, queue, budget, reached, results, deltas, claims,
                             informational>>
           \/ /\ InStore(a)
              /\ IsFresh(a)
              /\ DepthFits(d)
              /\ links' = Tail(links)
              /\ pending' = told
              /\ reached' = reached \cup {a.target}
              /\ queue' = Append(queue, Entry(a.target, d))
              /\ UNCHANGED <<phase, budget, results, deltas, claims, informational>>
           \/ /\ InStore(a)
              /\ IsFresh(a)
              /\ ~DepthFits(d)
              /\ EndWalk(Note(budget, "depth"), told, results)
              /\ UNCHANGED reached
    /\ UNCHANGED <<inputs, seen, index, indexed, discovery, visited, validated, from>>

\* A manifest the walk validates and whose links it is about to follow.
WalkOpen(l, b) ==
    LET examined == IF l = Active THEN 0 ELSE store[l].references
        codes == IF l = Active THEN results
                 ELSE [results EXCEPT ![l] = ManifestCodes(l)]
        referred == ChargeReferences(b, examined)
        edges == Edges(l, index)
        linked == ChargeReferences(referred, Len(edges))
        all == [codes EXCEPT ![l] = @ \cup MalformedCodes(l)]
    IN  /\ validated' = validated \cup ({l} \ {Active})
        /\ \/ /\ ~ReferencesFit(b, examined)
              /\ EndWalk(referred, pending, codes)
           \/ /\ ReferencesFit(b, examined)
              /\ ~ReferencesFit(referred, Len(edges))
              /\ EndWalk(linked, pending, all)
           \/ /\ ReferencesFit(b, examined)
              /\ ReferencesFit(referred, Len(edges))
              /\ budget' = linked
              /\ results' = all
              /\ links' = edges
              /\ queue' = Tail(queue)
              /\ UNCHANGED <<phase, pending, deltas, claims, informational>>

\* A manifest whose claim is absent or undecodable.
MissingClaim(l) ==
    {<<IF store[l].claim = "missing" THEN "claim.missing" ELSE "claim.cbor.invalid", l, None>>}

WalkManifest ==
    /\ phase = "walk"
    /\ links = <<>>
    /\ queue # <<>>
    /\ from' = Head(queue)
    /\ LET l == Head(queue).label
           b == ChargeManifest(budget, store[l].bytes)
       IN  \/ /\ ~ManifestFits(budget, store[l].bytes)
              /\ EndWalk(b, pending, results)
              /\ UNCHANGED <<visited, validated>>
           \/ /\ ManifestFits(budget, store[l].bytes)
              /\ ~Opens(l)
              /\ budget' = b
              /\ visited' = visited \cup {l}
              /\ results' = IF store[l].claim = "decoded" THEN results
                            ELSE [results EXCEPT ![l] = MissingClaim(l)]
              /\ queue' = Tail(queue)
              /\ UNCHANGED <<phase, links, validated, pending, deltas, claims, informational>>
           \/ /\ ManifestFits(budget, store[l].bytes)
              /\ Opens(l)
              /\ visited' = visited \cup {l}
              /\ WalkOpen(l, b)
    /\ UNCHANGED <<inputs, seen, index, indexed, discovery, reached>>

Next ==
    \/ DiscoverExhausted
    \/ DiscoverSkip
    \/ DiscoverManifest
    \/ ChargeActive
    \/ WalkExhausted
    \/ WalkManifest
    \/ FollowLink

Spec == Init /\ [][Next]_vars

-----------------------------------------------------------------------------
(***************************************************************************)
(* Properties.                                                             *)
(***************************************************************************)
Entries == [label : Labels, depth : Nat]

\* Every variable holds what the code declares it to hold.
TypeOK ==
    /\ store \in Stores
    /\ limits \in LimitSets
    /\ strict \in BOOLEAN
    /\ phase \in {"discover", "charge", "walk", "done"}
    /\ queue \in Seq(Entries)
    /\ from \in Entries
    /\ seen \subseteq Labels
    /\ indexed \subseteq Manifests
    /\ discovery \in Budgets
    /\ budget \in Budgets
    /\ reached \subseteq Manifests
    /\ visited \subseteq Manifests
    /\ validated \subseteq Manifests
    /\ DOMAIN results = Manifests
    /\ \A i \in DOMAIN pending : pending[i].target \in Manifests
    /\ claims \subseteq Manifests
    /\ informational \in Seq(Range(Ceilings))

\* No manifest is validated twice whatever cycles and diamonds the links form,
\* so the node count of a walk is the number of different manifests it
\* charged: max_nodes bounds "distinct manifests visited".
EachManifestChargedOnce ==
    /\ budget.nodes <= limits.nodes
    /\ budget.bytes <= limits.bytes
    /\ budget.references <= limits.references
    /\ "bytes" \notin budget.exhausted => budget.nodes = Cardinality(visited)

\* Where the bound and unredacted links of the manifests of S that open lead.
Onward(S) ==
    UNION {Targets(Edges(l, index)) \cap Manifests : l \in {l \in S : Opens(l)}}

\* The manifests that such links lead to in at most n steps.
Within[n \in Nat] ==
    IF n = 0 THEN {Active} ELSE Within[n - 1] \cup Onward(Within[n - 1])
Lineage == Within[Cardinality(Manifests)]

\* A walk that reports no ceiling missed nothing: every manifest of the
\* lineage was charged, each that opens was validated, and nothing else was;
\* CAWG is handed the claims of the lineage that decode, and no other.
CompleteUnlessReported ==
    (phase = "done" /\ visited # {} /\ budget.exhausted = {}) =>
        /\ visited = Lineage
        /\ validated = {l \in Lineage \ {Active} : Opens(l)}
        /\ claims = {l \in Lineage \ {Active} : store[l].claim = "decoded"}

\* The depth ceiling is only reported for a manifest that no path of
\* max_depth links leads to, and no manifest is visited beyond it: the
\* breadth-first order meets every manifest on a shortest path.
DepthIsShortest ==
    phase = "done" =>
        /\ visited \subseteq Within[limits.depth]
        /\ "depth" \in budget.exhausted => ~(Lineage \subseteq Within[limits.depth])

\* Discovery precedes validation: unless the discovery itself reported a
\* ceiling, the redactions of every claim the walk visits are in the index,
\* those of manifests validated later included.
RedactionsKnownBeforeUse ==
    (phase \in {"walk", "done"} /\ discovery.exhausted = {}) =>
        \A l \in visited : Opens(l) => l \in indexed /\ Redactions(l) \subseteq index

\* The verdict the walk gives a manifest when it is not cut short.
FullVerdict(l) ==
    IF store[l].claim # "decoded" THEN MissingClaim(l)
    ELSE IF ~Opens(l) THEN {}
    ELSE MalformedCodes(l) \cup IF l = Active THEN {} ELSE ManifestCodes(l)

\* Unless a ceiling stopped the walk, an ingredient assertion of the lineage
\* has exactly one delta when its signer's recorded verdict differs from the
\* full verdict on its manifest, and none otherwise, also when the manifest
\* was validated before or after the link was met.
DeltasAgainstFullVerdict ==
    (phase = "done" /\ visited # {} /\ budget.exhausted = {}) =>
        \A l \in {l \in Lineage : Opens(l)} :
            \A a \in {a \in Range(Edges(l, index)) : a.target \in Manifests} :
                LET told == {i \in DOMAIN deltas : deltas[i].from = l /\ deltas[i].name = a.name}
                    due == Delta(a.recorded, FullVerdict(a.target))
                IN  IF due = Delta(None, {}) THEN told = {}
                    ELSE /\ Cardinality(told) = 1
                         /\ \A i \in told : deltas[i].delta = due
=============================================================================
