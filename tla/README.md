# encypher-c2pa: TLA+ specifications

encypher-c2pa is a verifier for C2PA content credentials: a Rust library, a
command line and bindings for C, Python and WebAssembly.  Most of it is a pure
function from bytes to a report.  What can go wrong in ways that a unit test
hardly reaches is the part that carries state from one step to the next: over
the segments of a live stream, over the events of an RTMP connection that drops
and comes back, over the requests of a resolver whose transport belongs to the
caller, over rounds of discovery and fetching that share one budget, over a
graph of ingredients with ceilings, over a series of gates of which some end a
pass and some only set a flag, over a settings file that several processes
rewrite.  These modules model that part.

Paths below are relative to `crates/encypher-c2pa/src/` unless they say
otherwise.

## 1. Inventory

| Part | State it keeps | Operations | What is hard | What makes it correct |
|---|---|---|---|---|
| E-RTMP verifier, `ertmp.rs` | per track: configuration, open frames, pending segment, last sequence; delivered manifests; key owners; active manifest; reports and failures | one per event: codec configuration, frame, `c2paManifest`, `c2paSegmentInfo`, reconnection, end | events of several tracks interleave; authentication and closure are separate steps; state that survives a reconnection and state that must not | consecutive numbers, one track per key, a valid report is about the authenticated frames, no frame escapes the verdict |
| Soft-binding resolver, `soft_binding.rs` | documents received, matches to schedule, manifests recovered, the pending request | `new`, `next_request`, `accept_response`, `finish`; native driver `resolve_soft_binding`; the receipt session | the transport is the caller's; every error leaves the session usable; the service chooses the endpoints | requests stay on the allowlist, disclosure needs consent and negotiation, results are complete and in order, the driver returns |
| Per-segment stream chain, `c2pa-validate/stream.rs`, `live_video.rs` | predecessor, its continuity state, expected number, stream id | one iteration per segment; a seek | order, repetition, gaps, segments without a manifest; i128 against u64 | a valid chain is the signed stream; a break is reported where it is |
| Live-video session, `c2pa-validate/live_video.rs`, `stream.rs` | session keys, the ledger of event ids, expected number | key delivery, one segment with its events, seek | event ids are not signed; a failing segment still moves the state | a valid stream is continuous; an accepted id names one segment |
| Ingredient graph and redaction, `c2pa-validate/ingredient_graph.rs`, `redaction.rs` | queue, flags, two budgets, redaction index, results, deltas | discovery, walk, deltas | cycles, diamonds, four ceilings, redactions declared elsewhere | nothing missed silently, nothing twice, redactions known before use |
| Verification result cache, `c2pa-validate/cache.rs` | map, key order, counters | `get`, `put`, `put_with_ttl`, `verify_cached` | expiry, eviction, two containers kept in step, what the key covers | a hit is the latest fresh result for its key |
| Update check, `crates/encypher-c2pa-cli/src/update.rs` | the settings file; each process's copy | check at start, `update`, `update-check on/off` | processes without a lock; kills; failing writes; Windows replaces in two steps | an off stays off, one check a day, a skipped release is not offered, unless a race or a stop undoes the choice |
| External discovery, `c2pa-validate/external_discovery.rs` | frontier, state of each URI, budget, DID documents, reason to stop | locate, then rounds of `continue_with` | a URI found first as opaque content and then as a store; bodies that refer to each other; a stop in the middle of a round | rounds end; a plan without a stop has followed everything |
| Online fetches, `online.rs`, `native_online.rs`, rounds in `lib.rs` | outcomes by URI, handled URIs, budget of requests and bytes, OCSP answers | settle a frontier, DID documents, pass, OCSP, second pass | four kinds of request over one budget; the same URI in two roles; what was known is asked for again | the first outcome stays and every consumer sees it; consent before a request; the budget holds |
| Online consent, `online_consent.rs` | saved preference | decide, ask, save | prompts in the middle of a session | the decision is in `OnlineSession`; the file is not modelled |
| Telemetry, `telemetry.rs`, `telemetry_consent.rs` | bounded queue, worker | enqueue, send | queue full, worker gone | not modelled: no verdict reads it |
| E-RTMP wire decoder, `ertmp_wire.rs`, `ertmp_wire/` | per chunk stream: last header, partial message; chunk size, buffered bytes, track bindings | chunk, control message, abort, FLV tag | interleaved chunk streams, inherited fields, abort and replacement of partial messages, wrapping times | what was sent is delivered, no message mixes two, the byte count is exact |
| Validation pipeline, `c2pa-validate/lib.rs`, `program.rs`, `timestamp_assertion.rs` | results, first fatal code, time, gate | one sequential pass of fourteen stages | early returns, flags and suppressions of different scope; four postures | valid means compared, trusted means earned, identity on sound manifests, a gate names its reason |
| Trust, OCSP, time stamps, `c2pa-trust/`, `revocation.rs` | none | chain building, merging of evidence | stapled and online answers disagree; which time counts | merging, recording and blocking are stages of the pipeline; chains and responses are outcomes |
| Versions and update manifests, `versions.rs`, `spec25.rs`, `update_manifest.rs` | none | structural rules; chain of parents | a binding inherited through links of three kinds | the chain is in the pipeline; structural rules are outcomes |
| Caller-verified bindings, `caller_binding.rs` | none | compare digests | evidence about another store | how they enter the verdict is in the pipeline |
| Facade, `lib.rs` | options | verify, report | rounds and verdict rules | the rounds are `OnlineSession`, the verdict is in the pipeline |
| Fragment sequences and stream dispatch, `c2pa-validate/stream.rs`, `stream.rs` | position in an init segment's rows | fragments in order | order and omissions | only what unbound fragments do to a verdict |
| Segment hash history, `c2pa-validate/segment_hash.rs` | position in one file | walk back along the checkpoints of a file | bounds of the walk | not modelled; its reading of external predecessors is discovery |
| Hashed references, `c2pa-validate/refs.rs` | none | walk over CBOR | data shape | only its charge to the budget and its codes |
| CAWG identity, report formatting, observers | none | checks on one manifest | data shape | not modelled: when identity runs and what it does to the verdict is in the pipeline |
| Cryptography, CBOR, JUMBF, asset formats, bindings, arguments | none | byte parsing, marshalling | data shape | not modelled: outcomes in the modules above |

How the parts meet.  The facade runs the pipeline on an asset; the pipeline
calls the ingredient walk, which validates each manifest with the same
functions under a redaction index and a budget.  A stream is dispatched to the
per-segment chain, to the live session or to fragment sequences, and each
segment goes through the pipeline.  The wire decoder turns RTMP chunks into the
events of the E-RTMP verifier, which validates a delivered manifest through the
facade.  Discovery and the online session surround a pass: they fetch what a
pass asked for and run it again.  The cache wraps a pass.  The update check is
part of the command line only.  Everything in the library runs in the caller's
thread except the telemetry worker; concurrency between processes exists where
files are shared (settings, consent).

## 2. Modules

Each component has a module with its state, `Init`, one action per operation,
`Next`, `Spec` and its properties; `MC*` modules hold the values TLC uses, and
`*Proofs` modules the theorems.  Definitions whose comment starts with "Mutant"
are faulty variants of the definition that follows them; nothing uses them
except the trials that show that a property can fail.  `PROJECT.json` maps every
other definition to its lines.  No module declares a RECURSIVE operator: what the
code computes in a loop over data is a recursive function, a set, or a choice by
rank (`Ascending` in `IngredientGraph`), which the proofs can take apart.  Two
pairs of components share a module of theorems: `ErtmpProofs` also has those of
`ErtmpWire`, `OnlineSessionProofs` those of `UpdateCheck`.  Their names are kept
apart for that (`WireInit`, `wireVars`, `sink`; `UpdateSpec`, `stage`), and
`Options` declares the `None` they have in common.

### Ertmp (`ertmp.rs`)

One behaviour is one call of `verify_ertmp_with_options`.  `Begin` is the part
before the loop, each further action an arm of `Verifier::event`, `Finish` the
end.  `finalize_pending` is the three `Finalized...` operators, and
`authenticate_candidate` is `IsAuthentic`, split where the code binds a manifest
before it looks at keys (`ReachesKeys`).  A codec payload is a sequence of bytes
because `initialization_data` concatenates payloads without a delimiter; a
digest is the data it covers.  Frame ids, connection epochs and what an accepted
candidate was checked against are history: no guard reads them.

### SoftBinding (`soft_binding.rs`)

Both sessions, under two drivers: `native` stops at the first error, `caller`
may do anything the API allows (answer with a redirect, answer when nothing is
pending, finish at any moment).  `New`, `Respond`, `RefuseResponse`,
`SpuriousResponse` and `Finish` are the operations; the service's answers are
chosen from everything the parser accepts, plus `Malformed`.

### SegmentChain (`stream.rs`, `live_video.rs`)

`verify_per_segment` with `validate_live_video_assertion`.  `Present` is one
iteration of the loop; declaration, continuity and link checks are
`DeclarationFails`, `ContinuityFails`, `LinkFails`.  A declared number is an
integer (i128 in the code), the continuity state a u64 with saturating addition.

### LiveSession (`live_video.rs`, `stream.rs`)

`Deliver` is `validate_session_keys_with` on the init manifest, `PresentSegment`
is `validate_emsg_segments` for one segment with the id ledger
(`SessionEventIds`), authentication and continuity.  Whether an emsg's timing
reads and whether a signature verifies are fields of the segment.

### IngredientGraph (`ingredient_graph.rs`, `redaction.rs`, parts of `lib.rs`)

`Discover...` are the turns of `redaction_index`'s loop, `ChargeActive` what the
pass charges for the active manifest, `WalkManifest` and `FollowLink` the two
loops of `build`, `EndWalk` the deltas it computes at its end.  Each walk has a
`Budget` of its own, and each charge has the code's order and the code's
partial effects.  Binding and signature checks of a manifest are a set of status
codes.  Charges for external resources and the append history are left out.

### ExternalDiscovery (`external_discovery.rs`)

One plan.  The functions of the file call one another only as their last act, so
a call is a walk of small steps and `pc` names the function that runs next:
`LocateStore`, `LocateRoot`, `LocateMalformed` and `LocateNothing` are the four
ends of `locate_external_resources` and its detached form; `ContinueWith`,
`Opaque`, `ResolveRoot`, `ResolveSegment` and `Planned` the loop of
`continue_with`; `ScanInitialStore`, `WalkManifest` and `EndWalk` the store
walk; `ScanPredecessorStore`, `FollowInline`, `FollowExternal` and
`PredecessorLimit` the predecessor chain.  A URI has the four flags of
`UriState`; a request that is still in the frontier is upgraded from opaque to
store (`Upgraded`).  A body is a name and `Content` says what parsing it finds.

### OnlineSession (`lib.rs`, `native_online.rs`, `online.rs`, `online_consent.rs`) and OutcomeMap

`OnlineSession` extends `ExternalDiscovery`, whose provider (`outcomes`) it
fills: one behaviour is one call of `verify_embedded_online_v25` or
`verify_detached_online_v25`.  `EnsureGraphResource` is the adapter's function
of that name for one request of the frontier, with the decision (`Standing`,
`Decides`: option, environment, surface, saved choice, prompt), the budget
(`Exhausted`, `Allowance`, `Spends`) and the outcome kept (`Keeps`); then
`ResolveDidDocument`, `Pass`, `FetchOcsp` and `Finish`.  A server may answer
any request with any body, with too much, or not at all; a person may answer
each prompt differently.

`OutcomeMap` is the abstract specification: a write-once map from URIs to
outcomes, contacted at most once each, frozen when the first pass judges.
`OnlineSession` is shown to implement it, with the map as `outcomes` and
`frozen` as "a pass has judged".

### ErtmpWire (`ertmp_wire.rs`)

`Decodes` is one turn of the loop in `RtmpDecoder::decode`, `Handles` is
`message`, `EndOfConnection` the passage to the next trace, `FlvTag` one tag of
`ertmp_input_from_flv`.  The environment is a publisher that writes messages
chunk by chunk with any header format RTMP allows it (`PublishStart`,
`PublishMore`), and `Stray` chunks that break the rules.  A byte of a message is
the number of the message, so a payload shows where it came from.  AMF3 values
and codec layouts are packets that read or do not.  `Ertmp` takes the events
this module delivers.  An abort may name any chunk stream, its own included, or
one that does not exist, which `Permitted` refuses; a control message of another
length than its type has is refused by `Acceptable`.  `Held` is the sum of the
capacities of the partial messages, which `buffered_bytes` has to equal.

### ManifestPipeline (`lib.rs`, `program.rs`, `timestamp_assertion.rs`, `caller_binding.rs`, `c2pa-trust/lib.rs`)

One pass of `verify_manifest_bound`: `CheckClaim`, `CheckStructure`,
`CheckReferences`, `FindSignature`, `EstablishTime`, `CheckCredential`,
`CheckBindings`, `CheckContent`, `CheckIdentity`, `RecordRevocation`,
`EvaluateTrust`, then `ApplyUpgrades`, `Finish` and `RequireFragmentsBound`.
Each is a deterministic stage; what it reads from the store, the asset, the
caller and the network is a field of `call`, listed in the module's header.
Results are sets of status codes: two statuses with one code differ only in
their place.  A link that is missing, or whose claim signature does not match,
gives the code of a link that does not match: all are failures, and no verdict
tells them apart.  The codes that say why a time-stamp token was not used are
informational and left out; a malformed time-stamp assertion is a failure.  The four postures are mode and compliance level; version 2.5
changes which stages run and which bindings count.

### UpdateCheck (`encypher-c2pa-cli/src/update.rs`)

Processes with a program counter; the settings file, the clock and the index of
releases are shared.  Reading, writing (two steps on Windows), the request and
the prompt are separate steps, since a process may be killed, or another run,
between any two.  `off`, `checkedAt` and `skipped` record what was last saved;
the code keeps no such record, and no step reads them.  `stale` is the set of
processes whose copy of the settings was read before another process's last
write, or while the file was removed; `exposed` says which of the three an older
copy, or a removal without a rename, may have undone since they were saved.
`SavedChoicesHold` and `OncePerDay` hold for any number of commands with those
cases excepted, and only with them (section 4).

### VerifyCache (`cache.rs`)

The map and the order vector are both state.  `VerifyCached`, `Verify`, `Store`
are the three moments of `verify_cached`; `CallerGet` and `CallerPut` are the
public operations.  Time passes between the moments, never inside an operation,
because the cache is borrowed mutably.

## 3. Runs

| Run | Instance | Shows |
|---|---|---|
| `ertmp_tracks` | two tracks, two keys, one label with two stores, nine events | `ConsecutiveSequences`, `OneTrackPerKey`, `ValidCoversEveryFrame`, `ClosesAuthenticatedFrames`, `SequenceAndKeysSurvive` |
| `ertmp_binding` | two tracks with room for one, two chunk streams, four stores of one label, six events | `SegmentStaysOnConnection`, `AcceptedUnderBoundManifest` |
| `ertmp_wire` | three chunk streams, ten messages with up to three time stamps (four are aborts: of another chunk stream, of their own, of none, and of a wrong length; one is an acknowledgement of a wrong length), seven stray chunks, three sent over two connections; five FLV tags | `ConformingStreamIsDelivered`, `NoMessageIsSpliced`, `BufferedIsHeld` |
| `soft_binding` | an allowed and a foreign origin, two accepted matches, one answer out of turn | `RequestsStayAllowed`, `DisclosesWithConsent`, `RecoveredInOrder`, `NativeComplete`, `NativeReturns` |
| `segment_chain` | four segments out of nineteen, seeks anywhere, u64 up to 2 | `ValidChainIsLinked`, `BreaksReportedWhereTheyAre` |
| `live_session` | three segments out of twelve, six deliveries, two times | `ValidStreamIsContinuous`, `AcceptedIdsNameOneSegment`, `GapReportedOnce` |
| `ingredient_graph` | 525 link structures and eleven lineages under 22 sets of ceilings | `EachManifestChargedOnce`, `CompleteUnlessReported`, `DepthIsShortest`, `RedactionsKnownBeforeUse`, `DeltasAgainstFullVerdict` |
| `online_session` | three URIs (one not https, one a pinned DID document), nine bodies that refer to each other, three sets of evidence, five consents, three sets of ceilings, three requests, four units of bytes | `DiscoveryAndPassAgree`, `ConsentGoverns`, `WithinBudget`, `CompleteUnlessStopped`, `Terminates`, and the refinement `ImplementsOutcomeMap` |
| `manifest_pipeline` | a sound and trusted call and every call that differs from it in at most two of the listed ways, for four profiles and thirteen contents: 79,248 calls | `BoundWhenValid`, `TrustedIsEarned`, `IdentityOnSoundManifest`, `GateExplains` |
| `pipeline_legacy` | the same calls | violated: `IntegrityMeansBound` |
| `update_check` | two interchangeable processes, both builds, the clock from 0 to 2 with a day of two, an initial file absent, unreadable, of defaults or ahead of the clock, one release | `SavedChoicesHold`, `OncePerDay` |
| `verify_cache` | capacity one and two, three trust lists (symmetric), two assets of which one fails to verify, five operations | `OrderListsTheMap`, `HitIsCurrent`, `EvictsLeastRecentlyUsed` |

Why the bounds are enough.  Nine E-RTMP events are two segments with a
reconnection, a new configuration and a new manifest between them, and also two
tracks that each close a segment while the manifest rotates; six are a
configuration, a manifest, a segment, a redelivery and a second segment.  Four
stream segments are a predecessor, a defective one and two successors, so that a
state that goes stale after a failure has time to do harm.  Three live segments
are a number, a gap and the number after it; two are needed for a replay.  Four
labels give every cycle and diamond with an absent end; the ceilings take every
value up to the size of the stores, one at a time, and some together.  Three
keys in a cache of two are the least that evicts.  A day of two ticks tells
"within the day" from "a day later".  Two processes are the least of which one
writes while the other holds an older copy, and each may run any number of
commands one after another; the proofs are for any number.  Three URIs make a root, a predecessor that
was first found as content, and a document that is also one of them; a fourth
would only lengthen the chain, and the ceilings stop a chain of two.  Three
requests are fewer than a session can want, so the budget runs out in every
phase.  Three messages over chunks of one byte keep two partial messages open
while a third aborts one of them or changes the chunk size; time stamps wrap at
8 and need the extended field from 3 on.  Two simultaneous deviations of a call
are what it takes for one failure to hide another, or for one gate to stand in
for another.  Deadlock is checked for the online session, which stutters only at
its end; it is not checked for the others: they end (a report is returned, a
session consumed, a stream refused) or reach their bound.

Fairness.  Two modules assume any, both weak fairness of a sequential driver
that the caller's thread runs to its end.  `resolve_soft_binding` is a loop that
fetches the pending request and feeds the answer in (`soft_binding.rs:959-986`).
The online rounds are a loop over frontiers (`lib.rs:1707`); every fetch has a
timeout and a body limit, so it ends in an answer or an error, and a prompt is
answered or its input closed.  `Terminates` is therefore about the frontiers,
which grow with what servers answer.  Nothing is assumed of a caller of the
public soft-binding session, nor of any other module, whose properties are
safety only.

## 4. What the code does that its comments do not say

One run is expected to be violated.

- `pipeline_legacy`: an update manifest inherits the hard binding of its first
  standard ancestor, and it is compared only when the link to its parent was
  recorded as validated (`c2pa-validate/lib.rs:7180`, a return without a
  status).  A link that matches only the C2PA 1.0 claim hash is accepted in the
  regular core posture with an informational status, never as validated
  (`lib.rs:6587-6603`).  So the report has `integrity: valid` and the content
  was not compared, while the repository's README says of `integrity` that "the
  content matches its hard binding" (`README.md:138`).  `hard_binding` of the
  same report is `unknown`.  `BoundWhenValid` shows that, in the calls
  considered, such links are the only way from a mismatch to a valid verdict.

The models reproduce further differences that have no run of their own.

- Soft binding: `accept_response` takes the pending request before it checks the
  response, and `finish` only looks at the negotiation documents
  (`soft_binding.rs:456`), so a caller of the public session that goes on after
  a refused response gets `Ok` without the matches (line 252: "Complete evidence
  from one read-only resolution flow").  The native driver stops at the error
  (`NativeComplete`).
- Live session: a segment whose timing does not read returns before its ids
  reach the ledger (`live_video.rs:618`; line 574: "Every candidate's `id` is
  admitted to `event_ids` before it is timed").  The segment itself fails, but a
  later one may carry its ids.
- Update check: after an off the program says "Update checks are off. Turn them
  back on with: encypher-c2pa update-check on" (`update.rs:253`), but a choice
  is lost in two ways.  `check_on_start` writes back the whole copy of the
  settings it read, at once and again after the request and the prompt
  (`update.rs:234-249`), so an off or a skip that another command saved in
  between is undone.  And on Windows `write_settings` removes the file before it
  renames the new one into its place (`update.rs:173-177`), and a missing file
  reads as the defaults (`update.rs:161`), so a process stopped between the two
  turns a saved off back on, with no other command running.  TLC finds
  the one with `Builds = {FALSE}`, the other with `{TRUE}`, when
  `"off" \notin exposed` is taken out of `SavedChoicesHold`; as it stands, the
  property shows that there is no third way.
- Cache: profile, allowed certificates, evidence and strict encoding are not in
  the key (`cache.rs:187`; line 73: "any change busts the entry").
- E-RTMP: a manifest delivered again under its label and not used again is
  missing from the report's list of manifests (`ertmp.rs:160`).
- Stream chain: after a predecessor without a usable declaration the continuity
  record of a segment is not looked at (`stream.rs:754`; its declaration and
  link still are).
- Ingredient walk: when a ceiling stops it, the claims handed to CAWG include
  manifests that were queued but not validated (`ingredient_graph.rs:500`).
- Revocation: an online answer that was unreachable or unusable takes the place
  of a verified stapled answer in the record (`lib.rs:2921-2950`); trust is
  still decided with both.
- External data: a mismatch of external data withholds the success of the hard
  binding and the evaluation of identities, although the same mismatch is exempt
  from integrity (`lib.rs:7487`, `11043-11054`).
- Trust: under 2.5 in the regular core posture a leaf that is its own anchor is
  trusted outside its validity window, since `evaluate_path` leaves the anchor
  out of the window check (`c2pa-trust/lib.rs:939-943`).
- Consent: `online_consent.rs:141` says "Ask once, listing every purpose and host
  this verification would contact"; the 2.5 rounds ask for each resource as it
  is found.

## 5. Proofs

`tlapm` checks eight modules, about ten components.  Their theorems hold for every value of the
constants that satisfies the named assumptions of the component's module.  The
assumptions say what the code gives: bounds are natural numbers; `None` is no
member of the sets it stands beside; allowlisted origins are origins; stores, segments, bodies and calls have the
fields the code reads, of the types it reads them with (`StoresAssumption`,
`SegmentsAssumption`, `ContentAssumption`, `CallsAssumption`); consents and
limits are records of the declared kinds (`SessionAssumption`); assertions of one
claim have different names, because `ClaimAssertionRefs` keeps the first
reference to a label (`c2pa-validate/lib.rs:4201-4205`).  TLC evaluates each of
them in the run of its module.  Every invariant and action property that the
passing runs check is proved.

Almost no property is inductive as it stands: a property speaks of what was
reported or answered, and the next step depends on what is carried.  So each
module has a stronger invariant of named parts, and one lemma per action.

`ErtmpProofs`.  Reports are written at closure from what was recorded at
authentication.  The strengthening over `TypeOK` has five parts: `SequenceInv`
(the last sequence is that of the last valid report, and a pending acceptance is
its successor), `ConnectionInv` (open frames and a delivered active manifest
belong to the current connection), `BindingInv` (a binding is recorded only for
a store that matches it, under its own label), `AcceptInv` (pending and reported
acceptances name the frames they close, a live key, and that key's owner) and
`CoverInv` (a frame received is at exactly one place of one track, in a closed
segment or among the open frames, unless a failure says otherwise).  `CoverInv`
gives `CoverageInvariant`: integrity "valid" covers every coded frame, once.
`SurvivalProperty` is an action property.

`ErtmpProofs`, the wire decoder.  `WireInv` is the conjunction of `StatusInv`,
`DecoderInv` and, while the connection is open and the publisher has kept to the
rules, `Agreement`.  Neither half is enough alone.

- `DecoderInv` holds whatever was written.  Every partial message is unfinished,
  has received what its payload holds, and its payload is of one message;
  `buffered_bytes` is the sum of the capacities and within its limit; what was
  delivered is of one message each.  It gives `BufferedBytesAreHeld` and
  `MessagesAreNotSpliced`.
- `Agreement` relates the decoder to the publisher.  They have the same chunk
  size; the last header of each chunk stream is the same on both sides, and it
  says of itself whether its time field was extended and whether it was absolute,
  which decides what a chunk without a header inherits; the partial messages are
  those being written, with what is left of each; and what was delivered is what
  was completed.  `ConformingStreamsAreDelivered` follows: an invariant about the
  messages alone would not survive the first chunk that leaves its header out.
- `Held`, `Parsed` and the walk over the packets of an aggregate are recursive
  functions.  `StepByStep` gives a function its value at the next number from
  its definition, and `CountingUp` what holds at every number.

The proof first failed at two places where the model differed from the code: an
abort of its own chunk stream returned the capacity twice, and an abort of a
chunk stream outside 2..65599 was not refused (`ertmp_wire.rs` takes the finished
message off before it handles it, and refuses the argument).  Both are modelled as
the code has them, and the run has messages for both.

`SegmentChainProofs`.  `ChainInvariant` and `BreaksInvariant` rest on an
invariant that ties the state carried between iterations to the last segment
presented, and the segments already passed to the failures reported.

`LiveSessionProofs`.  `Inv` says that the vectors of the loop run in step
(`Typed`), that the number expected follows the last segment if that one was
authenticated (`NextFollows`), that an origin in the ledger is a segment really
presented (`LedgerOK`), and that the ids of a segment that passed are in the
ledger with that segment as their origin (`PassedOwnIds`).  Without the last one
`AcceptedIdsNameOneSegment` is not inductive: a replay of an id that was
accepted, but whose ledger entry names another segment, would pass.

`IngredientGraphProofs`.  All five properties of the walk, for any store: cycles,
diamonds, absent targets and redacted links.

- `ChargedOnce`: labels in the queue are marked, not yet charged and pairwise
  different (`FreshQueue`), the budget counts the charged set (`Counts`), and no
  charge passes a ceiling (`Under`).
- `RedactionsKnown`: in `DiscoverInv`, a manifest the discovery has popped has
  its redactions in the index, and what its links lead to is popped or waits in
  the queue (`Gathered`).  The discovery follows the links that no redaction
  hides yet, which are a superset of those the walk follows (`FewerEdges`), so
  when the discovery ends by itself the walk can reach only what was popped.
- `ShortestDepth` and `CompleteWalk`: in `WalkInv` (`Walking`, `Levels`), the
  queue holds at most two levels of the lineage, in order; everything within the
  depth of the manifest being followed is reached; nothing queued for the next
  level is within the present one.  When the queue is empty, what was charged is
  closed under links, and therefore the lineage.  That the lineage is complete
  after as many steps as the store has manifests is `LineageIsAll`, by counting.
- `DeltasMatchVerdicts`: in `DeltaInv`, each charged manifest has its full verdict
  and no other has any (`Verdicts`), every link met is a link of a charged
  manifest and was met once (`MetOnce`), and every link of a charged manifest was
  met or is still to be followed (`MetAll`, `Ahead`).

`VerifyCacheProofs`.  `Inv`: the order vector lists the map's keys by the time of
their last use, within the capacity (`Listed`); each entry is the one put last
under its key and was computed for it (`Current`); what `verify_cached` is about
to store was computed for what it was asked (`Pending`).  `VectorListsTheMap`,
`HitsAreCurrent` and the action property `EvictsTheLeastRecentlyUsed` follow.

`ManifestPipelineProofs`.  The stages follow one another and results only grow, so
`Inv` says of each stage what it has left behind once it is passed, and
`CutShort` tells the calls whose pass returned early: `ValidMeansBound`,
`TrustIsEarned`, `IdentityNeedsSoundManifest`, `DeferredPassIsExplained`.  The
provers cannot decide that a literal is a member of `STRING`, so `Typed` does not
say that results are sets of strings.

`OnlineSessionProofs`, which includes the plan of `ExternalDiscovery`.

- `SessionStaysWithinBudget` and `SessionFollowsConsent`: what was sent and read
  is what the budget lacks (`BudgetOK`), only a handled URI was asked about or
  contacted (`ConsentOK`), and the plan always has the body that its next step
  reads (`PlanOK`).
- `SessionImplementsOutcomeMap` is the refinement: the initial states of the
  session are initial states of the write-once map, a fetch is a contact, the
  first pass freezes the map, an OCSP request is a query, and every other step
  leaves the map as it is.
- `DiscoveryAgreesWithPass`: discovery reads only what is settled, and what is
  settled does not change (`ReadOK`).
- `DiscoveryIsComplete`: for each URI that was read, what its body refers to is
  known, waits in the frontier or is about to be followed (`CompleteOK` and its
  parts), so a plan that ends without a reason to stop has nothing left.

`OnlineSessionProofs`, the update check.  `UpdateTypes`, `ChoicesAreKept` and
`ChecksAreADayApart` hold for any number of commands at once, without an
assumption on how they meet.  `UpdateInv` says where the last choices are, as far
as they are not `exposed`.  They are in the file (`FileKeeps`), unless it is
absent; then either there is nothing to lose (`Untouched`), or a process on
Windows has removed the file and is about to write its copy (`Removals`).  A
process that is not `stale` has, between its reading and its prompt, a copy that
says them as well, and at its last write a copy that says them or replaces them
(`Current`).  A write by such a process keeps them; a write by a stale one exposes
them, except those it saves itself, and makes every other process that holds a
copy stale.  Of a stale copy only `Plain` is known: the time it records is one of
the clock, and it does not offer the release it skips.  A recorded check is no
later than the file's `last_checked`, which is no later than the clock; the
initial file may have one that is ahead of the clock, and then nothing was
recorded.

`SoftBindingProofs`, over both sessions and both drivers; the driver's fairness
plays no part.  `Inv` says that every request ever issued was checked and is
covered by the consent (`Issued`), that what is asked after discovery is asked at
a checked API endpoint by a session whose query was accepted (`InFlow`), and that
nothing is recovered before the query is answered (`Negotiating`): `OnlyAllowed`
and `ConsentKept`.  `Ordered` and `Position` say that the manifests recovered, the
one pending and the matches left are together the answer, so the index kept in
`PendingKind::Receipt` is that of the last manifest recovered: `InOrder`.
`Receipts` and `AtEnd` add that the native driver has nothing pending only when
each match has its manifest, and its receipt if asked for: `NativeIsComplete`.
None of this gives `Complete` for a public caller, who may go on after an error and
finish with the answer half fetched: `finish` returns Ok then.

Induction over data.  The library's induction theorems take an operator as a
parameter, which the provers here cannot instantiate.  Where a recursive function
occurs (`Within`, the walk along a chain of parents, positions in a sequence) the
proofs use the least member of a set of numbers instead: `LeastNat`, from it
`Inductive` (a set that holds 0 and the successor of each of its members holds
every number), and `Recursion` (a function defined by its predecessor's value
satisfies its defining equation).  The six modules that need
`LeastNat` each prove it.

Only model-checked.  Liveness (`NativeReturns`, `Terminates`) and anything about
ENABLED are out of the prover's reach.  Types are theorems for `Ertmp`, `ErtmpWire`
(`WireTypes`), `SegmentChain`, `VerifyCache`, `OnlineSession`, `SoftBinding` and
`UpdateCheck` (`UpdateTypes`); the invariants of `IngredientGraph`, `LiveSession`
and `ManifestPipeline` carry the types their proofs need.

## 6. Not modelled

Cryptography, CBOR, JUMBF and the container formats are byte parsing without
state of their own: signatures, hashes and parses are outcomes in the modules.
They, the checks of data shape in CAWG credentials, structural rules and
certificate chains, and the tests inside the source files are most of the
repository's lines, and none of them is a state machine.  Report formatting,
argument parsing, bindings and observers decide no verdict.

Parts with some state that are left out: the walk of a fragment sequence
(`validate_fragment_sequence`) and of the checkpoints of one append-only file
(`segment_hash.rs`), each a single pass over rows of one input; the timing
arithmetic of `live_video.rs`, whose result is a field of a segment; the
telemetry queue and the replacing of the consent file, the second of which is
done as in `UpdateCheck`; and the online rounds for versions before 2.5, which
run one pass, fetch its needs and run it again.  The HTTP client below a fetch
(redirects, reading of bodies) appears as the requests and bytes it spends.

## 7. Plan

Every safety property and action property of the passing runs has its theorem.
What would say more, most important first:

1. the fragment sequence with the choice between the stream methods, composed
   with `SegmentChain`;
2. `ErtmpWire` composed with `Ertmp`: the events delivered are those `Ertmp`
   receives, so that a frame a conforming publisher wrote is a frame of the
   verdict.
