-------------------------------- MODULE Ertmp --------------------------------
(***************************************************************************)
(* The Enhanced-RTMP verifier: crates/encypher-c2pa/src/ertmp.rs.          *)
(*                                                                         *)
(* One behaviour is one call of verify_ertmp_with_options.  The events are *)
(* chosen by the environment, one per step, and each action is the whole   *)
(* of the arm of Verifier::event that handles it.                          *)
(*                                                                         *)
(* Abstractions.  A codec payload is a short sequence of bytes, because    *)
(* initialization_data concatenates payloads without a delimiter; a coded  *)
(* frame's bytes are one value.  A digest is the data it is taken over.  A *)
(* manifest store is a record of what the verifier learns from it.  The    *)
(* report list is kept per track: closure order between two tracks decides *)
(* nothing.  Messages are named by kind.                                   *)
(*                                                                         *)
(* History: frame ids and connection epochs (id, epoch), and what an       *)
(* accepted SegmentInfo was authenticated against (frames, store, matched, *)
(* epoch).  No guard reads them.                                           *)
(***************************************************************************)
EXTENDS Options, Integers, Sequences, FiniteSets

CONSTANTS
    NumTracks,        \* tracks in use; 1..NumTracks in BTreeMap order
    ChunkStreams,     \* RTMP chunk stream ids
    Timestamps,       \* RTMP message timestamps
    CodedData,        \* coded frame payloads
    Payloads,         \* codec configuration payloads: sequences of bytes
    Stores,           \* c2paManifest values: records [label, keys, admissible, binds, intact]
    ManifestIds,      \* active-manifest labels
    KeyIds,           \* session key ids
    Signers,          \* COSE keys a SegmentInfo can be signed with
    MaxSequence,      \* u64::MAX: the last sequence number
    MaxTracks,        \* MAX_TRACKS
    MaxFrames,        \* MAX_FRAMES_PER_SEGMENT
    MaxSegmentInfos,  \* MAX_SEGMENT_INFOS
    MaxEvents,        \* MAX_EVENTS
    MaxFailureKinds   \* exploration bound: no event after more kinds of failure than this

Tracks == 1..NumTracks
SequenceNumbers == 0..MaxSequence

\* A ValidatedSessionKey.  live: the validation time of the call, fixed for its
\* whole duration, is in the key's window.
KeyType == [id: KeyIds, signer: Signers, floor: SequenceNumbers, live: BOOLEAN]

\* What the verifier learns from a store.  admissible: manifest_delivery returns
\* Ok; binds: the bytes its hard binding matches; intact: all else validates.

ASSUME BoundsAssumption ==
    /\ NumTracks \in Nat /\ MaxSequence \in Nat /\ MaxTracks \in Nat
    /\ MaxFrames \in Nat /\ MaxSegmentInfos \in Nat /\ MaxEvents \in Nat
    /\ MaxFailureKinds \in Nat
ASSUME NoneAssumption ==
    /\ None \notin Nat /\ None \notin Tracks
ASSUME StoresAssumption ==
    \A s \in Stores : /\ s.label \in ManifestIds
                      /\ s.keys \subseteq KeyType
                      /\ s.admissible \in BOOLEAN /\ s.intact \in BOOLEAN

VARIABLES
    phase,      \* "start", "run", "error" (Err returned) or "done" (report returned)
    events,     \* events consumed
    configs,    \* [Tracks -> [csid, payload, revision] or None]
    frames,     \* [Tracks -> frames of the open segment]
    pending,    \* [Tracks -> [candidates, accepted] or None]
    lastSequence,   \* [Tracks -> last accepted sequence number or None]
    manifests,  \* [ManifestIds -> [store, revision, bound] or None]
    keyTracks,  \* [KeyIds -> owning track or None]
    nextRevision,   \* next_config_revision
    active,     \* [manifest, revision, delivered] or None
    reports,    \* [Tracks -> closed segments]
    failures,   \* kinds of stream-wide failure
    epoch,      \* history: reconnections so far
    received    \* history: coded-frame events so far

vars == <<phase, events, configs, frames, pending, lastSequence, manifests,
          keyTracks, nextRevision, active, reports, failures, epoch, received>>

-----------------------------------------------------------------------------
Init ==
    /\ phase = "start"
    /\ events = 0
    /\ configs = [t \in Tracks |-> None]
    /\ frames = [t \in Tracks |-> <<>>]
    /\ pending = [t \in Tracks |-> None]
    /\ lastSequence = [t \in Tracks |-> None]
    /\ manifests = [m \in ManifestIds |-> None]
    /\ keyTracks = [k \in KeyIds |-> None]
    /\ nextRevision = 1
    /\ active = None
    /\ reports = [t \in Tracks |-> <<>>]
    /\ failures = {}
    /\ epoch = 0
    /\ received = 0

\* verify_ertmp_with_options up to its event loop.  negotiated: objectEncoding is
\* 3 and both peers sent capsEx bit 0x10.
Begin(isV25, negotiated) ==
    /\ phase = "start"
    /\ phase' = IF isV25 THEN "run" ELSE "error"
    /\ failures' = IF isV25 /\ ~negotiated THEN {"capability"} ELSE {}
    /\ UNCHANGED <<events, configs, frames, pending, lastSequence, manifests,
                   keyTracks, nextRevision, active, reports, epoch, received>>

\* One event is taken from the input.
TakeEvent ==
    /\ phase = "run"
    /\ events < MaxEvents
    /\ Cardinality(failures) <= MaxFailureKinds
    /\ events' = events + 1

\* The revision of the newest codec configuration, whichever track it is for.
CurrentRevision == nextRevision - 1

-----------------------------------------------------------------------------
(* finalize_pending(track): a pending segment becomes a report.            *)

FinalizedFrames(t) == IF pending[t] = None THEN frames[t] ELSE <<>>

\* Mutant: an invalid segment forgets the track's sequence.
ForgottenSequence(t) ==
    IF pending[t] = None THEN lastSequence[t]
    ELSE IF pending[t].accepted = None THEN None ELSE pending[t].accepted.sequence

FinalizedSequence(t) ==
    IF pending[t] # None /\ pending[t].accepted # None
    THEN pending[t].accepted.sequence
    ELSE lastSequence[t]

FinalizedReports(t) ==
    IF pending[t] = None
    THEN reports[t]
    ELSE Append(reports[t], [accepted |-> pending[t].accepted,
                             frames   |-> frames[t]])

IsValid(report) == report.accepted # None

-----------------------------------------------------------------------------
NewConfig(csid, payload) == [csid |-> csid, payload |-> payload, revision |-> nextRevision]

\* A configuration for one more track than MAX_TRACKS.
ExceedsTracks(t) ==
    /\ configs[t] = None
    /\ Cardinality({u \in Tracks : configs[u] # None}) >= MaxTracks

\* ErtmpEvent::CodecConfig.  An open or pending segment of the track is left as it is.
CodecConfig(t, csid, payload) ==
    /\ TakeEvent
    /\ \/ /\ ExceedsTracks(t)
          /\ phase' = "error"
          /\ UNCHANGED <<configs, nextRevision>>
       \/ /\ ~ExceedsTracks(t)
          /\ configs' = [configs EXCEPT ![t] = NewConfig(csid, payload)]
          /\ nextRevision' = nextRevision + 1
          /\ UNCHANGED phase
    /\ UNCHANGED <<frames, pending, lastSequence, manifests, keyTracks, active,
                   reports, failures, epoch, received>>

\* The active manifest was delivered for the current configuration, on this connection.
ManifestIsCurrent ==
    /\ active # None
    /\ active.revision = CurrentRevision
    /\ active.delivered

\* Mutant: a frame refused for its offset is dropped silently.
SilentFrameFailures(t, csid, offsetInRange) ==
    IF offsetInRange /\ configs[t] = None THEN {"frameBeforeConfig"} ELSE {}

\* The failures a coded frame raises; offsetInRange is the signed 24-bit check.
FrameFailures(t, csid, offsetInRange) ==
    IF ~offsetInRange THEN {"offset"}
    ELSE (IF ManifestIsCurrent THEN {} ELSE {"frameBeforeManifest"})
         \cup (IF configs[t] = None THEN {"frameBeforeConfig"}
               ELSE IF configs[t].csid # csid THEN {"frameChunkStream"} ELSE {})

NewFrame(t, csid, timestamp, data) ==
    [csid |-> csid, timestamp |-> timestamp, data |-> data,
     revision |-> configs[t].revision, id |-> received, epoch |-> epoch]

\* Mutant: the frame joins a segment that a SegmentInfo already closed.
FrameIntoPending(t, csid, timestamp, data, offsetInRange) ==
    /\ TakeEvent
    /\ offsetInRange /\ configs[t] # None
    /\ frames' = [frames EXCEPT ![t] = Append(@, NewFrame(t, csid, timestamp, data))]
    /\ received' = received + 1
    /\ UNCHANGED <<phase, configs, pending, lastSequence, manifests, keyTracks,
                   nextRevision, active, reports, failures, epoch>>

\* ErtmpEvent::Frame: a pending segment is closed first, whatever becomes of the frame.
Frame(t, csid, timestamp, data, offsetInRange) ==
    LET open   == FinalizedFrames(t)
        stored == offsetInRange /\ configs[t] # None
        full   == stored /\ Len(open) >= MaxFrames
    IN  /\ TakeEvent
        /\ pending' = [pending EXCEPT ![t] = None]
        /\ lastSequence' = [lastSequence EXCEPT ![t] = FinalizedSequence(t)]
        /\ reports' = [reports EXCEPT ![t] = FinalizedReports(t)]
        /\ failures' = failures \cup FrameFailures(t, csid, offsetInRange)
        /\ phase' = IF full THEN "error" ELSE phase
        /\ frames' = [frames EXCEPT ![t] =
                        IF stored /\ ~full
                        THEN Append(open, NewFrame(t, csid, timestamp, data))
                        ELSE open]
        /\ received' = received + 1
        /\ UNCHANGED <<configs, manifests, keyTracks, nextRevision, active, epoch>>

\* Mutant: a redelivered label keeps the binding of the store it replaces.
KeepsBinding(store) ==
    [store |-> store, revision |-> CurrentRevision,
     bound |-> IF manifests[store.label] = None THEN None ELSE manifests[store.label].bound]

NewDelivery(store) == [store |-> store, revision |-> CurrentRevision, bound |-> None]

\* Metadata c2paManifest.  A store manifest_delivery refuses ends the call with Err.
\* A later delivery under the same label replaces the earlier one and its binding.
ManifestMetadata(t, csid, store) ==
    /\ TakeEvent
    /\ \/ /\ store.admissible
          /\ manifests' = [manifests EXCEPT ![store.label] = NewDelivery(store)]
          /\ active' = [manifest |-> store.label, revision |-> CurrentRevision,
                        delivered |-> TRUE, epoch |-> epoch]
          /\ failures' = IF configs[t] # None /\ configs[t].csid # csid
                         THEN failures \cup {"manifestChunkStream"} ELSE failures
          /\ UNCHANGED phase
       \/ /\ ~store.admissible
          /\ phase' = "error"
          /\ UNCHANGED <<manifests, active, failures>>
    /\ UNCHANGED <<configs, frames, pending, lastSequence, keyTracks, nextRevision,
                   reports, epoch, received>>

-----------------------------------------------------------------------------
(* authenticate_candidate.  A SegmentInfo is None when untrusted_segment_info *)
(* refuses it, else a record of its signed fields, its kid and its signer.    *)

\* segment_digest: what the digest covers, frame after frame.
SegmentDigest(fs) == [i \in DOMAIN fs |-> <<fs[i].timestamp, fs[i].data>>]

\* initialization_data: the payloads in track order, with nothing between them.
InitializationData ==
    LET Payload(t) == IF configs[t] = None THEN <<>> ELSE configs[t].payload
        upto[n \in 0..NumTracks] == IF n = 0 THEN <<>> ELSE upto[n - 1] \o Payload(n)
    IN  upto[NumTracks]

\* Mutant: a configuration may change in the middle of a segment.
ClosesMixedFrames(t, csid, timestamp, info) ==
    LET fs == frames[t]
    IN  /\ info.track = t
        /\ fs # <<>>
        /\ \A i \in DOMAIN fs : fs[i].csid = csid
        /\ fs[Len(fs)].timestamp = timestamp
        /\ configs[t] # None
        /\ info.digest = SegmentDigest(fs)

\* The SegmentInfo closes exactly the frames retained for the track.
ClosesFrames(t, csid, timestamp, info) ==
    LET fs == frames[t]
    IN  /\ info.track = t
        /\ fs # <<>>
        /\ \A i \in DOMAIN fs : fs[i].csid = csid
        /\ fs[Len(fs)].timestamp = timestamp
        /\ configs[t] # None
        /\ \A i \in DOMAIN fs : fs[i].revision = configs[t].revision
        /\ info.digest = SegmentDigest(fs)

\* Mutant: any later sequence number will do.
ExceedsLastSequence(t, info) ==
    lastSequence[t] # None => info.sequence > lastSequence[t]

\* checked_add: after MaxSequence no sequence number is acceptable.
FollowsLastSequence(t, info) ==
    lastSequence[t] # None => info.sequence = lastSequence[t] + 1

NamesCurrentManifest(info) ==
    /\ ManifestIsCurrent
    /\ info.manifest = active.manifest
    /\ manifests[info.manifest] # None
    /\ manifests[info.manifest].revision = CurrentRevision

\* verify_with_manifest_store returns integrity "valid" and hard binding "match".
StoreMatches(store) == store.intact /\ store.binds = InitializationData

\* The manifest is already bound to these initialization bytes, or validates against them now.
BindsInitialization(delivery) ==
    IF delivery.bound # None THEN delivery.bound = InitializationData
                             ELSE StoreMatches(delivery.store)

\* Mutant: key ownership is not consulted.
AuthenticatesAnyTrack(key, t, info) ==
    info.signer = key.signer /\ info.kid = key.id /\ info.sequence >= key.floor /\ key.live

\* The delivery with its binding, and so its report, recorded.
BoundDelivery(delivery) ==
    [store |-> delivery.store, revision |-> delivery.revision, bound |-> InitializationData]

\* The key that authenticates the SegmentInfo: kid and signature agree, the
\* sequence number is at or above its floor, it is live, and no other track has it.
Authenticates(key, t, info) ==
    /\ info.signer = key.signer
    /\ info.kid = key.id
    /\ info.sequence >= key.floor
    /\ key.live
    /\ keyTracks[key.id] \in {None, t}

\* Everything authenticate_candidate checks before it looks at the session keys.
ReachesKeys(t, csid, timestamp, info) ==
    /\ info # None
    /\ ClosesFrames(t, csid, timestamp, info)
    /\ FollowsLastSequence(t, info)
    /\ NamesCurrentManifest(info)
    /\ BindsInitialization(manifests[info.manifest])

IsAuthentic(t, csid, timestamp, info) ==
    /\ ReachesKeys(t, csid, timestamp, info)
    /\ \E key \in manifests[info.manifest].store.keys : Authenticates(key, t, info)

NewAccepted(info) ==
    [sequence |-> info.sequence, manifest |-> info.manifest, key |-> info.kid,
     frames |-> frames[info.track], store |-> manifests[info.manifest].store,
     matched |-> StoreMatches(manifests[info.manifest].store), epoch |-> active.epoch]

\* Metadata c2paSegmentInfo.  The first authentic candidate of a segment is kept;
\* a manifest stays bound, and a key owned, even if the candidate is then dropped.
SegmentInfo(t, csid, timestamp, info) ==
    LET authentic  == IsAuthentic(t, csid, timestamp, info)
        before     == IF pending[t] = None THEN [candidates |-> 0, accepted |-> None]
                                           ELSE pending[t]
    IN  /\ TakeEvent
        /\ \/ /\ frames[t] = <<>> /\ pending[t] = None
              /\ failures' = failures \cup {"closesNoFrames"}
              /\ UNCHANGED <<phase, pending, manifests, keyTracks>>
           \/ /\ frames[t] # <<>> \/ pending[t] # None
              /\ before.candidates >= MaxSegmentInfos
              /\ phase' = "error"
              /\ UNCHANGED <<pending, manifests, keyTracks, failures>>
           \/ /\ frames[t] # <<>> \/ pending[t] # None
              /\ before.candidates < MaxSegmentInfos
              /\ pending' = [pending EXCEPT ![t] =
                    [candidates |-> before.candidates + 1,
                     accepted   |-> IF before.accepted = None /\ authentic
                                    THEN NewAccepted(info) ELSE before.accepted]]
              /\ manifests' = IF ReachesKeys(t, csid, timestamp, info)
                              THEN [manifests EXCEPT ![info.manifest] = BoundDelivery(@)]
                              ELSE manifests
              /\ keyTracks' = IF authentic THEN [keyTracks EXCEPT ![info.kid] = t]
                                           ELSE keyTracks
              /\ UNCHANGED <<phase, failures>>
        /\ UNCHANGED <<configs, frames, lastSequence, nextRevision, active, reports,
                       epoch, received>>

\* Any other Metadata name is ignored; it need not count against the bound.
OtherMetadata ==
    /\ phase = "run"
    /\ UNCHANGED vars

\* Tracks whose frames no SegmentInfo has closed.
UnclosedTracks == {t \in Tracks : FinalizedFrames(t) # <<>>}

\* reconnect: sequence, key and manifest state survive; configurations do not.
Reconnect ==
    /\ TakeEvent
    /\ pending' = [t \in Tracks |-> None]
    /\ lastSequence' = [t \in Tracks |-> FinalizedSequence(t)]
    /\ reports' = [t \in Tracks |-> FinalizedReports(t)]
    /\ frames' = [t \in Tracks |-> <<>>]
    /\ failures' = IF UnclosedTracks # {} THEN failures \cup {"unclosedAtReconnect"}
                                          ELSE failures
    /\ configs' = [t \in Tracks |-> None]
    /\ active' = IF active = None THEN None ELSE [active EXCEPT !.delivered = FALSE]
    /\ epoch' = epoch + 1
    /\ UNCHANGED <<phase, manifests, keyTracks, nextRevision, received>>

\* finish: close what is pending and return the report.
Finish ==
    /\ phase = "run"
    /\ phase' = "done"
    /\ pending' = [t \in Tracks |-> None]
    /\ lastSequence' = [t \in Tracks |-> FinalizedSequence(t)]
    /\ reports' = [t \in Tracks |-> FinalizedReports(t)]
    /\ frames' = [t \in Tracks |-> FinalizedFrames(t)]
    /\ failures' = failures
         \cup (IF UnclosedTracks # {} THEN {"unclosedAtEnd"} ELSE {})
         \cup (IF \A t \in Tracks : FinalizedReports(t) = <<>> THEN {"noSegment"} ELSE {})
    /\ UNCHANGED <<events, configs, manifests, keyTracks, nextRevision, active, epoch, received>>

\* SegmentInfo values the environment may send on a track: the digest is that of the
\* track's retained frames or of something else (<<>>).
SegmentInfos(t) ==
    {None} \cup [track: Tracks, sequence: SequenceNumbers, manifest: ManifestIds,
                 kid: KeyIds, signer: Signers, digest: {SegmentDigest(frames[t]), <<>>}]

Next ==
    \/ \E isV25, negotiated \in BOOLEAN : Begin(isV25, negotiated)
    \/ \E t \in Tracks, csid \in ChunkStreams, payload \in Payloads : CodecConfig(t, csid, payload)
    \/ \E t \in Tracks, csid \in ChunkStreams, timestamp \in Timestamps, data \in CodedData,
          inRange \in BOOLEAN : Frame(t, csid, timestamp, data, inRange)
    \/ \E t \in Tracks, csid \in ChunkStreams, store \in Stores : ManifestMetadata(t, csid, store)
    \/ \E t \in Tracks, csid \in ChunkStreams, timestamp \in Timestamps :
          \E info \in SegmentInfos(t) : SegmentInfo(t, csid, timestamp, info)
    \/ OtherMetadata
    \/ Reconnect
    \/ Finish

Spec == Init /\ [][Next]_vars

-----------------------------------------------------------------------------
(* The verdict finish computes.                                            *)

\* integrity == "valid".  A manifest's report is stored only once it validated, so
\* the test that every reported manifest is valid adds nothing to these two.
IntegrityValid ==
    /\ phase = "done"
    /\ failures = {}
    /\ \A t \in Tracks : \A i \in DOMAIN reports[t] : IsValid(reports[t][i])

-----------------------------------------------------------------------------
(* Properties.                                                             *)

FrameType == [csid: ChunkStreams, timestamp: Timestamps, data: CodedData,
              revision: Nat, id: Nat, epoch: Nat]
AcceptedType == [sequence: SequenceNumbers, manifest: ManifestIds, key: KeyIds,
                 frames: Seq(FrameType), store: Stores, matched: BOOLEAN, epoch: Nat]
ReportType == [accepted: AcceptedType \cup {None}, frames: Seq(FrameType)]

ConfigType == [csid: ChunkStreams, payload: Payloads, revision: Nat]
PendingType == [candidates: Nat, accepted: AcceptedType \cup {None}]
ActiveType == [manifest: ManifestIds, revision: Nat, delivered: BOOLEAN, epoch: Nat]
FailureKinds == {"capability", "offset", "frameBeforeManifest", "frameBeforeConfig",
                 "frameChunkStream", "manifestChunkStream", "closesNoFrames",
                 "unclosedAtReconnect", "unclosedAtEnd", "noSegment"}

\* Every field of the Verifier holds a value of its declared type.
TypeOK ==
    /\ phase \in {"start", "run", "error", "done"}
    /\ events \in Nat /\ nextRevision \in Nat \ {0} /\ epoch \in Nat /\ received \in Nat
    /\ configs \in [Tracks -> ConfigType \cup {None}]
    /\ frames \in [Tracks -> Seq(FrameType)]
    /\ pending \in [Tracks -> PendingType \cup {None}]
    /\ lastSequence \in [Tracks -> SequenceNumbers \cup {None}]
    /\ DOMAIN manifests = ManifestIds
    /\ \A m \in ManifestIds : manifests[m] # None => manifests[m].store \in Stores
    /\ keyTracks \in [KeyIds -> Tracks \cup {None}]
    /\ active \in ActiveType \cup {None}
    /\ reports \in [Tracks -> Seq(ReportType)]
    /\ failures \subseteq FailureKinds

\* The numbers of the valid segments of a track, in closure order, go up by one: no
\* invalid segment, manifest rotation or reconnection in between resets, repeats or
\* skips one (authenticate_candidate's expected_sequence, finalize_pending).
ConsecutiveSequences ==
    \A t \in Tracks : \A i, j \in DOMAIN reports[t] :
        /\ i < j /\ IsValid(reports[t][i]) /\ IsValid(reports[t][j])
        /\ \A k \in (i + 1)..(j - 1) : ~IsValid(reports[t][k])
        => reports[t][j].accepted.sequence = reports[t][i].accepted.sequence + 1

\* A session key authenticates segments of one track only, over every manifest that
\* delivers it and over reconnections (key_tracks).
OneTrackPerKey ==
    \A t, u \in Tracks : \A i \in DOMAIN reports[t], j \in DOMAIN reports[u] :
        /\ IsValid(reports[t][i]) /\ IsValid(reports[u][j])
        /\ reports[t][i].accepted.key = reports[u][j].accepted.key
        => t = u

\* The frames a valid report closes are the frames its SegmentInfo was checked
\* against, although other events arrive between the check and the closure.
ClosesAuthenticatedFrames ==
    \A t \in Tracks : \A i \in DOMAIN reports[t] :
        IsValid(reports[t][i]) =>
            /\ reports[t][i].frames # <<>>
            /\ reports[t][i].frames = reports[t][i].accepted.frames

\* "no logical segment may span this boundary" (ErtmpEvent::Reconnect): all frames of a
\* valid segment came over one connection, on one chunk stream, under one codec
\* configuration, and its manifest was delivered on that same connection.
SegmentStaysOnConnection ==
    \A t \in Tracks : \A i \in DOMAIN reports[t] :
        IsValid(reports[t][i]) =>
            LET fs == reports[t][i].frames
            IN  \A m, n \in DOMAIN fs : /\ fs[m].epoch = reports[t][i].accepted.epoch
                                        /\ fs[m].csid = fs[n].csid
                                        /\ fs[m].revision = fs[n].revision

\* A valid segment names a manifest store that validated against the initialization
\* data in force when its SegmentInfo arrived, although bound_initialization_sha256
\* lets later SegmentInfos skip that validation, and the key it was accepted with is a
\* live key of that same store, at or above its floor.
AcceptedUnderBoundManifest ==
    \A t \in Tracks : \A i \in DOMAIN reports[t] :
        IsValid(reports[t][i]) =>
            LET a == reports[t][i].accepted
            IN  /\ a.matched
                /\ a.store.label = a.manifest
                /\ \E key \in a.store.keys :
                       key.id = a.key /\ key.live /\ a.sequence >= key.floor

\* integrity "valid" means that every coded frame of the input is in exactly one valid
\* segment: none was dropped, left open or closed twice.
ValidCoversEveryFrame ==
    IntegrityValid =>
        \A id \in 0..(received - 1) :
            \E t \in Tracks : \E i \in DOMAIN reports[t] : \E n \in DOMAIN reports[t][i].frames :
                /\ reports[t][i].frames[n].id = id
                /\ \A u \in Tracks : \A j \in DOMAIN reports[u] :
                     \A m \in DOMAIN reports[u][j].frames :
                        reports[u][j].frames[m].id = id => <<u, j, m>> = <<t, i, n>>

\* "C2PA manifest, key and sequence state survives" (ErtmpEvent::Reconnect): no step
\* takes a key from its track or moves a track's sequence but forward by one.
SequenceAndKeysSurvive ==
    [][/\ \A k \in KeyIds : keyTracks[k] # None => keyTracks'[k] = keyTracks[k]
       /\ \A t \in Tracks : lastSequence[t] # None =>
              lastSequence'[t] \in {lastSequence[t], lastSequence[t] + 1}]_vars
=============================================================================
