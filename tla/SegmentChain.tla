---------------------------- MODULE SegmentChain ----------------------------
(***************************************************************************)
(* verify_per_segment: crates/encypher-c2pa/src/c2pa-validate/stream.rs,   *)
(* with validate_live_video_assertion of live_video.rs.                    *)
(*                                                                         *)
(* A stream is an init segment and the segments presented after it, each   *)
(* with a manifest of its own.  The verifier goes over them once, carrying *)
(* the predecessor's identity, its declared continuity state, the sequence *)
(* number expected next and the stream's id; a player may signal that a    *)
(* position is a seek.  Defects are collected, never fatal: chain_valid    *)
(* says there was none.                                                    *)
(*                                                                         *)
(* A segment is what segment_facts reads of it.  Signatures and hashes are *)
(* abstracted: standalone says that the segment verifies on its own, hash  *)
(* names the content of its active manifest.                               *)
(***************************************************************************)
EXTENDS Integers, Sequences

CONSTANTS
    Segments,     \* the segments that may be presented
    Labels, Hashes, StreamIds,
    MaxU64,       \* u64::MAX
    MaxSegments,  \* bound: segments presented, the init segment included
    NoManifest,   \* a segment without a manifest
    Bad,          \* a chain link that cannot be trusted: several, or not claim-bound
    None          \* Option::None

\* DeclaredSegment: an i128 sequence number, which may be negative or exceed u64.
\* presented: encapsulation and method are the ones verified; continuity: the continuity
\* method is the manifest-id one.
Declarations ==
    [seq: (-1..(MaxU64 + 1)) \cup {None}, stream: StreamIds \cup {None},
     prevId: Labels \cup {None}, presented: BOOLEAN, continuity: BOOLEAN]

\* SegmentFacts, and the state of the segment's own verification.
Facts ==
    [label: Labels, hash: Hashes, standalone: BOOLEAN, declared: Declarations \cup {None},
     link: Hashes \cup {None, Bad}]

\* LiveVideoManifestState, and the identity of a predecessor.
LiveStates == [seq: 0..MaxU64, stream: StreamIds, label: Labels]
Identities == [label: Labels, hash: Hashes]

ASSUME BoundsAssumption == MaxU64 \in Nat /\ MaxSegments \in Nat
ASSUME SegmentsAssumption == Segments \subseteq Facts \cup {NoManifest}
ASSUME MarkersAssumption ==
    /\ NoManifest \notin Facts
    /\ None \notin Int \cup StreamIds \cup Labels \cup Hashes \cup Declarations
    /\ None \notin LiveStates \cup Identities
    /\ Bad \notin Hashes \cup {None}

VARIABLES
    presented,     \* the segments so far
    seeks,         \* the positions the player signalled
    previous,      \* predecessor's [label, hash], or None
    previousLive,  \* predecessor's declared [seq, stream, label], or None
    nextSequence,  \* expected sequence number, or None
    streamId,      \* the stream's id, or None
    failed,        \* the positions chain_failures names
    outcome        \* "running", "done", "error"

vars == <<presented, seeks, previous, previousLive, nextSequence, streamId, failed, outcome>>

Init ==
    /\ presented = <<>> /\ seeks = {}
    /\ previous = None /\ previousLive = None
    /\ nextSequence = 0
    /\ streamId = None
    /\ failed = {}
    /\ outcome = "running"

-----------------------------------------------------------------------------
(* check_declaration.                                                      *)

\* The sequence number is the one expected, or any number at a seek.
SequenceFollows(d, seek) ==
    /\ d.seq # None
    /\ IF seek THEN d.seq >= 0 ELSE nextSequence # None /\ d.seq = nextSequence

\* The first stream id declared is the stream's.
StreamAgrees(d) == d.stream # None /\ (streamId # None => d.stream = streamId)

NextStreamId(d) == IF d = None \/ streamId # None THEN streamId ELSE d.stream

NextSequence(d) == IF d = None \/ d.seq = None \/ d.seq < 0 THEN None ELSE d.seq + 1

DeclarationFails(d, seek) ==
    d = None \/ ~(SequenceFollows(d, seek) /\ StreamAgrees(d) /\ d.presented)

-----------------------------------------------------------------------------
(* validate_live_video_assertion, which reads the record again.            *)

\* previous.sequence_number.saturating_add(1)
SaturatingNext(n) == IF n = MaxU64 THEN MaxU64 ELSE n + 1

\* The record on its own: a u64 sequence number, a stream, manifest-id continuity.
WellFormed(d) ==
    /\ d # None /\ d.seq # None /\ d.seq \in 0..MaxU64
    /\ d.stream # None /\ d.continuity /\ d.prevId # None

FollowsLive(d, live) ==
    d.seq = SaturatingNext(live.seq) /\ d.stream = live.stream /\ d.prevId = live.label

LiveAccepts(d, live) == WellFormed(d) /\ (live # None => FollowsLive(d, live))

\* declared_live_state: what the successor is compared against.
DeclaredLiveState(seg) ==
    IF seg.declared = None THEN None
    ELSE IF seg.declared.seq = None \/ seg.declared.stream = None THEN None
    ELSE IF seg.declared.seq \notin 0..MaxU64 THEN None
    ELSE [seq |-> seg.declared.seq, stream |-> seg.declared.stream, label |-> seg.label]

\* Mutant: no continuity state is kept once a segment has failed.
LiveStateIfAccepted(seg) ==
    IF failed # {} THEN None ELSE DeclaredLiveState(seg)

\* The state kept for the next segment.
NextLive(seg) == DeclaredLiveState(seg)

\* Continuity: decided where there is a continuity state or a seek; elsewhere only a
\* previousManifestId without any predecessor is refused.
ContinuityFails(seg, seek) ==
    IF previousLive # None \/ seek
    THEN ~LiveAccepts(seg.declared, IF seek THEN None ELSE previousLive)
    ELSE previous = None /\ seg.declared # None /\ seg.declared.prevId # None

\* Mutant: the ingredient hash is not compared.
LinkPresent(seg, seek) == seg.link = Bad \/ (previous = None <=> seg.link # None)

\* The parentOf ingredient: required exactly when there is a predecessor, and equal to its
\* manifest's hash unless the player seeked.
LinkFails(seg, seek) ==
    \/ seg.link = Bad
    \/ previous = None /\ seg.link # None
    \/ previous # None /\ (seg.link = None \/ (~seek /\ seg.link # previous.hash))

-----------------------------------------------------------------------------
\* One iteration over a segment with a manifest.
PresentFacts(seg, seek) ==
    LET bad == \/ ~seg.standalone
               \/ DeclarationFails(seg.declared, seek)
               \/ ContinuityFails(seg, seek)
               \/ LinkFails(seg, seek)
    IN  /\ failed' = IF bad THEN failed \cup {Len(presented) + 1} ELSE failed
        /\ nextSequence' = NextSequence(seg.declared)
        /\ streamId' = NextStreamId(seg.declared)
        /\ previousLive' = NextLive(seg)
        /\ previous' = [label |-> seg.label, hash |-> seg.hash]

\* One iteration over a segment without a manifest.
PresentBare ==
    /\ failed' = failed \cup {Len(presented) + 1}
    /\ nextSequence' = None
    /\ previousLive' = None
    /\ previous' = None
    /\ UNCHANGED streamId

\* The loop of verify_per_segment_with_expected_seeks.  Positions count from one; a seek is
\* never the init segment's.
Present(seg, seek) ==
    /\ outcome = "running"
    /\ Len(presented) < MaxSegments
    /\ seek => presented # <<>>
    /\ presented' = Append(presented, seg)
    /\ seeks' = IF seek THEN seeks \cup {Len(presented) + 1} ELSE seeks
    /\ \/ seg = NoManifest /\ PresentBare
       \/ seg # NoManifest /\ PresentFacts(seg, seek)
    /\ UNCHANGED outcome

\* The end of the stream: the result is returned.
Return ==
    /\ outcome = "running" /\ presented # <<>>
    /\ outcome' = "done"
    /\ UNCHANGED <<presented, seeks, previous, previousLive, nextSequence, streamId, failed>>

\* A segment that cannot be parsed ends the whole call with an error.
Abort ==
    /\ outcome = "running"
    /\ outcome' = "error"
    /\ UNCHANGED <<presented, seeks, previous, previousLive, nextSequence, streamId, failed>>

Next ==
    \/ \E seg \in Segments, seek \in BOOLEAN : Present(seg, seek)
    \/ Return
    \/ Abort

Spec == Init /\ [][Next]_vars

-----------------------------------------------------------------------------
(* Properties.                                                             *)

\* The loop's locals have the types of the code.
TypeOK ==
    /\ presented \in Seq(Segments)
    /\ seeks \subseteq 2..Len(presented)
    /\ failed \subseteq 1..Len(presented)
    /\ previous \in Identities \cup {None}
    /\ previousLive \in LiveStates \cup {None}
    /\ nextSequence \in 0..(MaxU64 + 2) \cup {None}
    /\ streamId \in StreamIds \cup {None}
    /\ outcome \in {"running", "done", "error"}

\* What the signer declared about two consecutive segments agrees: numbers, manifest id
\* and the hash of the predecessor's manifest.
Linked(seg, prior) ==
    /\ seg.declared.seq = prior.declared.seq + 1
    /\ seg.declared.prevId = prior.label
    /\ seg.link = prior.hash

\* chain_valid means it is the stream that was signed, in this order: every segment
\* verifies alone, the first is number 0 and names no predecessor, all are of one stream
\* and every boundary the player did not signal is linked.
ValidChainIsLinked ==
    failed = {} =>
        \A i \in 1..Len(presented) :
            /\ presented[i] # NoManifest /\ presented[i].standalone
            /\ presented[i].declared # None
            /\ presented[i].declared.seq \in 0..MaxU64
            /\ presented[i].declared.stream = presented[1].declared.stream
            /\ i = 1 => presented[i].declared.seq = 0 /\ presented[i].link = None
            /\ i > 1 /\ i \notin seeks => Linked(presented[i], presented[i - 1])

\* One broken link does not silence the check on later segments: where two consecutive
\* segments declare usable continuity and do not fit, the later one is named.
BreaksReportedWhereTheyAre ==
    \A i \in 2..Len(presented) :
        LET seg == presented[i]
            prior == presented[i - 1]
        IN  /\ seg # NoManifest /\ prior # NoManifest
            /\ WellFormed(seg.declared)
            /\ prior.declared # None /\ prior.declared.stream # None
            /\ prior.declared.seq # None /\ prior.declared.seq \in 0..MaxU64
            /\ i \notin seeks
            /\ ~Linked(seg, prior) \/ seg.declared.stream # prior.declared.stream
            => i \in failed
=============================================================================
