----------------------------- MODULE LiveSession -----------------------------
(***************************************************************************)
(* The session-key lane of a live stream: verify_delivered_live_session of *)
(* crates/encypher-c2pa/src/c2pa-validate/stream.rs with                   *)
(* validate_session_keys_with, validate_emsg_segments, SessionEventIds and *)
(* authenticate_segment_info of live_video.rs.                             *)
(*                                                                         *)
(* The init manifest delivers session keys; each media segment presented   *)
(* after it carries C2PA events whose signatures cover the segment's media *)
(* but not the events themselves.  The ledger of event ids and the next    *)
(* expected sequence number are carried from segment to segment, also over *)
(* segments that fail.                                                     *)
(*                                                                         *)
(* A segment is its media and its C2PA events in file order; two segments  *)
(* are byte-identical when they are equal.  An event's signed information  *)
(* names the media whose structural hash it holds.                         *)
(*                                                                         *)
(* segment:  [media, events, spanOk]   spanOk: its presentation span reads *)
(* event:    [id, timed, info]         timed: check_event_timing passes    *)
(* info:     [seq, key, media, manifest, iat] or None (no valid signature) *)
(* entry:    [id, valid, floor, window]  valid: validate_session_key is Ok *)
(***************************************************************************)
EXTENDS Integers, Sequences

CONSTANTS
    Segments,      \* the segments that may be presented
    Deliveries,    \* the session-key deliveries an init manifest may make
    Times,         \* assessment times
    MaxU64,        \* u64::MAX
    MaxKeys,       \* MAX_SESSION_KEYS
    MaxCandidates, \* MAX_EMSG_BOXES
    MaxSegments,   \* bound: segments presented
    None           \* Option::None

ASSUME BoundsAssumption ==
    MaxU64 \in Nat \ {0} /\ MaxKeys \in Nat /\ MaxCandidates \in Nat /\ MaxSegments \in Nat

\* Events come in a vector, and a signed number is a u64.
ASSUME SegmentsAssumption ==
    /\ None \notin Nat
    /\ \A seg \in Segments :
         /\ Len(seg.events) \in Nat /\ DOMAIN seg.events = 1..Len(seg.events)
         /\ \A n \in DOMAIN seg.events :
              seg.events[n].info # None => seg.events[n].info.seq \in 0..MaxU64

VARIABLES
    phase,         \* "init", "segments", "done"
    keys,          \* the validated session keys, in delivery order
    nextSequence,  \* next expected sequence number, or None
    seen,          \* the ledger: event id -> [origin, originIndex, lastIndex]
    presented,     \* the segments so far
    seeks,         \* indices the player signalled
    verified,      \* index -> the information that authenticated it, or None
    failed,        \* indices with a livevideo failure; 0 is the init segment
    times          \* index -> assessment time

vars == <<phase, keys, nextSequence, seen, presented, seeks, verified, failed, times>>

Init ==
    /\ phase = "init"
    /\ keys = <<>>
    /\ nextSequence = None
    /\ seen = <<>>
    /\ presented = <<>> /\ seeks = {} /\ verified = <<>> /\ failed = {} /\ times = <<>>

-----------------------------------------------------------------------------
(* Delivery of the session keys.                                           *)

\* The entries that become candidates: valid, and the first of their key id.
Validated(entries) ==
    SelectSeq([i \in DOMAIN entries |-> [index |-> i, key |-> entries[i]]],
              LAMBDA e : /\ e.key.valid
                         /\ \A j \in 1..(e.index - 1) :
                                ~(entries[j].valid /\ entries[j].id = e.key.id))

\* validate_session_keys_with.
SessionKeys(entries) ==
    LET kept == Validated(entries)
    IN  IF Len(entries) \in 1..MaxKeys THEN [i \in DOMAIN kept |-> kept[i].key] ELSE <<>>

\* first_sequence_number: the lowest floor of the keys, at least one.
FirstSequence(ks) ==
    LET floors == {ks[i].floor : i \in DOMAIN ks}
        lowest == IF floors = {} THEN 1 ELSE CHOOSE f \in floors : \A g \in floors : f <= g
    IN  IF lowest < 1 THEN 1 ELSE lowest

\* The init segment: manifest, mdat and key checks.  entries = None: the manifest carries
\* more than one delivery, so none is usable.
Deliver(entries, initOk) ==
    /\ phase = "init"
    /\ LET ks == IF entries = None THEN <<>> ELSE SessionKeys(entries)
       IN  /\ keys' = ks
           /\ nextSequence' = FirstSequence(ks)
           /\ failed' = IF initOk /\ entries # None /\ ks # <<>> /\ Len(ks) = Len(entries)
                        THEN {} ELSE {0}
    /\ phase' = "segments"
    /\ UNCHANGED <<seen, presented, seeks, verified, times>>

-----------------------------------------------------------------------------
(* SessionEventIds.                                                        *)

\* Mutant: once the segment is known to be a replay, its other ids are not compared.
AdmitsAnyReplay(ledger, replayOf, id, seg, index) ==
    \/ id \notin DOMAIN ledger
    \/ /\ ledger[id].lastIndex # index
       /\ replayOf # None \/ ledger[id].origin = seg

\* SessionEventIds::admit returns Ok.  replayOf is the index of the earlier segment this one
\* was already found identical to, or None.
Admits(ledger, replayOf, id, seg, index) ==
    \/ id \notin DOMAIN ledger
    \/ /\ ledger[id].lastIndex # index
       /\ IF replayOf = None THEN ledger[id].origin = seg
          ELSE replayOf = ledger[id].originIndex

\* The ledger once the id is admitted.
Admitted(ledger, id, seg, index) ==
    IF id \in DOMAIN ledger
    THEN [ledger EXCEPT ![id].lastIndex = index]
    ELSE [i \in DOMAIN ledger \cup {id} |->
             IF i = id THEN [origin |-> seg, originIndex |-> index, lastIndex |-> index]
             ELSE ledger[i]]

\* Candidate n of a segment, after the ones before it: the ledger, what the segment replays,
\* and whether a candidate was refused, which stops the scan.
Examined(before, n, seg, index) ==
    LET id == seg.events[n].id
        admits == /\ n <= MaxCandidates
                  /\ Admits(before.ledger, before.replayOf, id, seg, index)
    IN  IF before.refused THEN before
        ELSE IF ~admits THEN [before EXCEPT !.refused = TRUE]
        ELSE [ledger |-> Admitted(before.ledger, id, seg, index),
              replayOf |-> IF id \in DOMAIN before.ledger /\ before.replayOf = None
                           THEN before.ledger[id].originIndex
                           ELSE before.replayOf,
              refused |-> FALSE]

\* The scan of all of them
Scan(seg, index) ==
    LET scan[n \in 0..Len(seg.events)] ==
            IF n = 0 THEN [ledger |-> seen, replayOf |-> None, refused |-> FALSE]
            ELSE Examined(scan[n - 1], n, seg, index)
    IN  scan[Len(seg.events)]

-----------------------------------------------------------------------------
(* One segment: validate_emsg_segment_with.                                *)

\* authenticate_segment_info under some key: in its window at the assessment time, signed by
\* it, at or above its floor, for this manifest and this media.
Authenticates(info, seg, at) ==
    /\ info # None /\ info.media = seg.media /\ info.manifest
    /\ \E i \in DOMAIN keys :
          /\ at \in keys[i].window /\ info.iat \in keys[i].window \cup {None}
          /\ keys[i].id = info.key
          /\ info.seq >= keys[i].floor

\* The candidates timed and authenticated
Authentic(seg, at) ==
    {n \in DOMAIN seg.events : seg.events[n].timed /\ Authenticates(seg.events[n].info, seg, at)}

\* The first of them in file order
Earliest(S) == CHOOSE n \in S : \A m \in S : n <= m

\* The first authentic candidate with the expected number, else the first authentic one.
Chosen(seg, at, expected) ==
    LET authentic == Authentic(seg, at)
        fitting == {n \in authentic : expected = None \/ seg.events[n].info.seq = expected}
    IN  IF fitting # {} THEN seg.events[Earliest(fitting)].info
        ELSE IF authentic # {} THEN seg.events[Earliest(authentic)].info
        ELSE None

\* info.sequence_number.checked_add(1)
CheckedNext(n) == IF n = MaxU64 THEN None ELSE n + 1

\* Mutant: a number above the expected one is taken as well.
FitsOrSkips(info, expected) == info # None /\ (expected = None \/ info.seq >= expected)

\* The candidate chosen has the expected number.
Fits(info, expected) == info # None /\ (expected = None \/ info.seq = expected)

\* Mutant: an out-of-sequence segment leaves the expected number as it was.
NextAfterFitting(info, expected) ==
    IF ~Fits(info, expected) THEN nextSequence ELSE CheckedNext(info.seq)

\* The number expected after a segment: it follows the last authenticated one.
NextAfter(info, expected) == IF info = None THEN nextSequence ELSE CheckedNext(info.seq)

\* The loop of validate_emsg_segments.  A segment whose timing cannot be read fails before its
\* events are looked at (that walk meets every malformed box first); one with a refused id
\* fails after.
PresentSegment(seg, seek, at) ==
    LET index == Len(presented) + 1
        expected == IF seek THEN None ELSE nextSequence
        exhausted == ~seek /\ nextSequence = None
        examined == keys # <<>> /\ seg.spanOk
        scanned == Scan(seg, index)
        info == IF examined /\ ~scanned.refused
                THEN Chosen(seg, at, expected) ELSE None
    IN  /\ phase = "segments" /\ Len(presented) < MaxSegments
        /\ presented' = Append(presented, seg)
        /\ seeks' = IF seek THEN seeks \cup {index} ELSE seeks
        /\ times' = Append(times, at)
        /\ seen' = IF examined THEN scanned.ledger ELSE seen
        /\ verified' = Append(verified, info)
        /\ nextSequence' = NextAfter(info, expected)
        /\ failed' = IF Fits(info, expected) /\ ~exhausted THEN failed ELSE failed \cup {index}
        /\ UNCHANGED <<phase, keys>>

\* The report is restated from the failures and returned.
Return ==
    /\ phase = "segments"
    /\ phase' = "done"
    /\ UNCHANGED <<keys, nextSequence, seen, presented, seeks, verified, failed, times>>

Next ==
    \/ \E entries \in Deliveries \cup {None}, initOk \in BOOLEAN : Deliver(entries, initOk)
    \/ \E seg \in Segments, seek \in BOOLEAN, at \in Times : PresentSegment(seg, seek, at)
    \/ Return

Spec == Init /\ [][Next]_vars

-----------------------------------------------------------------------------
(* Properties.                                                             *)

Ids(seg) == {seg.events[n].id : n \in DOMAIN seg.events}

\* The loop's state has the types of the code; the ledger names segments really presented.
TypeOK ==
    /\ phase \in {"init", "segments", "done"}
    /\ nextSequence \in 0..MaxU64 \cup {None}
    /\ Len(verified) = Len(presented) /\ Len(times) = Len(presented)
    /\ failed \subseteq 0..Len(presented)
    /\ \A id \in DOMAIN seen :
          /\ 1 <= seen[id].originIndex /\ seen[id].originIndex <= seen[id].lastIndex
          /\ seen[id].lastIndex <= Len(presented)
          /\ presented[seen[id].originIndex] = seen[id].origin
          /\ id \in Ids(seen[id].origin)

\* A stream without failures is what was signed: it starts at the lowest key floor, numbers
\* go up by one over key changes, only a signalled seek interrupts them, and every segment
\* was authenticated for its own media by a key in force when it was presented.
ValidStreamIsContinuous ==
    failed = {} =>
        \A i \in 1..Len(presented) :
            /\ verified[i] # None /\ verified[i].media = presented[i].media
            /\ \E k \in DOMAIN keys :
                  keys[k].id = verified[i].key /\ times[i] \in keys[k].window
            /\ i \notin seeks => verified[i].seq = IF i = 1 THEN FirstSequence(keys)
                                                   ELSE verified[i - 1].seq + 1

\* An event id names one segment: two segments that passed and share an id are byte for byte
\* the same, whatever failed, was refused or was replayed between them.
AcceptedIdsNameOneSegment ==
    \A i, j \in (1..Len(presented)) \ failed :
        Ids(presented[i]) \cap Ids(presented[j]) # {} => presented[i] = presented[j]

\* A gap is reported once: a segment that follows an authenticated one and carries the next
\* number passes, also when the earlier one was out of sequence (the number expected follows
\* the last authenticated segment, not the last accepted one).
GapReportedOnce ==
    \A i \in 2..Len(presented) :
        /\ verified[i - 1] # None /\ verified[i] # None
        /\ verified[i].seq = verified[i - 1].seq + 1
        => i \notin failed

=============================================================================
