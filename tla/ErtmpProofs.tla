----------------------------- MODULE ErtmpProofs -----------------------------
(***************************************************************************)
(* Invariants of E-RTMP verification, for every value of the constants:    *)
(* of the verifier (Ertmp), for every number of tracks, set of manifest    *)
(* stores and keys; then of the wire decoder that feeds it (ErtmpWire),    *)
(* for every number of chunk streams, chunk size, message and limit.       *)
(***************************************************************************)
EXTENDS Ertmp, ErtmpWire, SequenceTheorems, FiniteSetTheorems, WellFoundedInduction,
        NaturalsInduction, TLAPS

\* What finalize_pending leaves behind has the type of what it started from.
LEMMA FinalizeType ==
    ASSUME TypeOK, NEW t \in Tracks
    PROVE  /\ FinalizedFrames(t) \in Seq(FrameType)
           /\ FinalizedSequence(t) \in SequenceNumbers \cup {None}
           /\ FinalizedReports(t) \in Seq(ReportType)
<1>1. FinalizedFrames(t) \in Seq(FrameType)
  BY EmptySeq DEF TypeOK, FinalizedFrames
<1>2. FinalizedSequence(t) \in SequenceNumbers \cup {None}
  BY DEF TypeOK, FinalizedSequence, AcceptedType, PendingType
<1>3. FinalizedReports(t) \in Seq(ReportType)
  <2>1. CASE pending[t] = None
    BY <2>1 DEF TypeOK, FinalizedReports
  <2>2. CASE pending[t] # None
    <3>1. [accepted |-> pending[t].accepted, frames |-> frames[t]] \in ReportType
      BY <2>2 DEF TypeOK, ReportType, PendingType
    <3> QED BY <3>1, <2>2 DEF TypeOK, FinalizedReports
  <2> QED BY <2>1, <2>2
<1> QED BY <1>1, <1>2, <1>3

\* A coded frame appended to an open segment is well typed.
LEMMA NewFrameType ==
    ASSUME TypeOK, NEW t \in Tracks, NEW csid \in ChunkStreams, NEW timestamp \in Timestamps,
           NEW data \in CodedData, configs[t] # None
    PROVE  NewFrame(t, csid, timestamp, data) \in FrameType
BY DEF TypeOK, NewFrame, FrameType, ConfigType

\* What a candidate that reaches the session keys satisfies.
LEMMA AuthenticType ==
    ASSUME TypeOK, NEW t \in Tracks, NEW csid, NEW timestamp, NEW info \in SegmentInfos(t),
           IsAuthentic(t, csid, timestamp, info)
    PROVE  NewAccepted(info) \in AcceptedType
<1>1. /\ info # None
      /\ info.track \in Tracks /\ info.sequence \in SequenceNumbers
      /\ info.manifest \in ManifestIds /\ info.kid \in KeyIds
  BY DEF IsAuthentic, ReachesKeys, SegmentInfos
<1>2. manifests[info.manifest].store \in Stores
  BY <1>1 DEF TypeOK, IsAuthentic, ReachesKeys, NamesCurrentManifest
<1>3. active.epoch \in Nat
  BY DEF TypeOK, ActiveType, IsAuthentic, ReachesKeys, NamesCurrentManifest, ManifestIsCurrent
<1>4. StoreMatches(manifests[info.manifest].store) \in BOOLEAN
  BY DEF StoreMatches
<1>5. frames[info.track] \in Seq(FrameType)
  BY <1>1 DEF TypeOK
<1> HIDE DEF StoreMatches
<1> QED BY <1>1, <1>2, <1>3, <1>4, <1>5 DEF NewAccepted, AcceptedType

\* The Verifier's fields keep their types: new, and every event.
THEOREM TypeInvariant == Spec => []TypeOK
<1>1. Init => TypeOK
  BY EmptySeq DEF Init, TypeOK
<1>2. TypeOK /\ [Next]_vars => TypeOK'
  <2> SUFFICES ASSUME TypeOK, [Next]_vars PROVE TypeOK'
    OBVIOUS
  <2>1. ASSUME NEW isV25 \in BOOLEAN, NEW negotiated \in BOOLEAN, Begin(isV25, negotiated)
        PROVE  TypeOK'
    BY <2>1 DEF Begin, TypeOK, FailureKinds
  <2>2. ASSUME NEW t \in Tracks, NEW csid \in ChunkStreams, NEW payload \in Payloads,
               CodecConfig(t, csid, payload)
        PROVE  TypeOK'
    <3>1. NewConfig(csid, payload) \in ConfigType
      BY DEF NewConfig, ConfigType, TypeOK
    <3>2. configs' \in [Tracks -> ConfigType \cup {None}]
      BY <2>2, <3>1 DEF CodecConfig, TypeOK
    <3>3. /\ events' = events + 1
          /\ nextRevision' \in {nextRevision, nextRevision + 1}
          /\ phase' \in {"error", phase}
          /\ UNCHANGED <<frames, pending, lastSequence, manifests, keyTracks, active,
                         reports, failures, epoch, received>>
      BY <2>2 DEF CodecConfig, TakeEvent
    <3> QED BY <3>2, <3>3 DEF TypeOK
  <2>3. ASSUME NEW t \in Tracks, NEW csid \in ChunkStreams, NEW timestamp \in Timestamps,
               NEW data \in CodedData, NEW inRange \in BOOLEAN,
               Frame(t, csid, timestamp, data, inRange)
        PROVE  TypeOK'
    <3> DEFINE open == FinalizedFrames(t)
               new  == NewFrame(t, csid, timestamp, data)
               stored == inRange /\ configs[t] # None
               full == stored /\ Len(open) >= MaxFrames
    <3>1. /\ open \in Seq(FrameType)
          /\ FinalizedSequence(t) \in SequenceNumbers \cup {None}
          /\ FinalizedReports(t) \in Seq(ReportType)
      BY FinalizeType
    <3>2. stored => Append(open, new) \in Seq(FrameType)
      BY <3>1, NewFrameType
    <3>3. frames' \in [Tracks -> Seq(FrameType)]
      <4>1. frames' = [frames EXCEPT ![t] = IF stored /\ ~full THEN Append(open, new) ELSE open]
        BY <2>3 DEF Frame
      <4> HIDE DEF open, new, stored, full
      <4> QED BY <3>1, <3>2, <4>1 DEF TypeOK
    <3>4. /\ reports' \in [Tracks -> Seq(ReportType)]
          /\ lastSequence' \in [Tracks -> SequenceNumbers \cup {None}]
          /\ pending' \in [Tracks -> PendingType \cup {None}]
      BY <2>3, <3>1 DEF Frame, TypeOK
    <3>5. failures' \subseteq FailureKinds
      BY <2>3 DEF Frame, FrameFailures, FailureKinds, TypeOK
    <3>6. /\ phase' \in {"error", phase}
          /\ events' = events + 1 /\ received' = received + 1
          /\ UNCHANGED <<configs, manifests, keyTracks, nextRevision, active, epoch>>
      BY <2>3 DEF Frame, TakeEvent
    <3> HIDE DEF open, new, stored, full
    <3> QED BY <3>3, <3>4, <3>5, <3>6 DEF TypeOK
  <2>4. ASSUME NEW t \in Tracks, NEW csid \in ChunkStreams, NEW store \in Stores,
               ManifestMetadata(t, csid, store)
        PROVE  TypeOK'
    <3>1. /\ DOMAIN manifests' = ManifestIds
          /\ \A m \in ManifestIds : manifests'[m] # None => manifests'[m].store \in Stores
      <4>1. store.label \in ManifestIds /\ NewDelivery(store).store = store
        BY StoresAssumption DEF NewDelivery
      <4> QED BY <2>4, <4>1 DEF ManifestMetadata, TypeOK
    <3>2. active' \in ActiveType \cup {None}
      <4> DEFINE new == [manifest |-> store.label, revision |-> CurrentRevision,
                         delivered |-> TRUE, epoch |-> epoch]
      <4>1. new \in ActiveType
        BY StoresAssumption DEF CurrentRevision, ActiveType, TypeOK
      <4>2. active' \in {active, new}
        BY <2>4 DEF ManifestMetadata
      <4> HIDE DEF new
      <4> QED BY <4>1, <4>2 DEF TypeOK
    <3>3. /\ failures' \subseteq FailureKinds
          /\ phase' \in {"error", phase}
      BY <2>4 DEF ManifestMetadata, FailureKinds, TypeOK
    <3>4. /\ events' = events + 1
          /\ UNCHANGED <<configs, frames, pending, lastSequence, keyTracks, nextRevision,
                         reports, epoch, received>>
      BY <2>4 DEF ManifestMetadata, TakeEvent
    <3> QED BY <3>1, <3>2, <3>3, <3>4 DEF TypeOK
  <2>5. ASSUME NEW t \in Tracks, NEW csid \in ChunkStreams, NEW timestamp \in Timestamps,
               NEW info \in SegmentInfos(t), SegmentInfo(t, csid, timestamp, info)
        PROVE  TypeOK'
    <3>1. pending' \in [Tracks -> PendingType \cup {None}]
      <4> DEFINE before == IF pending[t] = None THEN [candidates |-> 0, accepted |-> None]
                                                ELSE pending[t]
                 kept == IF before.accepted = None /\ IsAuthentic(t, csid, timestamp, info)
                         THEN NewAccepted(info) ELSE before.accepted
      <4>1. before \in PendingType
        BY DEF PendingType, TypeOK
      <4>2. kept \in AcceptedType \cup {None}
        BY <4>1, AuthenticType DEF PendingType
      <4>3. [candidates |-> before.candidates + 1, accepted |-> kept] \in PendingType
        BY <4>1, <4>2 DEF PendingType
      <4>4. \/ pending' = pending
            \/ pending' = [pending EXCEPT ![t] =
                             [candidates |-> before.candidates + 1, accepted |-> kept]]
        BY <2>5 DEF SegmentInfo
      <4> HIDE DEF before, kept
      <4> QED BY <4>3, <4>4 DEF TypeOK
    <3>2. IsAuthentic(t, csid, timestamp, info) => info.kid \in KeyIds
      BY DEF IsAuthentic, ReachesKeys, SegmentInfos
    <3>3. keyTracks' \in [KeyIds -> Tracks \cup {None}]
      BY <2>5, <3>2 DEF SegmentInfo, TypeOK
    <3>4. /\ DOMAIN manifests' = ManifestIds
          /\ \A m \in ManifestIds : manifests'[m] # None => manifests'[m].store \in Stores
      <4>1. ReachesKeys(t, csid, timestamp, info) =>
              /\ info.manifest \in ManifestIds
              /\ manifests[info.manifest] # None
        BY DEF ReachesKeys, SegmentInfos, NamesCurrentManifest
      <4>2. \/ manifests' = manifests
            \/ /\ ReachesKeys(t, csid, timestamp, info)
               /\ manifests' = [manifests EXCEPT ![info.manifest] = BoundDelivery(@)]
        BY <2>5 DEF SegmentInfo
      <4>3. \A d : BoundDelivery(d).store = d.store
        BY DEF BoundDelivery
      <4> QED BY <4>1, <4>2, <4>3 DEF TypeOK
    <3>5. /\ events' = events + 1 /\ phase' \in {"error", phase}
          /\ failures' \subseteq failures \cup {"closesNoFrames"}
          /\ UNCHANGED <<configs, frames, lastSequence, nextRevision, active, reports,
                         epoch, received>>
      BY <2>5 DEF SegmentInfo, TakeEvent
    <3>6. failures' \subseteq FailureKinds
      BY <3>5 DEF FailureKinds, TypeOK
    <3> QED BY <3>1, <3>3, <3>4, <3>5, <3>6 DEF TypeOK
  <2>6. CASE Reconnect
    <3>1. /\ reports' \in [Tracks -> Seq(ReportType)]
          /\ lastSequence' \in [Tracks -> SequenceNumbers \cup {None}]
          /\ frames' \in [Tracks -> Seq(FrameType)]
      BY <2>6, FinalizeType, EmptySeq DEF Reconnect
    <3>2. /\ active' \in ActiveType \cup {None}
          /\ failures' \subseteq FailureKinds
      BY <2>6 DEF Reconnect, ActiveType, FailureKinds, TypeOK
    <3>3. /\ configs' \in [Tracks -> ConfigType \cup {None}]
          /\ pending' \in [Tracks -> PendingType \cup {None}]
          /\ epoch' = epoch + 1 /\ events' = events + 1
          /\ UNCHANGED <<phase, manifests, keyTracks, nextRevision, received>>
      BY <2>6 DEF Reconnect, TakeEvent
    <3> QED BY <3>1, <3>2, <3>3 DEF TypeOK
  <2>7. CASE Finish
    <3>1. /\ reports' \in [Tracks -> Seq(ReportType)]
          /\ lastSequence' \in [Tracks -> SequenceNumbers \cup {None}]
          /\ frames' \in [Tracks -> Seq(FrameType)]
      BY <2>7, FinalizeType DEF Finish
    <3>2. /\ failures' \subseteq FailureKinds
          /\ pending' \in [Tracks -> PendingType \cup {None}]
          /\ phase' = "done"
          /\ UNCHANGED <<events, configs, manifests, keyTracks, nextRevision, active,
                         epoch, received>>
      BY <2>7 DEF Finish, FailureKinds, TypeOK
    <3> QED BY <3>1, <3>2 DEF TypeOK
  <2>8. CASE OtherMetadata \/ UNCHANGED vars
    BY <2>8 DEF OtherMetadata, vars, TypeOK
  <2> QED BY <2>1, <2>2, <2>3, <2>4, <2>5, <2>6, <2>7, <2>8 DEF Next
<1> QED BY <1>1, <1>2, PTL DEF Spec

-----------------------------------------------------------------------------
(* Sequence numbers.  lastSequence is the number of the last valid report, and an *)
(* accepted candidate that is still pending carries the number after it.          *)

SequenceOK(rs, last, pend) ==
    /\ \A i \in DOMAIN rs : IsValid(rs[i]) => last # None
    /\ \A i \in DOMAIN rs :
          IsValid(rs[i]) /\ (\A k \in (i + 1)..Len(rs) : ~IsValid(rs[k]))
          => rs[i].accepted.sequence = last
    /\ \A i, j \in DOMAIN rs :
          /\ i < j /\ IsValid(rs[i]) /\ IsValid(rs[j])
          /\ \A k \in (i + 1)..(j - 1) : ~IsValid(rs[k])
          => rs[j].accepted.sequence = rs[i].accepted.sequence + 1
    /\ pend # None /\ last # None =>
          (pend.accepted # None => pend.accepted.sequence = last + 1)

SequenceInv == \A t \in Tracks : SequenceOK(reports[t], lastSequence[t], pending[t])

\* finalize_pending preserves the invariant of its track.
LEMMA FinalizeSequence ==
    ASSUME TypeOK, NEW t \in Tracks, SequenceOK(reports[t], lastSequence[t], pending[t])
    PROVE  SequenceOK(FinalizedReports(t), FinalizedSequence(t), None)
<1> DEFINE rs == reports[t]
           new == [accepted |-> pending[t].accepted, frames |-> frames[t]]
<1>1. CASE pending[t] = None
  BY <1>1 DEF FinalizedReports, FinalizedSequence, SequenceOK
<1>2. CASE pending[t] # None
  <2>1. /\ rs \in Seq(ReportType) /\ new \in ReportType
        /\ FinalizedReports(t) = Append(rs, new)
        /\ new.accepted = pending[t].accepted
    BY <1>2 DEF TypeOK, FinalizedReports, ReportType, PendingType
  <2>2. /\ Len(Append(rs, new)) = Len(rs) + 1 /\ Len(rs) \in Nat
        /\ DOMAIN Append(rs, new) = 1..(Len(rs) + 1)
        /\ DOMAIN rs = 1..Len(rs)
        /\ \A i \in 1..Len(rs) : Append(rs, new)[i] = rs[i]
        /\ Append(rs, new)[Len(rs) + 1] = new
    BY <2>1
  <2> DEFINE q == Append(rs, new)
             n == Len(rs)
             last == FinalizedSequence(t)
  <2>3. /\ \A i \in 1..n : IsValid(rs[i]) => lastSequence[t] # None
        /\ \A i \in 1..n : IsValid(rs[i]) /\ (\A k \in (i + 1)..n : ~IsValid(rs[k]))
                          => rs[i].accepted.sequence = lastSequence[t]
        /\ \A i, j \in 1..n :
             /\ i < j /\ IsValid(rs[i]) /\ IsValid(rs[j])
             /\ \A k \in (i + 1)..(j - 1) : ~IsValid(rs[k])
             => rs[j].accepted.sequence = rs[i].accepted.sequence + 1
        /\ lastSequence[t] # None /\ pending[t].accepted # None =>
             pending[t].accepted.sequence = lastSequence[t] + 1
    BY <1>2, <2>2 DEF SequenceOK
  <2>4. SUFFICES SequenceOK(q, last, None)
    BY <2>1
  <2>5. /\ Len(q) = n + 1 /\ n \in Nat /\ DOMAIN q = 1..(n + 1)
        /\ \A i \in 1..n : q[i] = rs[i]
        /\ q[n + 1] = new
    BY <2>2
  <2>6. CASE pending[t].accepted = None
    <3>1. last = lastSequence[t] /\ ~IsValid(new)
      BY <1>2, <2>1, <2>6 DEF FinalizedSequence, IsValid
    <3> HIDE DEF rs, new, q, n, last
    <3>2. \A i \in 1..(n + 1) : IsValid(q[i]) => i \in 1..n /\ IsValid(rs[i])
      BY <2>5, <3>1
    <3>3. ASSUME NEW i \in 1..n PROVE \A k \in (i + 1)..n : q[k] = rs[k]
      BY <2>5
    <3>4. ASSUME NEW i \in DOMAIN q, IsValid(q[i]), \A k \in (i + 1)..Len(q) : ~IsValid(q[k])
          PROVE  q[i].accepted.sequence = last
      <4>1. i \in 1..n /\ IsValid(rs[i]) /\ q[i] = rs[i]
        BY <2>5, <3>2, <3>4
      <4>2. \A k \in (i + 1)..n : ~IsValid(rs[k])
        BY <2>5, <3>3, <3>4, <4>1
      <4> QED BY <2>3, <3>1, <4>1, <4>2
    <3>5. ASSUME NEW i \in DOMAIN q, NEW j \in DOMAIN q, i < j, IsValid(q[i]), IsValid(q[j]),
                 \A k \in (i + 1)..(j - 1) : ~IsValid(q[k])
          PROVE  q[j].accepted.sequence = q[i].accepted.sequence + 1
      <4>1. i \in 1..n /\ j \in 1..n /\ q[i] = rs[i] /\ q[j] = rs[j]
        BY <2>5, <3>2, <3>5
      <4>2. \A k \in (i + 1)..(j - 1) : ~IsValid(rs[k])
        BY <2>5, <3>5, <4>1
      <4> QED BY <2>3, <3>5, <4>1, <4>2
    <3>6. ASSUME NEW i \in DOMAIN q, IsValid(q[i]) PROVE last # None
      BY <2>3, <2>5, <3>1, <3>2, <3>6
    <3> QED BY <3>4, <3>5, <3>6 DEF SequenceOK
  <2>7. CASE pending[t].accepted # None
    <3>1. last = pending[t].accepted.sequence /\ IsValid(new)
      BY <1>2, <2>1, <2>7 DEF FinalizedSequence, IsValid
    <3>2. last \in Nat /\ last # None
      <4>1. pending[t].accepted \in AcceptedType
        BY <1>2, <2>7 DEF TypeOK, PendingType
      <4> QED BY <3>1, <4>1, NoneAssumption, BoundsAssumption DEF AcceptedType, SequenceNumbers
    <3>3. new.accepted.sequence = last
      BY <2>1, <3>1
    <3> HIDE DEF rs, new, q, n, last
    <3>4. ASSUME NEW i \in DOMAIN q, IsValid(q[i]), \A k \in (i + 1)..Len(q) : ~IsValid(q[k])
          PROVE  q[i].accepted.sequence = last
      <4>1. i = n + 1
        BY <2>5, <3>1, <3>4
      <4> QED BY <2>5, <3>3, <4>1
    <3>5. ASSUME NEW i \in DOMAIN q, NEW j \in DOMAIN q, i < j, IsValid(q[i]), IsValid(q[j]),
                 \A k \in (i + 1)..(j - 1) : ~IsValid(q[k])
          PROVE  q[j].accepted.sequence = q[i].accepted.sequence + 1
      <4>1. i \in 1..n /\ q[i] = rs[i]
        BY <2>5, <3>5
      <4>2. \A k \in (i + 1)..(j - 1) : k \in 1..n /\ ~IsValid(rs[k])
        BY <2>5, <3>5, <4>1
      <4>3. CASE j \in 1..n
        <5>1. q[j] = rs[j]
          BY <2>5, <4>3
        <5> QED BY <2>3, <3>5, <4>1, <4>2, <4>3, <5>1
      <4>4. CASE j = n + 1
        <5>1. \A k \in (i + 1)..n : ~IsValid(rs[k])
          BY <2>5, <4>2, <4>4
        <5>2. lastSequence[t] # None /\ rs[i].accepted.sequence = lastSequence[t]
          BY <2>3, <3>5, <4>1, <5>1
        <5>3. last = lastSequence[t] + 1
          BY <2>3, <2>7, <3>1, <5>2
        <5> QED BY <2>5, <3>3, <4>1, <4>4, <5>2, <5>3
      <4> QED BY <2>5, <4>3, <4>4
    <3> QED BY <3>2, <3>4, <3>5 DEF SequenceOK
  <2> QED BY <2>6, <2>7
<1> QED BY <1>1, <1>2

\* A candidate that authenticates carries the number after its track's last one.
LEMMA AuthenticFollows ==
    ASSUME NEW t, NEW csid, NEW timestamp, NEW info, IsAuthentic(t, csid, timestamp, info),
           lastSequence[t] # None
    PROVE  NewAccepted(info).sequence = lastSequence[t] + 1
BY DEF IsAuthentic, ReachesKeys, FollowsLastSequence, NewAccepted

\* The relation between reports, last number and pending candidate is kept.
LEMMA SequenceInvariant == Spec => []SequenceInv
<1>1. Init => SequenceInv
  BY DEF Init, SequenceInv, SequenceOK
<1>2. TypeOK /\ SequenceInv /\ [Next]_vars => SequenceInv'
  <2> SUFFICES ASSUME TypeOK, SequenceInv, [Next]_vars, NEW u \in Tracks
               PROVE  SequenceOK(reports'[u], lastSequence'[u], pending'[u])
    BY DEF SequenceInv
  <2>0. /\ SequenceOK(reports[u], lastSequence[u], pending[u])
        /\ SequenceOK(FinalizedReports(u), FinalizedSequence(u), None)
    BY FinalizeSequence DEF SequenceInv
  <2>1. ASSUME UNCHANGED <<reports, lastSequence, pending>>
        PROVE  SequenceOK(reports'[u], lastSequence'[u], pending'[u])
    BY <2>0, <2>1
  <2>2. ASSUME NEW t \in Tracks, NEW csid \in ChunkStreams, NEW timestamp \in Timestamps,
               NEW data \in CodedData, NEW inRange \in BOOLEAN,
               Frame(t, csid, timestamp, data, inRange)
        PROVE  SequenceOK(reports'[u], lastSequence'[u], pending'[u])
    <3>1. /\ reports' = [reports EXCEPT ![t] = FinalizedReports(t)]
          /\ lastSequence' = [lastSequence EXCEPT ![t] = FinalizedSequence(t)]
          /\ pending' = [pending EXCEPT ![t] = None]
      BY <2>2 DEF Frame
    <3>2. CASE u = t
      BY <2>0, <3>1, <3>2 DEF TypeOK
    <3>3. CASE u # t
      BY <2>0, <3>1, <3>3 DEF TypeOK
    <3> QED BY <3>2, <3>3
  <2>3. ASSUME NEW t \in Tracks, NEW csid \in ChunkStreams, NEW timestamp \in Timestamps,
               NEW info \in SegmentInfos(t), SegmentInfo(t, csid, timestamp, info)
        PROVE  SequenceOK(reports'[u], lastSequence'[u], pending'[u])
    <3> DEFINE before == IF pending[t] = None THEN [candidates |-> 0, accepted |-> None]
                                              ELSE pending[t]
               after == [candidates |-> before.candidates + 1,
                         accepted |-> IF before.accepted = None
                                         /\ IsAuthentic(t, csid, timestamp, info)
                                      THEN NewAccepted(info) ELSE before.accepted]
    <3>1. /\ UNCHANGED <<reports, lastSequence>>
          /\ pending' \in {pending, [pending EXCEPT ![t] = after]}
      BY <2>3 DEF SegmentInfo
    <3>2. lastSequence[t] # None /\ after.accepted # None =>
             after.accepted.sequence = lastSequence[t] + 1
      <4>1. CASE before.accepted = None /\ IsAuthentic(t, csid, timestamp, info)
        BY <4>1, AuthenticFollows
      <4>2. CASE ~(before.accepted = None /\ IsAuthentic(t, csid, timestamp, info))
        <5>1. after.accepted = before.accepted
          BY <4>2
        <5>2. before.accepted # None => pending[t] # None /\ before = pending[t]
          OBVIOUS
        <5> HIDE DEF before, after
        <5> QED BY <5>1, <5>2 DEF SequenceInv, SequenceOK
      <4> QED BY <4>1, <4>2
    <3> HIDE DEF after
    <3>3. CASE u = t
      <4>1. pending'[t] = pending[t] \/ pending'[t] = after
        BY <3>1 DEF TypeOK
      <4>2. reports' = reports /\ lastSequence' = lastSequence
        BY <3>1
      <4> QED BY <2>0, <3>2, <3>3, <4>1, <4>2 DEF SequenceOK
    <3>4. CASE u # t
      BY <2>0, <3>1, <3>4 DEF TypeOK
    <3> QED BY <3>3, <3>4
  <2>4. ASSUME Reconnect \/ Finish
        PROVE  SequenceOK(reports'[u], lastSequence'[u], pending'[u])
    <3>1. /\ reports'[u] = FinalizedReports(u)
          /\ lastSequence'[u] = FinalizedSequence(u)
          /\ pending'[u] = None
      BY <2>4 DEF Reconnect, Finish
    <3> QED BY <2>0, <3>1
  <2> QED
    <3>1. CASE \E isV25, negotiated \in BOOLEAN : Begin(isV25, negotiated)
      BY <2>1, <3>1 DEF Begin
    <3>2. CASE \E t \in Tracks, csid \in ChunkStreams, payload \in Payloads :
                 CodecConfig(t, csid, payload)
      BY <2>1, <3>2 DEF CodecConfig
    <3>3. CASE \E t \in Tracks, csid \in ChunkStreams, store \in Stores :
                 ManifestMetadata(t, csid, store)
      BY <2>1, <3>3 DEF ManifestMetadata
    <3>4. CASE OtherMetadata \/ UNCHANGED vars
      BY <2>1, <3>4 DEF OtherMetadata, vars
    <3> QED BY <2>2, <2>3, <2>4, <3>1, <3>2, <3>3, <3>4 DEF Next
<1> QED BY <1>1, <1>2, TypeInvariant, PTL DEF Spec

\* Valid segments of a track are numbered consecutively, over invalid segments,
\* manifest rotation and reconnection.
THEOREM SequencesInvariant == Spec => []ConsecutiveSequences
<1>1. SequenceInv => ConsecutiveSequences
  BY DEF SequenceInv, SequenceOK, ConsecutiveSequences
<1> QED BY <1>1, SequenceInvariant, PTL

\* No event takes a key from its track, or moves a track's sequence but to the next number.
THEOREM SurvivalProperty == Spec => SequenceAndKeysSurvive
<1> DEFINE Keys == \A k \in KeyIds : keyTracks[k] # None => keyTracks'[k] = keyTracks[k]
           Sequences == \A t \in Tracks : lastSequence[t] # None =>
                          lastSequence'[t] \in {lastSequence[t], lastSequence[t] + 1}
<1>1. TypeOK /\ SequenceInv /\ [Next]_vars => Keys
  <2> SUFFICES ASSUME TypeOK, [Next]_vars PROVE Keys
    OBVIOUS
  <2>1. CASE keyTracks' = keyTracks
    BY <2>1
  <2>2. ASSUME NEW t \in Tracks, NEW csid \in ChunkStreams, NEW timestamp \in Timestamps,
               NEW info \in SegmentInfos(t), SegmentInfo(t, csid, timestamp, info)
        PROVE  Keys
    <3>1. \/ keyTracks' = keyTracks
          \/ /\ IsAuthentic(t, csid, timestamp, info)
             /\ keyTracks' = [keyTracks EXCEPT ![info.kid] = t]
      BY <2>2 DEF SegmentInfo
    <3>2. IsAuthentic(t, csid, timestamp, info) => keyTracks[info.kid] \in {None, t}
      BY DEF IsAuthentic, Authenticates
    <3> QED BY <3>1, <3>2 DEF TypeOK
  <2> QED
    BY <2>1, <2>2
    DEF Next, vars, Begin, CodecConfig, Frame, ManifestMetadata, OtherMetadata, Reconnect, Finish
<1>2. TypeOK /\ SequenceInv /\ [Next]_vars => Sequences
  <2> SUFFICES ASSUME TypeOK, SequenceInv, [Next]_vars PROVE Sequences
    OBVIOUS
  <2>1. \A t \in Tracks : lastSequence[t] # None =>
          FinalizedSequence(t) \in {lastSequence[t], lastSequence[t] + 1}
    BY DEF FinalizedSequence, SequenceInv, SequenceOK
  <2>2. CASE lastSequence' = lastSequence
    BY <2>2
  <2>3. ASSUME NEW t \in Tracks, NEW csid \in ChunkStreams, NEW timestamp \in Timestamps,
               NEW data \in CodedData, NEW inRange \in BOOLEAN,
               Frame(t, csid, timestamp, data, inRange)
        PROVE  Sequences
    <3>1. lastSequence' = [lastSequence EXCEPT ![t] = FinalizedSequence(t)]
      BY <2>3 DEF Frame
    <3> QED BY <2>1, <3>1 DEF TypeOK
  <2>4. CASE Reconnect \/ Finish
    <3>1. lastSequence' = [t \in Tracks |-> FinalizedSequence(t)]
      BY <2>4 DEF Reconnect, Finish
    <3> QED BY <2>1, <3>1
  <2> QED
    BY <2>2, <2>3, <2>4
    DEF Next, vars, Begin, CodecConfig, SegmentInfo, ManifestMetadata, OtherMetadata
<1>3. TypeOK /\ SequenceInv /\ [Next]_vars => [Keys /\ Sequences]_vars
  BY <1>1, <1>2
<1> QED BY <1>3, TypeInvariant, SequenceInvariant, PTL DEF Spec, SequenceAndKeysSurvive

-----------------------------------------------------------------------------
(* What was true of a SegmentInfo when it was accepted stays true until its segment *)
(* is reported and after: the facts about an accepted candidate, in one predicate.  *)

AcceptedOK(owners, t, a, fs) ==
    /\ owners[a.key] = t
    /\ fs # <<>> /\ fs = a.frames
    /\ \A m, n \in DOMAIN fs : /\ fs[m].epoch = a.epoch
                               /\ fs[m].csid = fs[n].csid
                               /\ fs[m].revision = fs[n].revision
    /\ a.matched
    /\ a.store.label = a.manifest
    /\ \E key \in a.store.keys : key.id = a.key /\ key.live /\ a.sequence >= key.floor

ReportsOK(owners, t, rs) ==
    \A i \in DOMAIN rs :
        rs[i].accepted # None => AcceptedOK(owners, t, rs[i].accepted, rs[i].frames)

PendingOK(owners, t, pend, fs) ==
    pend # None /\ pend.accepted # None => AcceptedOK(owners, t, pend.accepted, fs)

\* Open frames belong to the current connection, a manifest delivered since the last
\* reconnection to the same one, and a bound manifest matches what it is bound to.
ConnectionInv ==
    /\ \A t \in Tracks : \A i \in DOMAIN frames[t] : frames[t][i].epoch = epoch
    /\ active # None /\ active.delivered => active.epoch = epoch

BindingInv ==
    \A m \in ManifestIds : manifests[m] # None =>
        /\ manifests[m].store.label = m
        /\ manifests[m].bound # None =>
              manifests[m].store.intact /\ manifests[m].store.binds = manifests[m].bound

AcceptInv ==
    \A t \in Tracks : /\ ReportsOK(keyTracks, t, reports[t])
                      /\ PendingOK(keyTracks, t, pending[t], frames[t])

\* finalize_pending turns an accepted pending segment into a report with the same facts.
LEMMA FinalizeAccepted ==
    ASSUME TypeOK, NEW t \in Tracks, ReportsOK(keyTracks, t, reports[t]),
           PendingOK(keyTracks, t, pending[t], frames[t])
    PROVE  ReportsOK(keyTracks, t, FinalizedReports(t))
<1> DEFINE rs == reports[t]
           new == [accepted |-> pending[t].accepted, frames |-> frames[t]]
<1>1. CASE pending[t] = None
  BY <1>1 DEF FinalizedReports
<1>2. CASE pending[t] # None
  <2>1. /\ rs \in Seq(ReportType) /\ new \in ReportType
        /\ FinalizedReports(t) = Append(rs, new)
        /\ new.accepted = pending[t].accepted /\ new.frames = frames[t]
    BY <1>2 DEF TypeOK, FinalizedReports, ReportType, PendingType
  <2>2. /\ DOMAIN Append(rs, new) = 1..(Len(rs) + 1)
        /\ DOMAIN rs = 1..Len(rs) /\ Len(rs) \in Nat
        /\ \A i \in 1..Len(rs) : Append(rs, new)[i] = rs[i]
        /\ Append(rs, new)[Len(rs) + 1] = new
    BY <2>1
  <2>3. new.accepted # None => AcceptedOK(keyTracks, t, new.accepted, new.frames)
    BY <1>2, <2>1 DEF PendingOK
  <2> HIDE DEF new
  <2> SUFFICES ASSUME NEW i \in DOMAIN Append(rs, new), Append(rs, new)[i].accepted # None
               PROVE  AcceptedOK(keyTracks, t, Append(rs, new)[i].accepted,
                                 Append(rs, new)[i].frames)
    BY <2>1 DEF ReportsOK
  <2>4. CASE i \in 1..Len(rs)
    BY <2>2, <2>4 DEF ReportsOK
  <2>5. CASE i = Len(rs) + 1
    BY <2>2, <2>3, <2>5
  <2> QED BY <2>2, <2>4, <2>5
<1> QED BY <1>1, <1>2

\* An open frame is never from before the last reconnection.
LEMMA ConnectionInvariant == Spec => []ConnectionInv
<1>1. Init => ConnectionInv
  BY DEF Init, ConnectionInv
<1>2. TypeOK /\ ConnectionInv /\ [Next]_vars => ConnectionInv'
  <2> SUFFICES ASSUME TypeOK, ConnectionInv, [Next]_vars PROVE ConnectionInv'
    OBVIOUS
  <2>1. CASE UNCHANGED <<frames, active, epoch>>
    BY <2>1 DEF ConnectionInv
  <2>2. ASSUME NEW t \in Tracks, NEW csid \in ChunkStreams, NEW timestamp \in Timestamps,
               NEW data \in CodedData, NEW inRange \in BOOLEAN,
               Frame(t, csid, timestamp, data, inRange)
        PROVE  ConnectionInv'
    <3> DEFINE open == FinalizedFrames(t)
               new  == NewFrame(t, csid, timestamp, data)
    <3>1. /\ UNCHANGED <<active, epoch>>
          /\ \/ frames' = [frames EXCEPT ![t] = open]
             \/ configs[t] # None /\ frames' = [frames EXCEPT ![t] = Append(open, new)]
      BY <2>2 DEF Frame
    <3>2. open \in Seq(FrameType) /\ \A i \in DOMAIN open : open[i].epoch = epoch
      BY FinalizeType DEF FinalizedFrames, ConnectionInv
    <3>3. new.epoch = epoch
      BY DEF NewFrame
    <3>4. configs[t] # None =>
            \A i \in DOMAIN Append(open, new) : Append(open, new)[i].epoch = epoch
      <4>1. configs[t] # None => new \in FrameType
        BY NewFrameType
      <4> HIDE DEF open, new
      <4> QED BY <3>2, <3>3, <4>1
    <3> HIDE DEF open, new
    <3>5. \A u \in Tracks : \A i \in DOMAIN frames'[u] : frames'[u][i].epoch = epoch
      BY <3>1, <3>2, <3>4 DEF ConnectionInv, TypeOK
    <3> QED BY <3>1, <3>5 DEF ConnectionInv
  <2>3. ASSUME NEW t \in Tracks, NEW csid \in ChunkStreams, NEW store \in Stores,
               ManifestMetadata(t, csid, store)
        PROVE  ConnectionInv'
    BY <2>3 DEF ManifestMetadata, ConnectionInv
  <2>4. CASE Reconnect
    <3>1. \A t \in Tracks : DOMAIN frames'[t] = {}
      BY <2>4 DEF Reconnect
    <3>2. active' # None => ~active'.delivered
      BY <2>4 DEF Reconnect, ActiveType, TypeOK
    <3> QED BY <3>1, <3>2 DEF ConnectionInv
  <2>5. CASE Finish
    <3>1. \A t \in Tracks : frames'[t] = frames[t] \/ frames'[t] = <<>>
      BY <2>5 DEF Finish, FinalizedFrames
    <3>2. UNCHANGED <<active, epoch>>
      BY <2>5 DEF Finish
    <3> QED BY <3>1, <3>2 DEF ConnectionInv
  <2> QED
    BY <2>1, <2>2, <2>3, <2>4, <2>5
    DEF Next, Begin, CodecConfig, SegmentInfo, OtherMetadata, vars
<1> QED BY <1>1, <1>2, TypeInvariant, PTL DEF Spec

\* bound_initialization_sha256 is only ever what the stored manifest validated against.
LEMMA BindingInvariant == Spec => []BindingInv
<1>1. Init => BindingInv
  BY DEF Init, BindingInv
<1>2. TypeOK /\ BindingInv /\ [Next]_vars => BindingInv'
  <2> SUFFICES ASSUME TypeOK, BindingInv, [Next]_vars PROVE BindingInv'
    OBVIOUS
  <2>1. CASE UNCHANGED manifests
    BY <2>1 DEF BindingInv
  <2>2. ASSUME NEW t \in Tracks, NEW csid \in ChunkStreams, NEW store \in Stores,
               ManifestMetadata(t, csid, store)
        PROVE  BindingInv'
    <3>1. /\ store.label \in ManifestIds
          /\ NewDelivery(store).store = store /\ NewDelivery(store).bound = None
      BY StoresAssumption DEF NewDelivery
    <3>2. manifests' \in {manifests, [manifests EXCEPT ![store.label] = NewDelivery(store)]}
      BY <2>2 DEF ManifestMetadata
    <3> QED BY <3>1, <3>2 DEF BindingInv, TypeOK
  <2>3. ASSUME NEW t \in Tracks, NEW csid \in ChunkStreams, NEW timestamp \in Timestamps,
               NEW info \in SegmentInfos(t), SegmentInfo(t, csid, timestamp, info)
        PROVE  BindingInv'
    <3> DEFINE m == info.manifest
               new == BoundDelivery(manifests[m])
    <3>1. CASE manifests' = manifests
      BY <3>1 DEF BindingInv
    <3>2. CASE /\ ReachesKeys(t, csid, timestamp, info)
               /\ manifests' = [manifests EXCEPT ![m] = new]
      <4>1. m \in ManifestIds /\ manifests[m] # None
        BY <3>2 DEF ReachesKeys, SegmentInfos, NamesCurrentManifest
      <4>2. new.store = manifests[m].store /\ new.bound = InitializationData
        BY DEF BoundDelivery
      <4>3. manifests[m].store.intact /\ manifests[m].store.binds = InitializationData
        BY <3>2, <4>1 DEF ReachesKeys, BindsInitialization, StoreMatches, BindingInv
      <4> HIDE DEF new
      <4> QED BY <3>2, <4>1, <4>2, <4>3 DEF BindingInv, TypeOK
    <3> QED BY <2>3, <3>1, <3>2 DEF SegmentInfo
  <2> QED
    BY <2>1, <2>2, <2>3
    DEF Next, Begin, CodecConfig, Frame, OtherMetadata, Reconnect, Finish, vars
<1> QED BY <1>1, <1>2, TypeInvariant, PTL DEF Spec

\* The facts about a candidate at the moment authenticate_candidate accepts it.
LEMMA AuthenticOK ==
    ASSUME TypeOK, ConnectionInv, BindingInv,
           NEW t \in Tracks, NEW csid \in ChunkStreams, NEW timestamp \in Timestamps,
           NEW info \in SegmentInfos(t), IsAuthentic(t, csid, timestamp, info),
           NEW owners, owners[info.kid] = t
    PROVE  AcceptedOK(owners, t, NewAccepted(info), frames[t])
<1> DEFINE a == NewAccepted(info)
           d == manifests[info.manifest]
<1>1. /\ info.track = t /\ info.manifest \in ManifestIds
      /\ frames[t] # <<>>
      /\ \A i \in DOMAIN frames[t] : frames[t][i].csid = csid
      /\ \A i \in DOMAIN frames[t] : frames[t][i].revision = configs[t].revision
  BY DEF IsAuthentic, ReachesKeys, ClosesFrames, SegmentInfos
<1>2. /\ active # None /\ active.delivered /\ d # None /\ BindsInitialization(d)
  BY DEF IsAuthentic, ReachesKeys, NamesCurrentManifest, ManifestIsCurrent
<1>3. /\ a.key = info.kid /\ a.frames = frames[t] /\ a.manifest = info.manifest
      /\ a.sequence = info.sequence /\ a.store = d.store /\ a.epoch = active.epoch
      /\ a.matched = StoreMatches(d.store)
  BY <1>1 DEF NewAccepted
<1>4. StoreMatches(d.store)
  BY <1>1, <1>2 DEF BindsInitialization, StoreMatches, BindingInv
<1>5. d.store.label = info.manifest
  BY <1>1, <1>2 DEF BindingInv
<1>6. \E key \in d.store.keys : key.id = info.kid /\ key.live /\ info.sequence >= key.floor
  BY DEF IsAuthentic, Authenticates
<1>7. \A i \in DOMAIN frames[t] : frames[t][i].epoch = active.epoch
  BY <1>2 DEF ConnectionInv
<1> HIDE DEF a, d
<1> QED BY <1>1, <1>3, <1>4, <1>5, <1>6, <1>7 DEF AcceptedOK, a

\* The facts survive when no key changes hands.
LEMMA OwnersGrow ==
    ASSUME NEW t \in Tracks, NEW owners, NEW rs, NEW pend, NEW fs,
           \A k : keyTracks[k] \in Tracks => owners[k] = keyTracks[k]
    PROVE  /\ ReportsOK(keyTracks, t, rs) => ReportsOK(owners, t, rs)
           /\ PendingOK(keyTracks, t, pend, fs) => PendingOK(owners, t, pend, fs)
<1>1. ASSUME NEW a, NEW gs, AcceptedOK(keyTracks, t, a, gs) PROVE AcceptedOK(owners, t, a, gs)
  BY <1>1 DEF AcceptedOK
<1> QED BY <1>1 DEF ReportsOK, PendingOK

\* Every accepted SegmentInfo, pending or reported, keeps the facts it was accepted on.
LEMMA AcceptInvariant == Spec => []AcceptInv
<1>1. Init => AcceptInv
  BY DEF Init, AcceptInv, ReportsOK, PendingOK
<1>2. TypeOK /\ ConnectionInv /\ BindingInv /\ AcceptInv /\ [Next]_vars => AcceptInv'
  <2> SUFFICES ASSUME TypeOK, ConnectionInv, BindingInv, AcceptInv, [Next]_vars,
                      NEW u \in Tracks
               PROVE  /\ ReportsOK(keyTracks', u, reports'[u])
                      /\ PendingOK(keyTracks', u, pending'[u], frames'[u])
    BY DEF AcceptInv
  <2> DEFINE Goal == /\ ReportsOK(keyTracks', u, reports'[u])
                     /\ PendingOK(keyTracks', u, pending'[u], frames'[u])
  <2>1. /\ ReportsOK(keyTracks, u, reports[u]) /\ PendingOK(keyTracks, u, pending[u], frames[u])
        /\ ReportsOK(keyTracks, u, FinalizedReports(u))
    BY FinalizeAccepted DEF AcceptInv
  <2>2. CASE UNCHANGED <<keyTracks, reports, pending, frames>>
    BY <2>1, <2>2
  <2>3. ASSUME NEW t \in Tracks, NEW csid \in ChunkStreams, NEW timestamp \in Timestamps,
               NEW data \in CodedData, NEW inRange \in BOOLEAN,
               Frame(t, csid, timestamp, data, inRange)
        PROVE  Goal
    <3>1. /\ reports' = [reports EXCEPT ![t] = FinalizedReports(t)]
          /\ pending' = [pending EXCEPT ![t] = None]
          /\ keyTracks' = keyTracks
          /\ u # t => frames'[u] = frames[u]
      BY <2>3 DEF Frame, TypeOK
    <3>2. CASE u = t
      BY <2>1, <3>1, <3>2 DEF TypeOK, PendingOK
    <3>3. CASE u # t
      BY <2>1, <3>1, <3>3 DEF TypeOK
    <3> QED BY <3>2, <3>3
  <2>4. ASSUME NEW t \in Tracks, NEW csid \in ChunkStreams, NEW timestamp \in Timestamps,
               NEW info \in SegmentInfos(t), SegmentInfo(t, csid, timestamp, info)
        PROVE  Goal
    <3> DEFINE authentic == IsAuthentic(t, csid, timestamp, info)
               before == IF pending[t] = None THEN [candidates |-> 0, accepted |-> None]
                                              ELSE pending[t]
               kept == IF before.accepted = None /\ authentic
                       THEN NewAccepted(info) ELSE before.accepted
               after == [candidates |-> before.candidates + 1, accepted |-> kept]
    <3>1. /\ UNCHANGED <<reports, frames>>
          /\ \/ UNCHANGED <<pending, keyTracks>>
             \/ /\ pending' = [pending EXCEPT ![t] = after]
                /\ keyTracks' = IF authentic THEN [keyTracks EXCEPT ![info.kid] = t]
                                            ELSE keyTracks
      BY <2>4 DEF SegmentInfo
    <3>2. CASE UNCHANGED <<pending, keyTracks>>
      BY <2>1, <3>1, <3>2
    <3>3. CASE /\ pending' = [pending EXCEPT ![t] = after]
               /\ keyTracks' = IF authentic THEN [keyTracks EXCEPT ![info.kid] = t]
                                           ELSE keyTracks
      <4>1. authentic => info.kid \in KeyIds /\ keyTracks[info.kid] \in {None, t}
        BY DEF IsAuthentic, ReachesKeys, SegmentInfos, Authenticates
      <4>2. authentic => keyTracks'[info.kid] = t
        BY <3>3, <4>1 DEF TypeOK
      <4>3. \A k : keyTracks[k] \in Tracks => keyTracks'[k] = keyTracks[k]
        BY <3>3, <4>1, NoneAssumption DEF TypeOK
      <4>4. /\ ReportsOK(keyTracks', u, reports[u])
            /\ PendingOK(keyTracks', u, pending[u], frames[u])
            /\ PendingOK(keyTracks', t, pending[t], frames[t])
        BY <2>1, <4>3, OwnersGrow DEF AcceptInv
      <4>5. PendingOK(keyTracks', t, after, frames[t])
        <5>1. CASE before.accepted = None /\ authentic
          BY <4>2, <5>1, AuthenticOK DEF PendingOK
        <5>2. CASE ~(before.accepted = None /\ authentic)
          <6>1. after.accepted = before.accepted
            BY <5>2
          <6>2. before.accepted # None => pending[t] # None /\ before = pending[t]
            OBVIOUS
          <6> HIDE DEF before, after
          <6> QED BY <4>4, <6>1, <6>2 DEF PendingOK
        <5> QED BY <5>1, <5>2
      <4> HIDE DEF after
      <4>6. CASE u = t
        BY <3>1, <3>3, <4>4, <4>5, <4>6 DEF TypeOK
      <4>7. CASE u # t
        BY <3>1, <3>3, <4>4, <4>7 DEF TypeOK
      <4> QED BY <4>6, <4>7
    <3> QED BY <3>1, <3>2, <3>3
  <2>5. ASSUME Reconnect \/ Finish
        PROVE  Goal
    <3>1. /\ reports'[u] = FinalizedReports(u)
          /\ pending'[u] = None
          /\ keyTracks' = keyTracks
      BY <2>5 DEF Reconnect, Finish
    <3> QED BY <2>1, <3>1 DEF PendingOK
  <2> HIDE DEF Goal
  <2> QED
    <3>1. CASE \/ \E isV25, negotiated \in BOOLEAN : Begin(isV25, negotiated)
               \/ \E t \in Tracks, csid \in ChunkStreams, payload \in Payloads :
                    CodecConfig(t, csid, payload)
               \/ \E t \in Tracks, csid \in ChunkStreams, store \in Stores :
                    ManifestMetadata(t, csid, store)
               \/ OtherMetadata \/ UNCHANGED vars
      <4>1. UNCHANGED <<keyTracks, reports, pending, frames>>
        BY <3>1 DEF Begin, CodecConfig, ManifestMetadata, OtherMetadata, vars
      <4> QED BY <2>2, <4>1
    <3> QED BY <2>3, <2>4, <2>5, <3>1 DEF Next, Goal
<1> QED BY <1>1, <1>2, TypeInvariant, ConnectionInvariant, BindingInvariant, PTL DEF Spec

\* No session key authenticates segments of two tracks.
THEOREM KeysInvariant == Spec => []OneTrackPerKey
<1>1. AcceptInv => OneTrackPerKey
  BY DEF AcceptInv, ReportsOK, AcceptedOK, OneTrackPerKey, IsValid
<1> QED BY <1>1, AcceptInvariant, PTL

\* A valid report closes the frames its SegmentInfo was authenticated against.
THEOREM FramesInvariant == Spec => []ClosesAuthenticatedFrames
<1>1. AcceptInv => ClosesAuthenticatedFrames
  BY DEF AcceptInv, ReportsOK, AcceptedOK, ClosesAuthenticatedFrames, IsValid
<1> QED BY <1>1, AcceptInvariant, PTL

\* A valid segment spans no reconnection, chunk stream or codec configuration.
THEOREM ConnectionsInvariant == Spec => []SegmentStaysOnConnection
<1>1. AcceptInv => SegmentStaysOnConnection
  BY DEF AcceptInv, ReportsOK, AcceptedOK, SegmentStaysOnConnection, IsValid
<1> QED BY <1>1, AcceptInvariant, PTL

\* A valid segment's manifest matched the initialization data then in force, and its key
\* is one of that manifest's.
THEOREM ManifestsInvariant == Spec => []AcceptedUnderBoundManifest
<1>1. AcceptInv => AcceptedUnderBoundManifest
  BY DEF AcceptInv, ReportsOK, AcceptedOK, AcceptedUnderBoundManifest, IsValid
<1> QED BY <1>1, AcceptInvariant, PTL

-----------------------------------------------------------------------------
(* Coverage.  The closed segments of a track and its open one, in order, are its  *)
(* slots: finalize_pending moves the open frames without touching a slot.         *)

Slot(rs, fs, i) == IF i <= Len(rs) THEN rs[i].frames ELSE fs

\* Frame `id` is the n-th of slot i.
At(rs, fs, i, n, id) ==
    /\ i \in 1..(Len(rs) + 1)
    /\ n \in DOMAIN Slot(rs, fs, i)
    /\ Slot(rs, fs, i)[n].id = id

\* No frame is in two places, and unless a failure was recorded or the call ended
\* early, every frame received is in one; a report without failures left none open.
CoverInv ==
    /\ \A t \in Tracks : \A i, n, id : At(reports[t], frames[t], i, n, id) => id \in 0..(received - 1)
    /\ \A t, u \in Tracks : \A i, j, m, n, id :
          At(reports[t], frames[t], i, n, id) /\ At(reports[u], frames[u], j, m, id)
          => t = u /\ i = j /\ n = m
    /\ phase # "error" /\ failures = {} =>
          \A id \in 0..(received - 1) : \E t \in Tracks : \E i, n : At(reports[t], frames[t], i, n, id)
    /\ phase = "done" /\ failures = {} => \A t \in Tracks : frames[t] = <<>>
    /\ phase = "start" => failures = {}

\* finalize_pending leaves every frame where it is.
LEMMA FinalizeCovers ==
    ASSUME TypeOK, NEW t \in Tracks
    PROVE  \A i, n, id : At(FinalizedReports(t), FinalizedFrames(t), i, n, id)
                         <=> At(reports[t], frames[t], i, n, id)
<1> DEFINE rs == reports[t]
           fs == frames[t]
<1>1. CASE pending[t] = None
  BY <1>1 DEF FinalizedReports, FinalizedFrames
<1>2. CASE pending[t] # None
  <2> DEFINE new == [accepted |-> pending[t].accepted, frames |-> fs]
             q == Append(rs, new)
  <2>1. /\ rs \in Seq(ReportType) /\ fs \in Seq(FrameType) /\ new \in ReportType
        /\ FinalizedReports(t) = q /\ FinalizedFrames(t) = <<>>
        /\ new.frames = fs
    BY <1>2 DEF TypeOK, FinalizedReports, FinalizedFrames, ReportType, PendingType
  <2>2. /\ Len(q) = Len(rs) + 1 /\ Len(rs) \in Nat
        /\ \A i \in 1..Len(rs) : q[i] = rs[i]
        /\ q[Len(rs) + 1] = new
    <3> HIDE DEF rs, new
    <3> QED BY <2>1
  <2> HIDE DEF rs, fs, new, q
  <2>3. ASSUME NEW i, i \in 1..(Len(rs) + 1) PROVE Slot(q, <<>>, i) = Slot(rs, fs, i)
    <3>1. i <= Len(q)
      BY <2>2, <2>3
    <3>2. CASE i <= Len(rs)
      <4>1. i \in 1..Len(rs)
        BY <2>2, <2>3, <3>2
      <4> QED BY <2>2, <3>1, <3>2, <4>1 DEF Slot
    <3>3. CASE ~(i <= Len(rs))
      <4>1. i = Len(rs) + 1
        BY <2>2, <2>3, <3>3
      <4> QED BY <2>1, <2>2, <3>1, <3>3, <4>1 DEF Slot
    <3> QED BY <3>2, <3>3
  <2>4. DOMAIN Slot(q, <<>>, Len(rs) + 2) = {}
    <3>1. ~(Len(rs) + 2 <= Len(q))
      BY <2>2
    <3>2. Slot(q, <<>>, Len(rs) + 2) = <<>>
      BY <3>1 DEF Slot
    <3> QED BY <3>2
  <2>5. \A i : i \in 1..(Len(q) + 1) <=> (i \in 1..(Len(rs) + 1) \/ i = Len(rs) + 2)
    BY <2>2
  <2>6. ASSUME NEW i, NEW n, NEW id PROVE At(q, <<>>, i, n, id) <=> At(rs, fs, i, n, id)
    <3>1. CASE i \in 1..(Len(rs) + 1)
      BY <2>3, <2>5, <3>1, Zenon DEF At
    <3>2. CASE i \notin 1..(Len(rs) + 1)
      BY <2>4, <2>5, <3>2, Zenon DEF At
    <3> QED BY <3>1, <3>2
  <2> QED BY <2>1, <2>6 DEF rs, fs
<1> QED BY <1>1, <1>2

\* A frame pushed onto the open segment takes the next place of it.
LEMMA PushCovers ==
    ASSUME NEW rs \in Seq(ReportType), NEW fs \in Seq(FrameType), NEW f \in FrameType
    PROVE  /\ \A i, n, id : At(rs, fs, i, n, id) => At(rs, Append(fs, f), i, n, id)
           /\ At(rs, Append(fs, f), Len(rs) + 1, Len(fs) + 1, f.id)
           /\ \A i, n, id : At(rs, Append(fs, f), i, n, id) =>
                \/ At(rs, fs, i, n, id)
                \/ i = Len(rs) + 1 /\ n = Len(fs) + 1 /\ id = f.id
<1> DEFINE gs == Append(fs, f)
<1>1. /\ Len(rs) \in Nat /\ Len(fs) \in Nat /\ Len(gs) = Len(fs) + 1
      /\ DOMAIN fs = 1..Len(fs) /\ DOMAIN gs = 1..(Len(fs) + 1)
      /\ \A n \in 1..Len(fs) : gs[n] = fs[n]
      /\ gs[Len(fs) + 1] = f
  OBVIOUS
<1> HIDE DEF gs
<1>2. \A i \in 1..(Len(rs) + 1) : i # Len(rs) + 1 => Slot(rs, gs, i) = Slot(rs, fs, i)
  <2> SUFFICES ASSUME NEW i \in 1..(Len(rs) + 1), i # Len(rs) + 1
               PROVE  Slot(rs, gs, i) = Slot(rs, fs, i)
    OBVIOUS
  <2>1. i <= Len(rs)
    BY <1>1
  <2> QED BY <2>1 DEF Slot
<1>3. Slot(rs, gs, Len(rs) + 1) = gs /\ Slot(rs, fs, Len(rs) + 1) = fs
  <2>1. ~(Len(rs) + 1 <= Len(rs))
    BY <1>1
  <2> QED BY <2>1 DEF Slot
<1>4. /\ \A n \in DOMAIN fs : n \in DOMAIN gs /\ gs[n] = fs[n]
      /\ \A n \in DOMAIN gs : n \in DOMAIN fs \/ n = Len(fs) + 1
      /\ Len(fs) + 1 \in DOMAIN gs
      /\ Len(rs) + 1 \in 1..(Len(rs) + 1)
  BY <1>1
<1>5. ASSUME NEW i, NEW n, NEW id, At(rs, fs, i, n, id) PROVE At(rs, gs, i, n, id)
  <2>1. CASE i = Len(rs) + 1
    BY <1>3, <1>4, <1>5, <2>1, Zenon DEF At
  <2>2. CASE i # Len(rs) + 1
    BY <1>2, <1>5, <2>2, Zenon DEF At
  <2> QED BY <2>1, <2>2
<1>6. At(rs, gs, Len(rs) + 1, Len(fs) + 1, f.id)
  BY <1>1, <1>3, <1>4, Zenon DEF At
<1>7. ASSUME NEW i, NEW n, NEW id, At(rs, gs, i, n, id)
      PROVE  At(rs, fs, i, n, id) \/ (i = Len(rs) + 1 /\ n = Len(fs) + 1 /\ id = f.id)
  <2>1. CASE i = Len(rs) + 1
    <3>1. n \in DOMAIN gs /\ gs[n].id = id
      BY <1>3, <1>7, <2>1, Zenon DEF At
    <3>2. CASE n = Len(fs) + 1
      BY <1>1, <2>1, <3>1, <3>2
    <3>3. CASE n # Len(fs) + 1
      BY <1>3, <1>4, <2>1, <3>1, <3>3, Zenon DEF At
    <3> QED BY <3>2, <3>3
  <2>2. CASE i # Len(rs) + 1
    BY <1>2, <1>7, <2>2, Zenon DEF At
  <2> QED BY <2>1, <2>2
<1> QED BY <1>5, <1>6, <1>7 DEF gs

\* Every place of the closed segments is a place with them and the open one.
LEMMA ClosedCovers ==
    ASSUME NEW rs \in Seq(ReportType), NEW fs, NEW i, NEW n, NEW id
    PROVE  At(rs, <<>>, i, n, id) => At(rs, fs, i, n, id)
<1> SUFFICES ASSUME At(rs, <<>>, i, n, id) PROVE At(rs, fs, i, n, id)
  OBVIOUS
<1>1. CASE i <= Len(rs)
  BY <1>1 DEF At, Slot
<1>2. CASE ~(i <= Len(rs))
  <2>1. n \in DOMAIN <<>>
    BY <1>2 DEF At, Slot
  <2> QED BY <2>1
<1> QED BY <1>1, <1>2

\* Frames keep their places, none has two, and none gets lost without a failure.
LEMMA CoverInvariant == Spec => []CoverInv
<1>1. Init => CoverInv
  <2> SUFFICES ASSUME Init PROVE CoverInv
    OBVIOUS
  <2>1. ASSUME NEW t \in Tracks, NEW i, NEW n, NEW id PROVE ~At(reports[t], frames[t], i, n, id)
    <3>1. reports[t] = <<>> /\ frames[t] = <<>>
      BY DEF Init
    <3>2. i \in 1..(Len(<<>>) + 1) => ~(i <= Len(<<>>))
      OBVIOUS
    <3> QED BY <3>1, <3>2 DEF At, Slot
  <2>2. 0..(received - 1) = {} /\ phase = "start"
    BY DEF Init
  <2> QED BY <2>1, <2>2 DEF CoverInv, Init
<1>2. TypeOK /\ CoverInv /\ [Next]_vars => CoverInv'
  <2> SUFFICES ASSUME TypeOK, CoverInv, [Next]_vars PROVE CoverInv'
    OBVIOUS
  <2>0. received \in Nat /\ \A t \in Tracks : reports[t] \in Seq(ReportType) /\ frames[t] \in Seq(FrameType)
    BY DEF TypeOK
  <2>1. ASSUME UNCHANGED <<frames, reports, received>>,
               phase' # "error" /\ failures' = {} => phase # "error" /\ failures = {},
               phase' = "done" => phase = "done",
               phase' = "start" => failures' = {}
        PROVE  CoverInv'
    <3>1. frames' = frames /\ reports' = reports /\ received' = received
      BY <2>1
    <3>2. /\ \A t \in Tracks : \A i, n, id :
               At(reports'[t], frames'[t], i, n, id) => id \in 0..(received' - 1)
          /\ \A t, u \in Tracks : \A i, j, m, n, id :
               At(reports'[t], frames'[t], i, n, id) /\ At(reports'[u], frames'[u], j, m, id)
               => t = u /\ i = j /\ n = m
      BY <3>1 DEF CoverInv
    <3>3. phase' # "error" /\ failures' = {} =>
            \A id \in 0..(received' - 1) : \E t \in Tracks : \E i, n :
               At(reports'[t], frames'[t], i, n, id)
      BY <2>1, <3>1 DEF CoverInv
    <3>4. phase' = "done" /\ failures' = {} => \A t \in Tracks : frames'[t] = <<>>
      BY <2>1, <3>1 DEF CoverInv
    <3> QED BY <2>1, <3>2, <3>3, <3>4 DEF CoverInv
  <2>2. ASSUME NEW t \in Tracks, NEW csid \in ChunkStreams, NEW timestamp \in Timestamps,
               NEW data \in CodedData, NEW inRange \in BOOLEAN,
               Frame(t, csid, timestamp, data, inRange)
        PROVE  CoverInv'
    <3> DEFINE open == FinalizedFrames(t)
               rs == FinalizedReports(t)
               new == NewFrame(t, csid, timestamp, data)
               stored == inRange /\ configs[t] # None /\ ~(Len(open) >= MaxFrames)
    <3>1. /\ reports' = [reports EXCEPT ![t] = rs]
          /\ frames' = [frames EXCEPT ![t] = IF stored THEN Append(open, new) ELSE open]
          /\ received' = received + 1
          /\ failures' = failures \cup FrameFailures(t, csid, inRange)
          /\ phase = "run"
          /\ phase' # "error" /\ inRange /\ configs[t] # None => stored
          /\ phase' \notin {"done", "start"}
      BY <2>2 DEF Frame, TakeEvent
    <3>2. open \in Seq(FrameType) /\ rs \in Seq(ReportType)
      BY FinalizeType
    <3>3. new.id = received /\ (stored => new \in FrameType)
      BY NewFrameType DEF NewFrame
    <3>4. \A i, n, id : At(rs, open, i, n, id) <=> At(reports[t], frames[t], i, n, id)
      BY FinalizeCovers
    <3>5. /\ reports'[t] = rs /\ frames'[t] = IF stored THEN Append(open, new) ELSE open
          /\ \A u \in Tracks : u # t => reports'[u] = reports[u] /\ frames'[u] = frames[u]
      BY <3>1 DEF TypeOK
    <3> HIDE DEF open, rs, new, stored
    <3> DEFINE New(u, i, n, id) == /\ stored /\ u = t /\ i = Len(rs) + 1 /\ n = Len(open) + 1
                                   /\ id = received
    <3>6. \A u \in Tracks : \A i, n, id :
            At(reports'[u], frames'[u], i, n, id)
            <=> At(reports[u], frames[u], i, n, id) \/ New(u, i, n, id)
      <4> SUFFICES ASSUME NEW u \in Tracks, NEW i, NEW n, NEW id
                   PROVE  At(reports'[u], frames'[u], i, n, id)
                          <=> At(reports[u], frames[u], i, n, id) \/ New(u, i, n, id)
        OBVIOUS
      <4>1. CASE u # t
        BY <3>5, <4>1, Zenon
      <4>2. CASE u = t /\ ~stored
        BY <3>4, <3>5, <4>2, Zenon
      <4>3. CASE u = t /\ stored
        <5>1. reports'[u] = rs /\ frames'[u] = Append(open, new)
          BY <3>5, <4>3
        <5>2. /\ At(rs, open, i, n, id) => At(rs, Append(open, new), i, n, id)
              /\ At(rs, Append(open, new), Len(rs) + 1, Len(open) + 1, new.id)
              /\ At(rs, Append(open, new), i, n, id) =>
                   \/ At(rs, open, i, n, id)
                   \/ i = Len(rs) + 1 /\ n = Len(open) + 1 /\ id = new.id
          BY <3>2, <3>3, <4>3, PushCovers
        <5> QED BY <3>3, <3>4, <4>3, <5>1, <5>2, Zenon
      <4> QED BY <4>1, <4>2, <4>3
    <3>7. /\ \A u \in Tracks : \A i, n, id : At(reports[u], frames[u], i, n, id) => id \in 0..(received - 1)
          /\ received \notin 0..(received - 1)
          /\ \A id \in 0..(received' - 1) : id \in 0..(received - 1) \/ id = received
          /\ received \in 0..(received' - 1)
          /\ \A id \in 0..(received - 1) : id \in 0..(received' - 1)
      <4>1. \A u \in Tracks : \A i, n, id : At(reports[u], frames[u], i, n, id) => id \in 0..(received - 1)
        BY DEF CoverInv
      <4>2. received \in Nat /\ received' = received + 1
        BY <2>0, <3>1
      <4>3. /\ received \notin 0..(received - 1)
            /\ \A id \in 0..(received' - 1) : id \in 0..(received - 1) \/ id = received
            /\ received \in 0..(received' - 1)
            /\ \A id \in 0..(received - 1) : id \in 0..(received' - 1)
        BY <4>2
      <4> QED BY <4>1, <4>3
    <3>8. \A u \in Tracks : \A i, n, id :
            At(reports'[u], frames'[u], i, n, id) => id \in 0..(received' - 1)
      BY <3>6, <3>7, Zenon
    <3>9. \A u, v \in Tracks : \A i, j, m, n, id :
            At(reports'[u], frames'[u], i, n, id) /\ At(reports'[v], frames'[v], j, m, id)
            => u = v /\ i = j /\ n = m
      <4> SUFFICES ASSUME NEW u \in Tracks, NEW v \in Tracks, NEW i, NEW j, NEW m, NEW n, NEW id,
                          At(reports'[u], frames'[u], i, n, id), At(reports'[v], frames'[v], j, m, id)
                   PROVE  u = v /\ i = j /\ n = m
        OBVIOUS
      <4>1. CASE id = received
        <5>1. ~At(reports[u], frames[u], i, n, id) /\ ~At(reports[v], frames[v], j, m, id)
          BY <3>7, <4>1
        <5>2. New(u, i, n, id) /\ New(v, j, m, id)
          BY <3>6, <5>1
        <5> QED BY <5>2
      <4>2. CASE id # received
        <5>1. At(reports[u], frames[u], i, n, id) /\ At(reports[v], frames[v], j, m, id)
          BY <3>6, <4>2, Zenon
        <5>2. \A x, y \in Tracks : \A a, b, c, d, e :
                At(reports[x], frames[x], a, d, e) /\ At(reports[y], frames[y], b, c, e)
                => x = y /\ a = b /\ d = c
          BY DEF CoverInv
        <5> QED BY <5>1, <5>2
      <4> QED BY <4>1, <4>2
    <3>10. ASSUME phase' # "error", failures' = {}
           PROVE  \A id \in 0..(received' - 1) : \E u \in Tracks : \E i, n :
                    At(reports'[u], frames'[u], i, n, id)
      <4>1. failures = {} /\ FrameFailures(t, csid, inRange) = {}
        BY <3>1, <3>10
      <4>2. inRange /\ configs[t] # None
        BY <4>1 DEF FrameFailures
      <4>3. stored
        BY <3>1, <3>10, <4>2
      <4>4. \A id \in 0..(received - 1) : \E u \in Tracks : \E i, n : At(reports[u], frames[u], i, n, id)
        BY <3>1, <4>1 DEF CoverInv
      <4> SUFFICES ASSUME NEW id \in 0..(received' - 1)
                   PROVE  \E u \in Tracks : \E i, n : At(reports'[u], frames'[u], i, n, id)
        OBVIOUS
      <4>5. CASE id = received
        BY <3>6, <4>3, <4>5, Zenon
      <4>6. CASE id # received
        BY <3>6, <3>7, <4>4, <4>6, Zenon
      <4> QED BY <4>5, <4>6
    <3> QED BY <3>1, <3>8, <3>9, <3>10 DEF CoverInv
  <2>3. ASSUME \A t \in Tracks : reports'[t] = FinalizedReports(t),
               \A t \in Tracks : frames'[t] \in {FinalizedFrames(t), <<>>},
               failures' = {} => failures = {} /\ UnclosedTracks = {},
               received' = received, phase = "run", phase' # "start"
        PROVE  CoverInv'
    <3>1. ASSUME NEW t \in Tracks, NEW i, NEW n, NEW id, At(reports'[t], frames'[t], i, n, id)
          PROVE  At(reports[t], frames[t], i, n, id)
      <4>1. At(FinalizedReports(t), FinalizedFrames(t), i, n, id)
        <5>1. CASE frames'[t] = FinalizedFrames(t)
          BY <2>3, <3>1, <5>1, Zenon
        <5>2. CASE frames'[t] = <<>>
          <6>1. At(FinalizedReports(t), <<>>, i, n, id)
            BY <2>3, <3>1, <5>2, Zenon
          <6>2. FinalizedReports(t) \in Seq(ReportType)
            BY FinalizeType
          <6> QED BY <6>1, <6>2, ClosedCovers
        <5> QED BY <2>3, <5>1, <5>2
      <4> QED BY <4>1, FinalizeCovers
    <3>2. ASSUME failures' = {}
          PROVE  /\ \A t \in Tracks : frames'[t] = <<>>
                 /\ \A t \in Tracks : \A i, n, id :
                      At(reports[t], frames[t], i, n, id) => At(reports'[t], frames'[t], i, n, id)
      <4>1. \A t \in Tracks : FinalizedFrames(t) = <<>>
        BY <2>3, <3>2 DEF UnclosedTracks
      <4>2. \A t \in Tracks : frames'[t] = FinalizedFrames(t)
        BY <2>3, <4>1
      <4>3. ASSUME NEW t \in Tracks, NEW i, NEW n, NEW id, At(reports[t], frames[t], i, n, id)
            PROVE  At(reports'[t], frames'[t], i, n, id)
        <5>1. At(FinalizedReports(t), FinalizedFrames(t), i, n, id)
          BY <4>3, FinalizeCovers
        <5> QED BY <2>3, <4>2, <5>1, Zenon
      <4> QED BY <4>1, <4>2, <4>3
    <3>3. \A t \in Tracks : \A i, n, id : At(reports'[t], frames'[t], i, n, id) => id \in 0..(received' - 1)
      <4>1. \A t \in Tracks : \A i, n, id : At(reports[t], frames[t], i, n, id) => id \in 0..(received - 1)
        BY DEF CoverInv
      <4> QED BY <2>3, <3>1, <4>1
    <3>4. \A t, u \in Tracks : \A i, j, m, n, id :
            At(reports'[t], frames'[t], i, n, id) /\ At(reports'[u], frames'[u], j, m, id)
            => t = u /\ i = j /\ n = m
      <4>1. \A t, u \in Tracks : \A i, j, m, n, id :
              At(reports[t], frames[t], i, n, id) /\ At(reports[u], frames[u], j, m, id)
              => t = u /\ i = j /\ n = m
        BY DEF CoverInv
      <4> QED BY <3>1, <4>1
    <3>5. ASSUME failures' = {}
          PROVE  \A id \in 0..(received' - 1) : \E t \in Tracks : \E i, n :
                   At(reports'[t], frames'[t], i, n, id)
      <4>1. \A id \in 0..(received - 1) : \E t \in Tracks : \E i, n : At(reports[t], frames[t], i, n, id)
        BY <2>3, <3>5 DEF CoverInv
      <4> QED BY <2>3, <3>2, <3>5, <4>1, Zenon
    <3> QED BY <2>3, <3>2, <3>3, <3>4, <3>5 DEF CoverInv
  <2>4. ASSUME NEW isV25 \in BOOLEAN, NEW negotiated \in BOOLEAN, Begin(isV25, negotiated)
        PROVE  CoverInv'
    <3>1. /\ UNCHANGED <<frames, reports, received>> /\ phase = "start" /\ failures = {}
          /\ phase' \notin {"done", "start"}
      BY <2>4 DEF Begin, CoverInv
    <3> QED BY <2>1, <3>1
  <2>5. ASSUME NEW t \in Tracks, NEW csid \in ChunkStreams, NEW payload \in Payloads,
               CodecConfig(t, csid, payload)
        PROVE  CoverInv'
    BY <2>1, <2>5 DEF CodecConfig, TakeEvent
  <2>6. ASSUME NEW t \in Tracks, NEW csid \in ChunkStreams, NEW store \in Stores,
               ManifestMetadata(t, csid, store)
        PROVE  CoverInv'
    BY <2>1, <2>6 DEF ManifestMetadata, TakeEvent
  <2>7. ASSUME NEW t \in Tracks, NEW csid \in ChunkStreams, NEW timestamp \in Timestamps,
               NEW info \in SegmentInfos(t), SegmentInfo(t, csid, timestamp, info)
        PROVE  CoverInv'
    <3>1. /\ UNCHANGED <<frames, reports, received>> /\ phase = "run" /\ phase' \in {"error", phase}
          /\ failures' \in {failures, failures \cup {"closesNoFrames"}}
      BY <2>7 DEF SegmentInfo, TakeEvent
    <3> QED BY <2>1, <3>1
  <2>8. CASE Reconnect
    <3>1. /\ \A t \in Tracks : reports'[t] = FinalizedReports(t)
          /\ \A t \in Tracks : frames'[t] = <<>>
          /\ received' = received /\ phase = "run" /\ phase' = "run"
          /\ failures' = IF UnclosedTracks # {} THEN failures \cup {"unclosedAtReconnect"} ELSE failures
      BY <2>8 DEF Reconnect, TakeEvent
    <3> QED BY <2>3, <3>1
  <2>9. CASE Finish
    <3>1. /\ \A t \in Tracks : reports'[t] = FinalizedReports(t)
          /\ \A t \in Tracks : frames'[t] = FinalizedFrames(t)
          /\ received' = received /\ phase = "run" /\ phase' = "done"
          /\ failures' = {} => failures = {} /\ UnclosedTracks = {}
      BY <2>9 DEF Finish
    <3> QED BY <2>3, <3>1
  <2>10. CASE OtherMetadata \/ UNCHANGED vars
    BY <2>1, <2>10 DEF OtherMetadata, vars, CoverInv
  <2> QED BY <2>2, <2>4, <2>5, <2>6, <2>7, <2>8, <2>9, <2>10 DEF Next
<1> QED BY <1>1, <1>2, TypeInvariant, PTL DEF Spec

\* Integrity "valid" of an E-RTMP call means that every coded frame of its input is in
\* exactly one closed and valid segment (Verifier::event, finalize_pending, finish).
THEOREM CoverageInvariant == Spec => []ValidCoversEveryFrame
<1>1. TypeOK /\ CoverInv => ValidCoversEveryFrame
  <2> SUFFICES ASSUME TypeOK, CoverInv, IntegrityValid, NEW id \in 0..(received - 1)
               PROVE  \E t \in Tracks : \E i \in DOMAIN reports[t] : \E n \in DOMAIN reports[t][i].frames :
                        /\ reports[t][i].frames[n].id = id
                        /\ \A u \in Tracks : \A j \in DOMAIN reports[u] :
                             \A m \in DOMAIN reports[u][j].frames :
                                reports[u][j].frames[m].id = id => <<u, j, m>> = <<t, i, n>>
    BY DEF ValidCoversEveryFrame
  <2>1. /\ \A t \in Tracks : frames[t] = <<>>
        /\ \A t \in Tracks : Len(reports[t]) \in Nat /\ DOMAIN reports[t] = 1..Len(reports[t])
    BY DEF CoverInv, IntegrityValid, TypeOK
  <2>2. PICK t \in Tracks : \E i, n : At(reports[t], frames[t], i, n, id)
    BY DEF CoverInv, IntegrityValid
  <2>3. PICK i, n : At(reports[t], frames[t], i, n, id)
    BY <2>2
  <2>4. i <= Len(reports[t])
    <3> SUFFICES ASSUME ~(i <= Len(reports[t])) PROVE FALSE
      OBVIOUS
    <3>1. n \in DOMAIN <<>>
      BY <2>1, <2>3 DEF At, Slot
    <3> QED BY <3>1
  <2>5. i \in DOMAIN reports[t]
    BY <2>1, <2>3, <2>4 DEF At
  <2>6. n \in DOMAIN reports[t][i].frames /\ reports[t][i].frames[n].id = id
    BY <2>3, <2>4 DEF At, Slot
  <2>7. ASSUME NEW u \in Tracks, NEW j \in DOMAIN reports[u], NEW m \in DOMAIN reports[u][j].frames,
               reports[u][j].frames[m].id = id
        PROVE  u = t /\ j = i /\ m = n
    <3>1. j \in 1..(Len(reports[u]) + 1) /\ j <= Len(reports[u])
      BY <2>1
    <3>2. At(reports[u], frames[u], j, m, id)
      BY <2>7, <3>1 DEF At, Slot
    <3>3. \A v, w \in Tracks : \A a, b, c, d, e :
            At(reports[v], frames[v], a, d, e) /\ At(reports[w], frames[w], b, c, e)
            => v = w /\ a = b /\ d = c
      BY DEF CoverInv
    <3> QED BY <2>3, <3>2, <3>3
  <2> QED BY <2>5, <2>6, <2>7
<1> QED BY <1>1, TypeInvariant, CoverInvariant, PTL

-----------------------------------------------------------------------------
(***************************************************************************)
(* The wire decoder.  The order of the argument: what numbers, packets and *)
(* the sum of capacities are; the inductive invariant WireInv; that a      *)
(* round of decode keeps the decoder's part of it, whatever the chunk;     *)
(* that a publisher's chunk is read as it was written and keeps publisher  *)
(* and decoder in step; that a stray chunk is refused or belongs to the    *)
(* message in progress.                                                    *)
(***************************************************************************)

-----------------------------------------------------------------------------
(* Numbers.                                                                *)

\* A set of numbers that is not empty has a least member.
LEMMA LeastNat ==
    ASSUME NEW T \in SUBSET Nat, T # {}
    PROVE  \E n \in T : \A m \in T : n <= m
<1>1. PICK x \in T : \A y \in T : ~(<<y, x>> \in OpToRel(<, Nat))
  BY NatLessThanWellFounded, WFMin, Zenon
<1>2. \A y \in T : ~(y < x)
  BY <1>1, Zenon DEF OpToRel
<1> QED
  BY <1>2

\* A set that holds 0, and n + 1 whenever it holds n, holds every number up to
\* the bound.
LEMMA CountingUp ==
    ASSUME NEW S, NEW N \in Nat, 0 \in S, \A i \in 0..(N - 1) : i \in S => i + 1 \in S
    PROVE  \A i \in 0..N : i \in S
<1> SUFFICES ASSUME (0..N) \ S # {} PROVE FALSE
  OBVIOUS
<1> DEFINE T == (0..N) \ S
<1>1. T \in SUBSET Nat /\ T # {}
  OBVIOUS
<1>2. PICK i \in T : \A m \in T : i <= m
  <2> HIDE DEF T
  <2> QED
    BY <1>1, LeastNat
<1> QED
  BY <1>2

\* f is built up to n, each value from the one before.
Built(f, n, base, step) == f[0] = base /\ \A i \in 1..n : f[i] = step[i][f[i - 1]]

\* A function on 0..N may be given by its first value and a step.
LEMMA StepByStep ==
    ASSUME NEW P, NEW N \in Nat, NEW base \in P, NEW step \in [1..N -> [P -> P]]
    PROVE  \E f \in [0..N -> P] : Built(f, N, base, step)
<1> DEFINE S == {n \in 0..N : \E f \in [0..N -> P] : Built(f, n, base, step)}
<1>1. 0 \in S
  <2> DEFINE f == [i \in 0..N |-> base]
  <2>1. f \in [0..N -> P] /\ Built(f, 0, base, step)
    BY DEF Built
  <2> QED
    BY <2>1
<1>2. ASSUME NEW n \in 0..(N - 1), n \in S PROVE n + 1 \in S
  <2>1. PICK f \in [0..N -> P] : Built(f, n, base, step)
    BY <1>2
  <2>2. n \in 0..N /\ n + 1 \in 0..N /\ n + 1 \in 1..N
    OBVIOUS
  <2>3. step[n + 1][f[n]] \in P
    BY <2>2
  <2> DEFINE g == [f EXCEPT ![n + 1] = step[n + 1][f[n]]]
  <2>4. g \in [0..N -> P] /\ g[n + 1] = step[n + 1][f[n]] /\ \A i \in 0..n : g[i] = f[i]
    BY <2>2, <2>3
  <2> HIDE DEF g
  <2>5. ASSUME NEW i \in 1..(n + 1) PROVE g[i] = step[i][g[i - 1]]
    <3>1. i - 1 \in 0..n /\ (i \in 1..n \/ i = n + 1)
      OBVIOUS
    <3>2. CASE i \in 1..n
      <4>1. f[i] = step[i][f[i - 1]]
        BY <2>1, <3>2 DEF Built
      <4>2. g[i] = f[i] /\ g[i - 1] = f[i - 1]
        BY <2>4, <3>1, <3>2
      <4> QED
        BY <4>1, <4>2
    <3>3. CASE i = n + 1
      <4>1. i - 1 = n /\ g[n] = f[n]
        BY <2>4, <3>3
      <4> QED
        BY <2>4, <3>3, <4>1
    <3> QED
      BY <3>1, <3>2, <3>3
  <2>6. Built(g, n + 1, base, step)
    BY <2>1, <2>4, <2>5 DEF Built
  <2> QED
    BY <2>2, <2>4, <2>6
<1>3. N \in S
  <2> HIDE DEF S
  <2>1. N \in 0..N
    OBVIOUS
  <2> QED
    BY <1>1, <1>2, <2>1, CountingUp
<1> QED
  BY <1>3

\* What % does to a number within two laps.
LEMMA Laps ==
    ASSUME NEW W \in Nat, W > 0, NEW x \in 0..(2 * W - 1)
    PROVE  x % W = IF x < W THEN x ELSE x - W
  OBVIOUS

\* wrapping_add gives a time stamp.
LEMMA PlusIs ==
    ASSUME NEW a \in Moments, NEW b \in Moments
    PROVE  Plus(a, b) \in Moments /\ Plus(a, b) = IF a + b < Wrap THEN a + b ELSE a + b - Wrap
<1>1. Wrap \in Nat /\ Wrap > 0 /\ a \in 0..(Wrap - 1) /\ b \in 0..(Wrap - 1)
  BY WireAssumption DEF Moments
<1>2. a + b \in 0..(2 * Wrap - 1)
  BY <1>1
<1>3. (a + b) % Wrap = IF a + b < Wrap THEN a + b ELSE (a + b) - Wrap
  BY <1>1, <1>2, Laps
<1> QED
  BY <1>1, <1>3 DEF Plus, Moments

LEMMA SinceIs ==
    ASSUME NEW a \in Moments, NEW b \in Moments
    PROVE  Since(a, b) \in Moments /\ Since(a, b) = IF a < b THEN a - b + Wrap ELSE a - b
<1>1. Wrap \in Nat /\ Wrap > 0 /\ a \in 0..(Wrap - 1) /\ b \in 0..(Wrap - 1)
  BY WireAssumption DEF Moments
<1>2. a - b + Wrap \in 0..(2 * Wrap - 1)
  BY <1>1
<1>3. (a - b + Wrap) % Wrap = IF a - b + Wrap < Wrap THEN a - b + Wrap ELSE (a - b + Wrap) - Wrap
  BY <1>1, <1>2, Laps
<1> QED
  BY <1>1, <1>3 DEF Since, Moments

\* The decoder finds the time stamp that the publisher took the delta of, also when
\* the clock wrapped between them; and only a delta of 0 leaves it where it was.
LEMMA DeltasAdd ==
    ASSUME NEW a \in Moments, NEW b \in Moments
    PROVE  Plus(b, Since(a, b)) = a /\ (Plus(a, b) = a => b = 0)
<1>1. Wrap \in Nat /\ a \in 0..(Wrap - 1) /\ b \in 0..(Wrap - 1)
  BY WireAssumption DEF Moments
<1>2. Since(a, b) \in Moments /\ Since(a, b) = IF a < b THEN a - b + Wrap ELSE a - b
  BY SinceIs
<1> DEFINE s == Since(a, b)
<1>3. Plus(b, s) = IF b + s < Wrap THEN b + s ELSE b + s - Wrap
  <2> HIDE DEF s
  <2> QED
    BY <1>2, PlusIs DEF s
<1>4. Plus(a, b) = IF a + b < Wrap THEN a + b ELSE a + b - Wrap
  BY PlusIs
<1> QED
  BY <1>1, <1>2, <1>3, <1>4

-----------------------------------------------------------------------------
(* What the parsers of a message leave.                                    *)

AllPackets == UNION {PacketsOf(x) : x \in Messages \cup Tags}
EventType == [kind : {p.kind : p \in AllPackets} \cup {"reconnect"},
              track : PacketTracks \cup {None}, csid : Nat \cup {None}, time : Nat,
              stream : Nat \cup {None}]
Sinks == {s \in Seq(EventType) : Len(s) <= MaxSinkEvents}
Bindings == [PacketTracks -> Nat \cup {None}]
PacketDefects == {"bad packet", "track on two streams", "too many events"}
Outs == [bindings : Bindings, events : Sinks, why : PacketDefects \cup {"none"}]

LEMMA SinkGrows ==
    ASSUME NEW s \in Sinks, Len(s) < MaxSinkEvents, NEW e \in EventType
    PROVE  Append(s, e) \in Sinks
<1>1. s \in Seq(EventType) /\ Len(s) \in Nat
  BY DEF Sinks
<1>2. Append(s, e) \in Seq(EventType) /\ Len(Append(s, e)) = Len(s) + 1
  BY <1>1
<1> QED
  BY <1>1, <1>2, WireAssumption DEF Sinks

LEMMA PacketIs ==
    ASSUME NEW out \in Outs, NEW p \in AllPackets, NEW time \in Moments, NEW csid \in Nat,
           NEW stream \in Nat \cup {None}, p.offset \in Moments
    PROVE  Packet(out, p, time, csid, stream) \in Outs
<1> DEFINE at == Plus(time, p.offset)
           e == [kind |-> p.kind, track |-> p.track, csid |-> csid, time |-> at,
                 stream |-> stream]
           bound == IF stream = None THEN out ELSE [out EXCEPT !.bindings[p.track] = stream]
<1>1. at \in Nat
  BY PlusIs, WireAssumption DEF Moments
<1>2. p.track \in PacketTracks
  BY DEF PacketTracks, AllPackets
<1>3. e \in EventType
  BY <1>1, <1>2 DEF EventType
<1>4. bound \in Outs /\ bound.events = out.events
  <2>1. CASE stream = None
    BY <2>1
  <2>2. CASE stream # None
    <3>1. [out.bindings EXCEPT ![p.track] = stream] \in Bindings
      BY <1>2, <2>2 DEF Outs, Bindings
    <3>2. bound = [out EXCEPT !.bindings = [out.bindings EXCEPT ![p.track] = stream]]
      BY <2>2
    <3> QED
      BY <3>1, <3>2 DEF Outs
  <2> QED
    BY <2>1, <2>2
<1>5. ASSUME ~(Len(out.events) >= MaxSinkEvents)
      PROVE  [bound EXCEPT !.events = Append(@, e)] \in Outs
  <2>1. out.events \in Sinks /\ Len(out.events) \in Nat
    BY DEF Outs, Sinks
  <2>2. Len(out.events) < MaxSinkEvents
    BY <1>5, <2>1, WireAssumption
  <2>3. Append(out.events, e) \in Sinks
    <3> HIDE DEF e
    <3> QED
      BY <1>3, <2>1, <2>2, SinkGrows
  <2>4. [bound EXCEPT !.events = Append(@, e)] = [bound EXCEPT !.events = Append(out.events, e)]
    BY <1>4
  <2> HIDE DEF bound, e
  <2> QED
    BY <1>4, <2>3, <2>4 DEF Outs
<1>6. [bound EXCEPT !.why = "too many events"] \in Outs
  <2> HIDE DEF bound
  <2> QED
    BY <1>4 DEF Outs, PacketDefects
<1>7. /\ [out EXCEPT !.why = "bad packet"] \in Outs
      /\ [out EXCEPT !.why = "track on two streams"] \in Outs
  BY DEF Outs, PacketDefects
<1>8. \/ Packet(out, p, time, csid, stream) = out
      \/ Packet(out, p, time, csid, stream) = [out EXCEPT !.why = "bad packet"]
      \/ Packet(out, p, time, csid, stream) = [out EXCEPT !.why = "track on two streams"]
      \/ Packet(out, p, time, csid, stream) = bound
      \/ Packet(out, p, time, csid, stream) = [bound EXCEPT !.why = "too many events"]
      \/ /\ ~(Len(out.events) >= MaxSinkEvents)
         /\ Packet(out, p, time, csid, stream) = [bound EXCEPT !.events = Append(@, e)]
  BY Zenon DEF Packet
<1> HIDE DEF bound, e
<1> QED
  BY <1>4, <1>5, <1>6, <1>7, <1>8

\* The packets of a message or a tag, one after the other
LEMMA ParsedIs ==
    ASSUME bindings \in Bindings, sink \in Sinks, NEW x \in Messages \cup Tags,
           NEW time \in Moments, NEW csid \in Nat, NEW stream \in Nat \cup {None}
    PROVE  Parsed(x.packets, time, csid, stream) \in Outs
<1> DEFINE L == Len(x.packets)
           base == [bindings |-> bindings, events |-> sink, why |-> "none"]
           Step(n, o) == Packet(o, x.packets[n], time, csid, stream)
           F(g) == [n \in 0..L |-> IF n = 0 THEN base ELSE Step(n, g[n - 1])]
           step == [n \in 1..L |-> [o \in Outs |-> Step(n, o)]]
<1>1. L \in Nat /\ DOMAIN x.packets = 1..L
  BY StreamAssumption
<1>2. base \in Outs
  BY DEF Outs
<1>3. \A n \in 1..L : x.packets[n] \in AllPackets /\ x.packets[n].offset \in Moments
  BY <1>1, StreamAssumption DEF AllPackets, PacketsOf, Range
<1>4. \A n \in 1..L, o \in Outs : Step(n, o) \in Outs
  BY <1>3, PacketIs
<1>5. Parsed(x.packets, time, csid, stream) = (CHOOSE g : g = F(g))[L]
  BY DEF Parsed
<1> HIDE DEF L, base, Step
<1>6. step \in [1..L -> [Outs -> Outs]]
  BY <1>4
<1>7. PICK f \in [0..L -> Outs] : Built(f, L, base, step)
  <2> HIDE DEF step
  <2> QED
    BY <1>1, <1>2, <1>6, StepByStep
<1>8. f = F(f)
  <2>1. ASSUME NEW n \in 0..L PROVE f[n] = IF n = 0 THEN base ELSE Step(n, f[n - 1])
    <3>1. CASE n = 0
      BY <1>7, <3>1 DEF Built
    <3>2. CASE n # 0
      <4>1. n \in 1..L /\ n - 1 \in 0..L
        BY <1>1, <3>2
      <4>2. f[n] = step[n][f[n - 1]]
        BY <1>7, <4>1 DEF Built
      <4> QED
        BY <3>2, <4>1, <4>2
    <3> QED
      BY <3>1, <3>2
  <2> QED
    BY <2>1
<1> DEFINE h == CHOOSE g : g = F(g)
<1>9. h = F(h)
  <2> HIDE DEF F
  <2> QED
    BY <1>8
<1> HIDE DEF h
<1>10. \A n \in 0..L : n \in {i \in 0..L : h[i] \in Outs}
  <2> DEFINE S == {i \in 0..L : h[i] \in Outs}
  <2>1. 0 \in S
    <3>1. 0 \in 0..L /\ h[0] = F(h)[0]
      BY <1>1, <1>9
    <3> QED
      BY <1>2, <3>1
  <2>2. ASSUME NEW n \in 0..(L - 1), n \in S PROVE n + 1 \in S
    <3>1. n + 1 \in 0..L /\ n + 1 \in 1..L /\ n + 1 # 0 /\ (n + 1) - 1 = n
      BY <1>1
    <3>2. h[n + 1] = F(h)[n + 1]
      BY <1>9
    <3>3. F(h)[n + 1] = Step(n + 1, h[n])
      BY <3>1
    <3> QED
      BY <1>4, <2>2, <3>1, <3>2, <3>3
  <2> HIDE DEF S
  <2>3. \A n \in 0..L : n \in S
    BY <1>1, <2>1, <2>2, CountingUp
  <2> QED
    BY <2>3 DEF S
<1> QED
  BY <1>1, <1>5, <1>10 DEF h

-----------------------------------------------------------------------------
(* The sum of the capacities.                                              *)

Room(am) ==
    [n \in 1..MaxCsid |-> IF n \in Csids /\ am[n] # None THEN am[n].capacity ELSE 0]
Rooms == [1..MaxCsid -> Int]

\* s is the sum of the capacities, chunk stream by chunk stream.
Sums(s, room) ==
    /\ s \in [0..MaxCsid -> Int]
    /\ s[0] = 0
    /\ \A n \in 1..MaxCsid : s[n] = s[n - 1] + room[n]

LEMMA HeldIs ==
    ASSUME NEW am, NEW room \in Rooms, room = Room(am)
    PROVE  \E s : Sums(s, room) /\ Held(am) = s[MaxCsid]
<1> DEFINE L == MaxCsid
           Step(n, v) == v + room[n]
           F(g) == [n \in 0..L |-> IF n = 0 THEN 0 ELSE Step(n, g[n - 1])]
           step == [n \in 1..L |-> [v \in Int |-> Step(n, v)]]
<1>1. L \in Nat
  BY WireAssumption
<1>2. ASSUME NEW n \in 1..L, NEW v \in Int PROVE Step(n, v) \in Int
  <2>1. room[n] \in Int
    BY DEF Rooms
  <2> QED
    BY <2>1
<1> DEFINE G(g) == [n \in 0..L |-> IF n = 0 THEN 0
              ELSE g[n - 1] + (IF n \in Csids /\ am[n] # None THEN am[n].capacity ELSE 0)]
<1>3. Held(am) = (CHOOSE g : g = G(g))[L]
  BY DEF Held
<1>4. ASSUME NEW g PROVE G(g) = F(g)
  <2>1. ASSUME NEW n \in 0..L, n # 0
        PROVE  room[n] = IF n \in Csids /\ am[n] # None THEN am[n].capacity ELSE 0
    <3>1. n \in 1..MaxCsid
      BY <1>1, <2>1
    <3> QED
      BY <3>1 DEF Room
  <2> QED
    BY <2>1, Zenon
<1>5. Held(am) = (CHOOSE g : g = F(g))[L]
  BY <1>3, <1>4, Zenon
<1> HIDE DEF G
<1> HIDE DEF L, Step
<1>6. step \in [1..L -> [Int -> Int]]
  BY <1>2
<1>7. PICK f \in [0..L -> Int] : Built(f, L, 0, step)
  <2> HIDE DEF step
  <2>1. 0 \in Int
    OBVIOUS
  <2> QED
    BY <1>1, <1>6, <2>1, StepByStep
<1>8. f = F(f)
  <2>1. ASSUME NEW n \in 0..L PROVE f[n] = IF n = 0 THEN 0 ELSE Step(n, f[n - 1])
    <3>1. CASE n = 0
      BY <1>7, <3>1 DEF Built
    <3>2. CASE n # 0
      <4>1. n \in 1..L /\ n - 1 \in 0..L
        BY <1>1, <3>2
      <4>2. f[n] = step[n][f[n - 1]]
        BY <1>7, <4>1 DEF Built
      <4> QED
        BY <3>2, <4>1, <4>2
    <3> QED
      BY <3>1, <3>2
  <2> QED
    BY <2>1
<1> DEFINE h == CHOOSE g : g = F(g)
<1>9. h = F(h)
  <2> HIDE DEF F
  <2> QED
    BY <1>8
<1> HIDE DEF h
<1>10. \A n \in 0..L : n \in {i \in 0..L : h[i] \in Int}
  <2> DEFINE S == {i \in 0..L : h[i] \in Int}
  <2>1. 0 \in S
    <3>1. 0 \in 0..L /\ h[0] = F(h)[0]
      BY <1>1, <1>9
    <3> QED
      BY <3>1
  <2>2. ASSUME NEW n \in 0..(L - 1), n \in S PROVE n + 1 \in S
    <3>1. n + 1 \in 0..L /\ n + 1 \in 1..L /\ n + 1 # 0 /\ (n + 1) - 1 = n
      BY <1>1
    <3>2. h[n + 1] = F(h)[n + 1]
      BY <1>9
    <3>3. F(h)[n + 1] = Step(n + 1, h[n])
      BY <3>1
    <3> QED
      BY <1>2, <2>2, <3>1, <3>2, <3>3
  <2> HIDE DEF S
  <2>3. \A n \in 0..L : n \in S
    BY <1>1, <2>1, <2>2, CountingUp
  <2> QED
    BY <2>3 DEF S
<1>11. h \in [0..L -> Int] /\ h[0] = 0
  <2>1. h = [n \in 0..L |-> h[n]]
    BY <1>9
  <2>2. 0 \in 0..L /\ h[0] = F(h)[0]
    BY <1>1, <1>9
  <2> QED
    BY <1>10, <2>1, <2>2
<1>12. ASSUME NEW n \in 1..L PROVE h[n] = h[n - 1] + room[n]
  <2>1. n \in 0..L /\ n # 0 /\ h[n] = F(h)[n]
    BY <1>1, <1>9
  <2> QED
    BY <2>1 DEF Step
<1>13. Sums(h, room) /\ Held(am) = h[L]
  BY <1>5, <1>11, <1>12 DEF Sums, L, h
<1> QED
  BY <1>13 DEF L

\* Nothing is held when no message is unfinished.
LEMMA HeldNothing ==
    ASSUME NEW am, \A c \in Csids : am[c] = None PROVE Held(am) = 0
<1> DEFINE room == Room(am)
<1>1. room \in Rooms /\ \A n \in 1..MaxCsid : room[n] = 0
  BY DEF Room, Rooms
<1> HIDE DEF room
<1>3. PICK s : Sums(s, room) /\ Held(am) = s[MaxCsid]
  BY <1>1, HeldIs DEF room
<1> DEFINE S == {n \in 0..MaxCsid : s[n] = 0}
<1>4. MaxCsid \in Nat /\ MaxCsid \in 0..MaxCsid
  BY WireAssumption
<1>5. 0 \in S
  BY <1>3, <1>4 DEF Sums
<1>6. ASSUME NEW n \in 0..(MaxCsid - 1), n \in S PROVE n + 1 \in S
  <2>1. n + 1 \in 1..MaxCsid /\ (n + 1) - 1 = n /\ n + 1 \in 0..MaxCsid
    BY <1>4
  <2>2. s[n + 1] = s[n] + room[n + 1]
    BY <1>3, <2>1 DEF Sums
  <2>3. room[n + 1] = 0 /\ s[n] = 0
    BY <1>1, <1>6, <2>1
  <2> QED
    BY <2>1, <2>2, <2>3
<1> HIDE DEF S
<1>7. MaxCsid \in S
  BY <1>4, <1>5, <1>6, CountingUp
<1> QED
  BY <1>3, <1>7 DEF S

\* The rooms x and y differ at c, and the sums am and bm with them.
Shifted(am, bm, x, y, c) == Held(am) \in Int /\ Held(bm) = Held(am) + (y[c] - x[c])

\* One chunk stream's message changes, and the sum with it.
LEMMA HeldChanges ==
    ASSUME NEW am, NEW bm, NEW c \in Csids, NEW x \in Rooms, NEW y \in Rooms,
           x = Room(am), y = Room(bm), \A n \in Csids : n # c => am[n] = bm[n]
    PROVE  Shifted(am, bm, x, y, c)
<1>1. PICK s : Sums(s, x) /\ Held(am) = s[MaxCsid]
  BY HeldIs
<1>2. PICK r : Sums(r, y) /\ Held(bm) = r[MaxCsid]
  BY HeldIs
<1>3. MaxCsid \in Nat /\ MaxCsid \in 0..MaxCsid /\ c \in 1..MaxCsid /\ c <= MaxCsid
      /\ 0 \in 0..MaxCsid
  BY WireAssumption
<1>4. x[c] \in Int /\ y[c] \in Int
  BY <1>3 DEF Rooms
<1> DEFINE d == y[c] - x[c]
           S == {n \in 0..MaxCsid : r[n] = s[n] + (IF n < c THEN 0 ELSE d)}
<1>5. d \in Int
  BY <1>4
<1>6. 0 \in S
  BY <1>1, <1>2, <1>3 DEF Sums
<1>7. ASSUME NEW n \in 0..(MaxCsid - 1), n \in S PROVE n + 1 \in S
  <2>1. /\ n + 1 \in 1..MaxCsid /\ (n + 1) - 1 = n /\ n + 1 \in 0..MaxCsid
        /\ n \in 0..MaxCsid
    BY <1>3
  <2>2. s[n + 1] = s[n] + x[n + 1] /\ r[n + 1] = r[n] + y[n + 1]
    BY <1>1, <1>2, <2>1 DEF Sums
  <2>3. s[n] \in Int /\ r[n] \in Int
    BY <1>1, <1>2, <2>1 DEF Sums
  <2>4. x[n + 1] \in Int /\ y[n + 1] \in Int
    BY <2>1 DEF Rooms
  <2>5. n + 1 # c => x[n + 1] = y[n + 1]
    BY <2>1 DEF Room
  <2>6. r[n] = s[n] + (IF n < c THEN 0 ELSE d)
    BY <1>7
  <2> SUFFICES r[n + 1] = s[n + 1] + (IF n + 1 < c THEN 0 ELSE d)
    BY <2>1
  <2>7. CASE n + 1 = c
    <3>1. n < c /\ ~(n + 1 < c)
      BY <1>3, <2>7
    <3>2. r[n] = s[n]
      <4> HIDE DEF d
      <4> QED
        BY <2>3, <2>6, <3>1
    <3> QED
      BY <1>4, <2>2, <2>3, <2>7, <3>1, <3>2
  <2>8. CASE n + 1 # c
    <3>1. n + 1 < c <=> n < c
      BY <1>3, <2>1, <2>8
    <3>2. x[n + 1] = y[n + 1]
      BY <2>5, <2>8
    <3> HIDE DEF d
    <3> QED
      BY <1>5, <2>2, <2>3, <2>4, <2>6, <3>1, <3>2
  <2> QED
    BY <2>7, <2>8
<1> HIDE DEF S
<1>8. MaxCsid \in S
  BY <1>3, <1>6, <1>7, CountingUp
<1>9. r[MaxCsid] = s[MaxCsid] + d
  <2>1. ~(MaxCsid < c)
    BY <1>3
  <2> QED
    BY <1>8, <2>1 DEF S
<1>10. s[MaxCsid] \in Int
  BY <1>1, <1>3 DEF Sums
<1> QED
  BY <1>1, <1>2, <1>9, <1>10 DEF Shifted

\* Capacities are no less than 0, and neither is their sum.
LEMMA HeldIsNat ==
    ASSUME NEW am, NEW x \in [1..MaxCsid -> Nat], x = Room(am)
    PROVE  Held(am) \in Nat
<1>1. x \in Rooms
  BY DEF Rooms
<1>2. PICK s : Sums(s, x) /\ Held(am) = s[MaxCsid]
  BY <1>1, HeldIs
<1> DEFINE S == {n \in 0..MaxCsid : s[n] \in Nat}
<1>3. MaxCsid \in Nat /\ MaxCsid \in 0..MaxCsid
  BY WireAssumption
<1>4. 0 \in S
  BY <1>2, <1>3 DEF Sums
<1>5. ASSUME NEW n \in 0..(MaxCsid - 1), n \in S PROVE n + 1 \in S
  <2>1. n + 1 \in 1..MaxCsid /\ (n + 1) - 1 = n /\ n + 1 \in 0..MaxCsid
    BY <1>3
  <2>2. s[n + 1] = s[n] + x[n + 1]
    BY <1>2, <2>1 DEF Sums
  <2>3. x[n + 1] \in Nat /\ s[n] \in Nat
    BY <1>5, <2>1
  <2> QED
    BY <2>1, <2>2, <2>3
<1> HIDE DEF S
<1>6. MaxCsid \in S
  BY <1>3, <1>4, <1>5, CountingUp
<1> QED
  BY <1>2, <1>6 DEF S

-----------------------------------------------------------------------------
(* The inductive invariant.                                                *)

\* A payload whose bytes are all of one message
Uniform(payload) == \E n \in Nat : \A i \in DOMAIN payload : payload[i] = n
Deliveries == [csid : Csids, time : Moments, type : Types, stream : Nat,
               payload : {p \in Seq(Nat) : Uniform(p)}]

\* An assembly holds what it received, and what it keeps it has room for.
Sound(a) ==
    /\ a \in Assemblies
    /\ a.received <= a.header.length
    /\ a.capacity <= a.header.length
    /\ Len(a.payload) = a.received
    /\ Retained(a.header.type) => Len(a.payload) <= a.capacity
Unfinished(a) == Sound(a) /\ a.received < a.header.length

\* The decoder on its own, whatever it was given
DecoderInv ==
    /\ chunkSize \in 1..MaxChunkSize
    /\ headers \in [Csids -> HeaderType \cup {None}]
    /\ assembly \in [Csids -> Assemblies \cup {None}]
    /\ \A c \in Csids : assembly[c] # None => headers[c] # None /\ Unfinished(assembly[c])
    /\ buffered = Held(assembly)
    /\ buffered <= MaxBuffered
    /\ bindings \in Bindings
    /\ sink \in Sinks
    /\ delivered \in Seq(Deliveries)

\* What a header of a publisher says of itself
Sensible(h) ==
    /\ h.extended <=> h.delta >= Marker
    /\ h.absolute => h.time = h.delta

\* The message w is written as far as the assembly a has received it.
InStep(w, a, h) ==
    /\ w \in Writings
    /\ w.header = h
    /\ a.header = h
    /\ h.length = w.message.length
    /\ h.type = w.message.type
    /\ h.stream = w.message.stream
    /\ w.left = h.length - a.received
    /\ \A i \in DOMAIN a.payload : a.payload[i] = w.number

\* Publisher and decoder have the same view of every chunk stream.
Agreement ==
    /\ pSize = chunkSize
    /\ pHeaders = headers
    /\ pLeft \in [Csids -> Writings \cup {None}]
    /\ \A c \in Csids : headers[c] # None => Sensible(headers[c])
    /\ \A c \in Csids : assembly[c] = None => pLeft[c] = None
    /\ \A c \in Csids : assembly[c] # None => InStep(pLeft[c], assembly[c], headers[c])
    /\ delivered = completed

StatusInv ==
    /\ mode \in {"rtmp", "flv"}
    /\ status \in {"open", "refused", "accepted"}
    /\ status = "refused" <=> why # "none"
    /\ connection \in 1..MaxConnections
    /\ sent \in 0..MaxSent
    /\ conforming \in BOOLEAN

WireInv ==
    /\ StatusInv
    /\ DecoderInv
    /\ status = "open" /\ conforming => Agreement
    /\ ConformingStreamIsDelivered

-----------------------------------------------------------------------------
(* One chunk.                                                              *)

LEMMA CsidIs ==
    ASSUME NEW c \in Csids PROVE c \in Nat
  BY WireAssumption

LEMMA ValueIs ==
    ASSUME NEW chunk \in Chunks, chunk.raw = Marker => chunk.ext # None
    PROVE  Value(chunk) \in Moments
<1>1. chunk.raw \in 0..Marker /\ chunk.ext \in Moments \cup {None}
  BY DEF Chunks
<1>2. chunk.raw \in Moments
  BY <1>1, WireAssumption DEF Moments
<1> QED
  BY <1>1, <1>2 DEF Value

\* The header of a chunk that is not refused for it
LEMMA HeaderIs ==
    ASSUME NEW chunk \in Chunks, NEW prior \in HeaderType \cup {None}, NEW on \in BOOLEAN,
           NEW h, h = Header(chunk, prior, on), chunk.fmt # 0 => prior # None,
           h.extended = (chunk.ext # None), h.length <= MaxMessage, h.type \in Types
    PROVE  h \in HeaderType
<1> DEFINE v == Value(chunk)
           e == chunk.raw = Marker
<1>1. /\ chunk.fmt \in 0..3 /\ chunk.length \in Nat /\ chunk.stream \in Nat
      /\ e \in BOOLEAN
  BY DEF Chunks
<1>2. ASSUME chunk.fmt # 3 PROVE v \in Moments
  <2>1. h.extended = (chunk.raw = Marker)
    <3>1. CASE chunk.fmt = 0
      BY <3>1 DEF Header
    <3>2. CASE chunk.fmt = 1
      <4>1. h = [prior EXCEPT !.time = Plus(prior.time, v), !.delta = v, !.length = chunk.length,
                  !.type = chunk.type, !.extended = e, !.absolute = FALSE]
        BY <3>2 DEF Header
      <4> HIDE DEF v, e
      <4>2. h.extended = e
        BY <3>2, <4>1 DEF HeaderType
      <4> QED
        BY <4>2 DEF e
    <3>3. CASE chunk.fmt = 2
      <4>1. h = [prior EXCEPT !.time = Plus(prior.time, v), !.delta = v, !.extended = e,
                  !.absolute = FALSE]
        BY <3>3 DEF Header
      <4> HIDE DEF v, e
      <4>2. h.extended = e
        BY <3>3, <4>1 DEF HeaderType
      <4> QED
        BY <4>2 DEF e
    <3> QED
      BY <1>1, <1>2, <3>1, <3>2, <3>3
  <2>2. chunk.raw = Marker => chunk.ext # None
    BY <2>1
  <2> QED
    BY <2>2, ValueIs
<1>3. ASSUME chunk.fmt \in 1..2, prior \in HeaderType PROVE Plus(prior.time, v) \in Moments
  <2>1. prior.time \in Moments
    BY <1>3 DEF HeaderType
  <2> HIDE DEF v
  <2> QED
    BY <1>2, <1>3, <2>1, PlusIs
<1>4. CASE chunk.fmt = 0
  <2>1. h = [time |-> v, delta |-> v, length |-> chunk.length, type |-> chunk.type,
             stream |-> chunk.stream, extended |-> chunk.raw = Marker, absolute |-> TRUE]
    BY <1>4 DEF Header
  <2>2. chunk.length \in 0..MaxMessage /\ chunk.type \in Types
    BY <1>1, <2>1, WireAssumption
  <2> HIDE DEF v
  <2> QED
    BY <1>1, <1>2, <1>4, <2>1, <2>2 DEF HeaderType
<1>5. CASE chunk.fmt = 1
  <2> DEFINE t == Plus(prior.time, v)
  <2>1. h = [prior EXCEPT !.time = t, !.delta = v, !.length = chunk.length,
              !.type = chunk.type, !.extended = e, !.absolute = FALSE]
    BY <1>5 DEF Header
  <2>2. prior \in HeaderType
    BY <1>5
  <2>3. t \in Moments /\ v \in Moments
    BY <1>2, <1>3, <1>5, <2>2
  <2> HIDE DEF v, e, t
  <2>4. h.length = chunk.length /\ h.type = chunk.type
    BY <2>1, <2>2 DEF HeaderType
  <2>5. chunk.length \in 0..MaxMessage /\ chunk.type \in Types
    BY <1>1, <2>4, WireAssumption
  <2> QED
    BY <1>1, <2>1, <2>2, <2>3, <2>5 DEF HeaderType
<1>6. CASE chunk.fmt = 2
  <2> DEFINE t == Plus(prior.time, v)
  <2>1. h = [prior EXCEPT !.time = t, !.delta = v, !.extended = e, !.absolute = FALSE]
    BY <1>6 DEF Header
  <2>2. prior \in HeaderType
    BY <1>6
  <2>3. t \in Moments /\ v \in Moments
    BY <1>2, <1>3, <1>6, <2>2
  <2> HIDE DEF v, e, t
  <2> QED
    BY <1>1, <2>1, <2>2, <2>3 DEF HeaderType
<1>7. CASE chunk.fmt = 3
  <2>1. prior \in HeaderType /\ h = Inherited(prior, on)
    BY <1>7 DEF Header
  <2>2. Plus(prior.time, prior.delta) \in Moments
    BY <2>1, PlusIs DEF HeaderType
  <2>3. h = prior \/ h = [prior EXCEPT !.time = Plus(prior.time, prior.delta), !.absolute = FALSE]
    BY <2>1 DEF Inherited
  <2> QED
    BY <2>1, <2>2, <2>3 DEF HeaderType
<1> QED
  BY <1>1, <1>4, <1>5, <1>6, <1>7

\* The room of an assembly covers what is added to it and stays within its message.
LEMMA CapacityIs ==
    ASSUME NEW o, Sound(o), NEW take \in Nat, o.received + take <= o.header.length
    PROVE  /\ Capacity(o, take) \in Nat
           /\ Capacity(o, take) >= o.capacity
           /\ Capacity(o, take) <= o.header.length
           /\ Retained(o.header.type) => Len(o.payload) + take <= Capacity(o, take)
<1>1. /\ o.capacity \in Nat /\ o.received \in Nat /\ o.header.length \in Nat
      /\ o.payload \in Seq(Nat)
  BY WireAssumption DEF Sound, Assemblies, HeaderType
<1>2. /\ o.capacity <= o.header.length /\ Len(o.payload) = o.received
      /\ Retained(o.header.type) => Len(o.payload) <= o.capacity
  BY DEF Sound
<1> QED
  BY <1>1, <1>2 DEF Capacity, MinOf, MaxOf, Largest

\* a is the assembly o with the bytes of body added.
Extends(a, o, body) ==
    /\ Sound(a)
    /\ a.header = o.header
    /\ a.payload = o.payload \o body
    /\ a.received = o.received + Len(body)
    /\ a.capacity = Capacity(o, Len(body))

LEMMA AddedIs ==
    ASSUME NEW o, Sound(o), NEW size \in Nat, NEW body \in Seq(Nat),
           Len(body) = MinOf(o.header.length - o.received, size), NEW a, a = Added(o, body)
    PROVE  Extends(a, o, body)
<1>1. /\ o.capacity \in Nat /\ o.received \in Nat /\ o.header.length \in Nat
      /\ o.payload \in Seq(Nat) /\ o \in Assemblies /\ o.header \in HeaderType
  BY WireAssumption DEF Sound, Assemblies, HeaderType
<1>2. o.capacity <= o.header.length /\ Len(o.payload) = o.received
      /\ o.received <= o.header.length
  BY DEF Sound
<1>3. Len(body) \in Nat /\ o.received + Len(body) <= o.header.length
  BY <1>1, <1>2 DEF MinOf
<1>4. /\ Capacity(o, Len(body)) \in Nat
      /\ Capacity(o, Len(body)) <= o.header.length
      /\ Retained(o.header.type) => Len(o.payload) + Len(body) <= Capacity(o, Len(body))
  BY <1>3, CapacityIs
<1> DEFINE k == Capacity(o, Len(body))
           p == o.payload \o body
           r == o.received + Len(body)
<1>5. p \in Seq(Nat) /\ Len(p) = Len(o.payload) + Len(body)
  BY <1>1, ConcatProperties
<1>6. a = [o EXCEPT !.payload = p, !.received = r, !.capacity = k]
  BY DEF Added
<1>7. k \in Nat /\ r \in Nat
  BY <1>1, <1>3, <1>4
<1> HIDE DEF k, p, r
<1>8. a \in Assemblies /\ a.header = o.header /\ a.payload = p /\ a.capacity = k
      /\ a.received = r
  BY <1>1, <1>5, <1>6, <1>7 DEF Assemblies
<1>9. Sound(a)
  BY <1>1, <1>2, <1>3, <1>4, <1>5, <1>8 DEF Sound, k, r
<1> QED
  BY <1>8, <1>9 DEF k, p, r, Extends

Places == [Csids -> Assemblies \cup {None}]
Occupied(a) == IF a = None THEN 0 ELSE a.capacity

LEMMA RoomIs ==
    ASSUME NEW am \in Places
    PROVE  /\ Room(am) \in [1..MaxCsid -> Nat]
           /\ \A c \in Csids : Room(am)[c] = Occupied(am[c]) /\ Occupied(am[c]) \in Nat
<1>1. \A c \in Csids : am[c] # None => am[c].capacity \in Nat
  BY DEF Places, Assemblies
<1>2. Csids \subseteq 1..MaxCsid
  BY WireAssumption
<1> QED
  BY <1>1, <1>2 DEF Room, Occupied

\* A message that grows or ends on one chunk stream changes the sum by as much.
LEMMA HeldMoves ==
    ASSUME NEW am \in Places, NEW bm \in Places, NEW c \in Csids,
           \A n \in Csids : n # c => am[n] = bm[n], NEW x, x = Occupied(am[c]),
           NEW y, y = Occupied(bm[c])
    PROVE  Held(am) \in Nat /\ Held(bm) \in Nat /\ Held(bm) = Held(am) + (y - x)
<1> DEFINE ra == Room(am)
           rb == Room(bm)
<1>1. ra \in [1..MaxCsid -> Nat] /\ rb \in [1..MaxCsid -> Nat] /\ ra[c] = x /\ rb[c] = y
  BY RoomIs
<1>2. ra = Room(am) /\ rb = Room(bm)
  OBVIOUS
<1> HIDE DEF ra, rb
<1>3. ra \in Rooms /\ rb \in Rooms
  BY <1>1 DEF Rooms
<1>4. Shifted(am, bm, ra, rb, c)
  BY <1>2, <1>3, HeldChanges
<1>5. Held(am) \in Nat /\ Held(bm) \in Nat
  BY <1>1, <1>2, HeldIsNat
<1> QED
  BY <1>1, <1>4, <1>5 DEF Shifted

LEMMA HeldTyped ==
    ASSUME NEW am \in Places PROVE Held(am) \in Nat
<1> DEFINE ra == Room(am)
<1>1. ra \in [1..MaxCsid -> Nat] /\ ra = Room(am)
  BY RoomIs
<1> HIDE DEF ra
<1> QED
  BY <1>1, HeldIsNat

\* What decode has checked of a chunk that it takes
Taken(chunk, h, o) ==
    /\ chunk.fmt # 0 => headers[chunk.csid] # None
    /\ h.extended = (chunk.ext # None)
    /\ Continuing(chunk.csid) => ~Replaced(h, assembly[chunk.csid])
    /\ ~(h.length > MaxMessage)
    /\ h.type \in Types
    /\ Take(o) = Len(chunk.body)
    /\ ~(buffered + (Capacity(o, Take(o)) - o.capacity) > MaxBuffered)

LEMMA DefectNone ==
    ASSUME NEW chunk, Defect(chunk) = "none"
    PROVE  Taken(chunk, HeaderOf(chunk), Opened(HeaderOf(chunk), chunk.csid))
<1> DEFINE c == chunk.csid
           h == HeaderOf(chunk)
           a == Opened(h, c)
           A1 == chunk.fmt # 0 /\ headers[c] = None
           A2 == h.extended # (chunk.ext # None)
           A3 == chunk.fmt = 3 /\ h.extended /\ chunk.ext # Expected(h, Continuing(c))
           A4 == Continuing(c) /\ Replaced(h, assembly[c])
           A5 == h.length > MaxMessage
           A6 == h.type \notin Types
           A7 == headers[c] = None /\ Cardinality(Used) >= MaxStreams
           A8 == Take(a) # Len(chunk.body)
           A9 == buffered + (Capacity(a, Take(a)) - a.capacity) > MaxBuffered
<1>1. Defect(chunk) = IF A1 THEN "no predecessor"
    ELSE IF A2 THEN "garbled"
    ELSE IF A3 THEN "extended time stamp changed"
    ELSE IF A4 THEN "message replaced"
    ELSE IF A5 THEN "message too long"
    ELSE IF A6 THEN "undefined type"
    ELSE IF A7 THEN "too many chunk streams"
    ELSE IF A8 THEN "garbled"
    ELSE IF A9 THEN "too much buffered"
    ELSE "none"
  BY Zenon DEF Defect
<1>2. ~A1 /\ ~A2 /\ ~A4 /\ ~A5 /\ ~A6 /\ ~A8 /\ ~A9
  <2> HIDE DEF A1, A2, A3, A4, A5, A6, A7, A8, A9
  <2> QED
    BY <1>1
<1> QED
  BY <1>2, Zenon DEF Taken

LEMMA OpenedIs ==
    ASSUME DecoderInv, NEW c \in Csids, NEW h \in HeaderType, NEW o, o = Opened(h, c)
    PROVE  Sound(o) /\ o.capacity = Occupied(assembly[c])
<1>1. CASE Continuing(c)
  BY <1>1 DEF DecoderInv, Unfinished, Continuing, Opened, Occupied
<1>2. CASE ~Continuing(c)
  <2>1. o = [header |-> h, payload |-> <<>>, received |-> 0, capacity |-> 0]
    BY <1>2 DEF Opened
  <2>2. h.length \in 0..MaxMessage
    BY DEF HeaderType
  <2>3. <<>> \in Seq(Nat) /\ Len(<<>>) = 0
    OBVIOUS
  <2>4. o \in Assemblies
    BY <2>1, <2>3 DEF Assemblies
  <2> QED
    BY <1>2, <2>1, <2>2, <2>3, <2>4, WireAssumption DEF Sound, Continuing, Occupied
<1> QED
  BY <1>1, <1>2

\* A chunk that is taken adds to a sound assembly the bytes it may take.
Adds(chunk, h, o, a) ==
    /\ h \in HeaderType
    /\ Sound(o)
    /\ o.capacity = Occupied(assembly[chunk.csid])
    /\ Sound(a)
    /\ a.header = o.header
    /\ a.payload = o.payload \o chunk.body
    /\ a.received = o.received + Len(chunk.body)
    /\ buffered + (a.capacity - o.capacity) <= MaxBuffered

LEMMA ChunkAdds ==
    ASSUME DecoderInv, NEW chunk \in Chunks, Defect(chunk) = "none",
           NEW h, h = HeaderOf(chunk), NEW o, o = Opened(h, chunk.csid),
           NEW a, a = Added(o, chunk.body)
    PROVE  Adds(chunk, h, o, a)
<1> DEFINE c == chunk.csid
<1>1. Taken(chunk, h, o)
  BY DefectNone
<1>2. c \in Csids /\ chunk.body \in Seq(Nat) /\ chunkSize \in Nat
  BY WireAssumption DEF DecoderInv, Chunks
<1>3. headers[c] \in HeaderType \cup {None}
  BY <1>2 DEF DecoderInv
<1>4. h \in HeaderType
  <2>1. h = Header(chunk, headers[c], Continuing(c)) /\ Continuing(c) \in BOOLEAN
    BY DEF HeaderOf, Continuing
  <2>2. h.length <= MaxMessage
    <3>1. CASE chunk.fmt = 0 \/ chunk.fmt = 1
      <4>1. h.length = chunk.length /\ chunk.length \in Nat
        <5>1. CASE chunk.fmt = 0
          BY <2>1, <5>1 DEF Header, Chunks
        <5>2. CASE chunk.fmt = 1
          <6>1. headers[c] \in HeaderType
            BY <1>1, <1>3, <5>2 DEF Taken
          <6> DEFINE t == Plus(headers[c].time, Value(chunk))
                     v == Value(chunk)
                     e == chunk.raw = Marker
          <6>2. h = [headers[c] EXCEPT !.time = t, !.delta = v, !.length = chunk.length,
                      !.type = chunk.type, !.extended = e, !.absolute = FALSE]
            BY <2>1, <5>2 DEF Header
          <6> HIDE DEF t, v, e
          <6> QED
            BY <6>1, <6>2 DEF Chunks, HeaderType
        <5> QED
          BY <3>1, <5>1, <5>2
      <4> QED
        BY <1>1, <4>1, WireAssumption DEF Taken
    <3>2. CASE chunk.fmt = 2 \/ chunk.fmt = 3
      <4>1. headers[c] \in HeaderType
        BY <1>1, <1>3, <3>2 DEF Taken
      <4>2. h.length = headers[c].length
        BY <2>1, <3>2, <4>1 DEF Header, Inherited, HeaderType
      <4> QED
        BY <4>1, <4>2, WireAssumption DEF HeaderType
    <3> QED
      BY <3>1, <3>2 DEF Chunks
  <2>3. h.extended = (chunk.ext # None) /\ h.type \in Types /\ (chunk.fmt # 0 => headers[c] # None)
    BY <1>1 DEF Taken
  <2> QED
    BY <1>3, <2>1, <2>2, <2>3, HeaderIs
<1>5. Sound(o) /\ o.capacity = Occupied(assembly[c])
  BY <1>2, <1>4, OpenedIs
<1>6. Len(chunk.body) = MinOf(o.header.length - o.received, chunkSize)
  BY <1>1 DEF Taken, Take
<1>7. Extends(a, o, chunk.body)
  BY <1>2, <1>5, <1>6, AddedIs
<1>8. buffered + (a.capacity - o.capacity) <= MaxBuffered
  <2>1. buffered \in Int
    BY HeldTyped DEF DecoderInv, Places
  <2>2. a.capacity \in Nat /\ o.capacity \in Nat
    BY <1>5, <1>7 DEF Sound, Assemblies, Extends
  <2>3. ~(buffered + (a.capacity - o.capacity) > MaxBuffered)
    BY <1>1, <1>7 DEF Taken, Extends
  <2> QED
    BY <2>1, <2>2, <2>3, WireAssumption
<1> QED
  BY <1>4, <1>5, <1>7, <1>8 DEF Adds, Extends

-----------------------------------------------------------------------------
(* One round of decode keeps the decoder's own invariant.                  *)

LEMMA RefusesKeeps ==
    ASSUME DecoderInv, NEW reason, Refuses(reason) PROVE DecoderInv'
  BY DEF DecoderInv, Refuses

\* Bytes are still missing.
Awaits(c, h, o, a) ==
    /\ a.received < a.header.length
    /\ headers' = [headers EXCEPT ![c] = h]
    /\ assembly' = [assembly EXCEPT ![c] = a]
    /\ buffered' = buffered + (a.capacity - o.capacity)
    /\ UNCHANGED <<status, why, chunkSize, bindings, sink, delivered>>

LEMMA AwaitsKeeps ==
    ASSUME DecoderInv, NEW chunk \in Chunks, NEW h, NEW o, NEW a, Adds(chunk, h, o, a),
           Awaits(chunk.csid, h, o, a)
    PROVE  DecoderInv'
<1> DEFINE c == chunk.csid
<1>1. c \in Csids
  BY DEF Chunks
<1>2. /\ a \in Assemblies /\ a.capacity \in Nat /\ a # None /\ Unfinished(a)
      /\ h \in HeaderType /\ h # None
  BY AbsenceAssumption DEF Adds, Sound, Assemblies, Awaits, Unfinished
<1>3. headers' \in [Csids -> HeaderType \cup {None}] /\ assembly' \in Places /\ assembly \in Places
  BY <1>1, <1>2 DEF DecoderInv, Awaits, Places
<1>4. \A x \in Csids : assembly'[x] # None => headers'[x] # None /\ Unfinished(assembly'[x])
  <2> SUFFICES ASSUME NEW x \in Csids, assembly'[x] # None
               PROVE  headers'[x] # None /\ Unfinished(assembly'[x])
    OBVIOUS
  <2>1. CASE x = c
    <3>1. headers'[x] = h /\ assembly'[x] = a
      BY <1>1, <2>1 DEF Awaits, DecoderInv
    <3> QED
      BY <1>2, <3>1
  <2>2. CASE x # c
    <3>1. headers'[x] = headers[x] /\ assembly'[x] = assembly[x]
      BY <1>1, <2>2 DEF Awaits, DecoderInv
    <3> QED
      BY <3>1 DEF DecoderInv
  <2> QED
    BY <2>1, <2>2
<1>5. buffered' = Held(assembly') /\ buffered' <= MaxBuffered
  <2> SUFFICES ASSUME NEW bm \in Places, bm = assembly' PROVE buffered' = Held(bm) /\ buffered' <= MaxBuffered
    BY <1>3
  <2>1. bm[c] = a /\ \A n \in Csids : n # c => assembly[n] = bm[n]
    BY <1>1 DEF Awaits, DecoderInv
  <2>2. a.capacity = Occupied(bm[c]) /\ o.capacity = Occupied(assembly[c])
    BY <1>2, <2>1 DEF Occupied, Adds
  <2>3. Held(bm) = Held(assembly) + (a.capacity - o.capacity)
    BY <1>1, <1>3, <2>1, <2>2, HeldMoves
  <2> QED
    BY <2>3 DEF Awaits, DecoderInv, Adds
<1> QED
  BY <1>3, <1>4, <1>5 DEF DecoderInv, Awaits, Places

\* The message is complete and taken off its chunk stream.
Removed(c) == [assembly EXCEPT ![c] = None]

LEMMA RemovedIs ==
    ASSUME DecoderInv, NEW chunk \in Chunks, NEW h, NEW o, NEW a, Adds(chunk, h, o, a),
           NEW left, left = (buffered + (a.capacity - o.capacity)) - a.capacity
    PROVE  Removed(chunk.csid) \in Places /\ left = Held(Removed(chunk.csid)) /\ left <= MaxBuffered
<1> DEFINE c == chunk.csid
           bm == Removed(c)
<1>1. c \in Csids
  BY DEF Chunks
<1>2. bm \in Places /\ assembly \in Places /\ bm[c] = None
      /\ \A n \in Csids : n # c => assembly[n] = bm[n]
  BY <1>1 DEF DecoderInv, Places, Removed
<1>3. a.capacity \in Nat /\ o.capacity \in Nat /\ o.capacity = Occupied(assembly[c])
  BY DEF Adds, Sound, Assemblies
<1> HIDE DEF bm
<1>4. 0 = Occupied(bm[c])
  BY <1>2 DEF Occupied
<1>5. Held(assembly) \in Nat /\ Held(bm) \in Nat /\ Held(bm) = Held(assembly) + (0 - o.capacity)
  BY <1>1, <1>2, <1>3, <1>4, HeldMoves
<1>6. buffered = Held(assembly) /\ buffered <= MaxBuffered
  BY DEF DecoderInv
<1>7. left = buffered - o.capacity
  BY <1>3, <1>5, <1>6
<1>8. left = Held(bm) /\ left <= MaxBuffered
  BY <1>3, <1>5, <1>6, <1>7, WireAssumption
<1> QED
  BY <1>2, <1>8 DEF bm

\* An abort takes another one.
LEMMA AbortIs ==
    ASSUME NEW am \in Places, NEW left, left = Held(am), left <= MaxBuffered, NEW target,
           NEW bm, bm = [x \in Csids |-> IF x = target THEN None ELSE am[x]]
    PROVE  /\ bm \in Places /\ Released(am, target, left) = Held(bm)
           /\ Released(am, target, left) <= MaxBuffered
<1>1. bm \in Places
  BY DEF Places
<1>2. Held(am) \in Nat
  BY HeldTyped
<1>3. CASE target \in Csids /\ am[target] # None
  <2>1. bm[target] = None /\ \A n \in Csids : n # target => am[n] = bm[n]
    BY <1>3
  <2>2. 0 = Occupied(bm[target]) /\ am[target].capacity = Occupied(am[target])
        /\ am[target].capacity \in Nat
    BY <1>3, <2>1 DEF Occupied, Places, Assemblies
  <2>3. Held(bm) = Held(am) + (0 - am[target].capacity)
    BY <1>1, <1>3, <2>1, <2>2, HeldMoves
  <2>4. Released(am, target, left) = left - am[target].capacity
    BY <1>3 DEF Released
  <2> QED
    BY <1>1, <1>2, <2>2, <2>3, <2>4, WireAssumption
<1>4. CASE ~(target \in Csids /\ am[target] # None)
  <2>1. bm = am
    BY <1>4 DEF Places
  <2>2. Released(am, target, left) = left
    BY <1>4 DEF Released
  <2> QED
    BY <1>1, <2>1, <2>2
<1> QED
  BY <1>3, <1>4

\* The message is handed over, and what it says takes effect.
HandsOver(m, h, c, payload, hs, asm, left) ==
    LET out == Parsed(m.packets, h.time, c, h.stream) IN
    /\ h.type \in {"size", "abort"} => m.arg \in Permitted(h.type)
    /\ h.type \in Media => out.why = "none"
    /\ chunkSize' = IF h.type = "size" THEN m.arg ELSE chunkSize
    /\ headers' = hs
    /\ assembly' = [x \in Csids |-> IF h.type = "abort" /\ x = m.arg THEN None ELSE asm[x]]
    /\ buffered' = IF h.type = "abort" THEN Released(asm, m.arg, left) ELSE left
    /\ bindings' = IF h.type \in Media THEN out.bindings ELSE bindings
    /\ sink' = IF h.type \in Media THEN out.events ELSE sink
    /\ delivered' = Append(delivered,
          [csid |-> c, time |-> h.time, type |-> h.type, stream |-> h.stream, payload |-> payload])
    /\ UNCHANGED <<status, why>>

LEMMA HandsOverKeeps ==
    ASSUME DecoderInv, NEW chunk \in Chunks, NEW h, NEW o, NEW a, Adds(chunk, h, o, a),
           NEW m \in Messages, NEW left, left = (buffered + (a.capacity - o.capacity)) - a.capacity,
           Uniform(a.payload),
           HandsOver(m, a.header, chunk.csid, a.payload, [headers EXCEPT ![chunk.csid] = h],
                     Removed(chunk.csid), left)
    PROVE  DecoderInv'
<1> DEFINE c == chunk.csid
           am == Removed(c)
           g == a.header
           out == Parsed(m.packets, g.time, c, g.stream)
<1>1. c \in Csids /\ c \in Nat
  BY CsidIs DEF Chunks
<1>2. am \in Places /\ left = Held(am) /\ left <= MaxBuffered
  BY RemovedIs
<1>3. /\ g \in HeaderType /\ g.time \in Moments /\ g.stream \in Nat /\ g.type \in Types
      /\ a.payload \in Seq(Nat) /\ h \in HeaderType /\ h # None
  BY AbsenceAssumption DEF Adds, Sound, Assemblies, HeaderType
<1>4. chunkSize' \in 1..MaxChunkSize
  BY DEF HandsOver, Permitted, DecoderInv
<1>5. headers' \in [Csids -> HeaderType \cup {None}]
  BY <1>1, <1>3 DEF HandsOver, DecoderInv
<1>6. assembly' \in Places /\ buffered' = Held(assembly') /\ buffered' <= MaxBuffered
  <2>1. CASE g.type = "abort"
    <3> SUFFICES ASSUME NEW bm, bm = [x \in Csids |-> IF x = m.arg THEN None ELSE am[x]]
                 PROVE  assembly' \in Places /\ buffered' = Held(assembly') /\ buffered' <= MaxBuffered
      OBVIOUS
    <3>1. assembly' = bm /\ buffered' = Released(am, m.arg, left)
      BY <2>1 DEF HandsOver
    <3>2. /\ bm \in Places /\ Released(am, m.arg, left) = Held(bm)
          /\ Released(am, m.arg, left) <= MaxBuffered
      <4> HIDE DEF am
      <4> QED
        BY <1>2, AbortIs
    <3> QED
      BY <3>1, <3>2
  <2>2. CASE g.type # "abort"
    <3>1. assembly' = am
      <4>1. assembly' = [x \in Csids |-> am[x]]
        BY <2>2 DEF HandsOver
      <4> HIDE DEF am
      <4> QED
        BY <1>2, <4>1 DEF Places
    <3>2. buffered' = left
      BY <2>2 DEF HandsOver
    <3> QED
      BY <1>2, <3>1, <3>2
  <2> QED
    BY <2>1, <2>2
<1>7. \A x \in Csids : assembly'[x] # None => headers'[x] # None /\ Unfinished(assembly'[x])
  <2> SUFFICES ASSUME NEW x \in Csids, assembly'[x] # None
               PROVE  headers'[x] # None /\ Unfinished(assembly'[x])
    OBVIOUS
  <2>1. assembly'[x] = am[x]
    BY DEF HandsOver
  <2>2. x # c /\ am[x] = assembly[x]
    BY <1>1, <2>1 DEF Removed, DecoderInv
  <2>3. headers'[x] = headers[x]
    BY <1>1, <2>2 DEF HandsOver, DecoderInv
  <2> QED
    BY <2>1, <2>2, <2>3 DEF DecoderInv
<1>8. bindings' \in Bindings /\ sink' \in Sinks
  <2>1. bindings \in Bindings /\ sink \in Sinks
    BY DEF DecoderInv
  <2>2. out \in Outs
    BY <1>1, <1>3, <2>1, ParsedIs
  <2> HIDE DEF out
  <2>3. out.bindings \in Bindings /\ out.events \in Sinks
    BY <2>2 DEF Outs
  <2> QED
    BY <2>1, <2>3 DEF HandsOver, out
<1>9. delivered' \in Seq(Deliveries)
  <2> DEFINE d == [csid |-> c, time |-> g.time, type |-> g.type, stream |-> g.stream,
                   payload |-> a.payload]
  <2>1. d \in Deliveries
    BY <1>1, <1>3 DEF Deliveries
  <2>2. delivered' = Append(delivered, d) /\ delivered \in Seq(Deliveries)
    BY DEF HandsOver, DecoderInv
  <2> HIDE DEF d
  <2> QED
    BY <2>1, <2>2
<1> QED
  BY <1>4, <1>5, <1>6, <1>7, <1>8, <1>9 DEF DecoderInv, Places

HandingDefects == PacketDefects \cup {"misplaced message", "bad argument"}

\* The ways a round of decode ends
Ways(chunk, m, h, o, a) ==
    \/ Defect(chunk) # "none" /\ Refuses(Defect(chunk))
    \/ Defect(chunk) = "none" /\ Awaits(chunk.csid, h, o, a)
    \/ Defect(chunk) = "none" /\ \E r \in HandingDefects : Refuses(r)
    \/ /\ Defect(chunk) = "none"
       /\ a.received = a.header.length
       /\ HandsOver(m, a.header, chunk.csid, a.payload, [headers EXCEPT ![chunk.csid] = h],
                    Removed(chunk.csid), (buffered + (a.capacity - o.capacity)) - a.capacity)

Ends(chunk, m, h, o, a) ==
    \/ Defect(chunk) # "none" /\ Refuses(Defect(chunk))
    \/ Defect(chunk) = "none" /\ Awaits(chunk.csid, h, o, a)
    \/ /\ Defect(chunk) = "none"
       /\ a.received = a.header.length
       /\ Handles(m, a.header, chunk.csid, a.payload, [headers EXCEPT ![chunk.csid] = h],
                  Removed(chunk.csid), (buffered + (a.capacity - o.capacity)) - a.capacity)

LEMMA DecodesEnds ==
    ASSUME NEW chunk, NEW m, Decodes(chunk, m)
    PROVE  Ends(chunk, m, HeaderOf(chunk), Opened(HeaderOf(chunk), chunk.csid),
                Added(Opened(HeaderOf(chunk), chunk.csid), chunk.body))
  BY Zenon DEF Decodes, Ends, Awaits, Removed

LEMMA DecodesWays ==
    ASSUME DecoderInv, NEW chunk \in Chunks, NEW m \in Messages,
           NEW h, h = HeaderOf(chunk), NEW o, o = Opened(h, chunk.csid),
           NEW a, a = Added(o, chunk.body), Decodes(chunk, m)
    PROVE  Ways(chunk, m, h, o, a)
<1> DEFINE c == chunk.csid
           g == a.header
           hs == [headers EXCEPT ![c] = h]
           am == Removed(c)
           left == (buffered + (a.capacity - o.capacity)) - a.capacity
           out == Parsed(m.packets, g.time, c, g.stream)
<1>1. \/ Defect(chunk) # "none" /\ Refuses(Defect(chunk))
      \/ Defect(chunk) = "none" /\ Awaits(c, h, o, a)
      \/ /\ Defect(chunk) = "none"
         /\ a.received = a.header.length
         /\ Handles(m, g, c, a.payload, hs, am, left)
  <2>1. Ends(chunk, m, h, o, a)
    BY DecodesEnds
  <2> QED
    BY <2>1, Zenon DEF Ends
<1>2. ASSUME Defect(chunk) = "none", a.received = a.header.length,
             Handles(m, g, c, a.payload, hs, am, left)
      PROVE  Ways(chunk, m, h, o, a)
  <2>1. Adds(chunk, h, o, a)
    BY <1>2, ChunkAdds
  <2>2. out \in Outs
    <3>2. c \in Nat
      BY CsidIs DEF Chunks
    <3>3. g.time \in Moments /\ g.stream \in Nat
      BY <2>1 DEF Adds, Sound, Assemblies, HeaderType
    <3> QED
      BY <3>2, <3>3, ParsedIs DEF DecoderInv
  <2>3. out.why # "none" => out.why \in HandingDefects
    <3> HIDE DEF out
    <3> QED
      BY <2>2 DEF Outs, HandingDefects
  <2>4. \/ Refuses("misplaced message")
        \/ Refuses("bad argument")
        \/ out.why # "none" /\ Refuses(out.why)
        \/ HandsOver(m, g, c, a.payload, hs, am, left)
    <3> HIDE DEF g, hs, am, left, c
    <3> QED
      BY <1>2, Zenon DEF Handles, HandsOver, Acceptable, Controls
  <2>5. CASE HandsOver(m, g, c, a.payload, hs, am, left)
    BY <1>2, <2>5, Zenon DEF Ways
  <2>6. CASE Refuses("misplaced message") \/ Refuses("bad argument")
    <3>1. "misplaced message" \in HandingDefects /\ "bad argument" \in HandingDefects
      BY DEF HandingDefects
    <3>2. \E r \in HandingDefects : Refuses(r)
      BY <2>6, <3>1, Zenon
    <3> QED
      BY <1>2, <3>2, Zenon DEF Ways
  <2>7. CASE out.why # "none" /\ Refuses(out.why)
    <3>1. \E r \in HandingDefects : Refuses(r)
      BY <2>3, <2>7, Zenon
    <3> QED
      BY <1>2, <3>1, Zenon DEF Ways
  <2> QED
    BY <2>4, <2>5, <2>6, <2>7
<1> QED
  BY <1>1, <1>2, Zenon DEF Ways

\* The decoder keeps its invariant and its verdict.
LEMMA DecodesKeeps ==
    ASSUME DecoderInv, NEW chunk \in Chunks, NEW m \in Messages,
           NEW h, h = HeaderOf(chunk), NEW o, o = Opened(h, chunk.csid),
           NEW a, a = Added(o, chunk.body), Decodes(chunk, m),
           Defect(chunk) = "none" => Uniform(a.payload)
    PROVE  DecoderInv'
<1>1. Ways(chunk, m, h, o, a)
  BY DecodesWays
<1>2. ASSUME NEW r, Refuses(r) PROVE DecoderInv'
  BY <1>2, RefusesKeeps
<1>3. ASSUME Defect(chunk) = "none" PROVE Adds(chunk, h, o, a)
  BY <1>3, ChunkAdds
<1>4. ASSUME Defect(chunk) = "none", Awaits(chunk.csid, h, o, a) PROVE DecoderInv'
  BY <1>3, <1>4, AwaitsKeeps
<1>5. ASSUME Defect(chunk) = "none",
             HandsOver(m, a.header, chunk.csid, a.payload, [headers EXCEPT ![chunk.csid] = h],
                       Removed(chunk.csid), (buffered + (a.capacity - o.capacity)) - a.capacity)
      PROVE  DecoderInv'
  BY <1>3, <1>5, HandsOverKeeps
<1> QED
  BY <1>1, <1>2, <1>4, <1>5, Zenon DEF Ways

-----------------------------------------------------------------------------
(* A publisher's chunk.                                                    *)

\* The two fields carry any value, and the decoder reads it back.
LEMMA FieldIs ==
    ASSUME NEW v \in Moments, NEW raw, raw = Field(v).raw, NEW ext, ext = Field(v).ext
    PROVE  /\ raw \in 0..Marker
           /\ ext \in Moments \cup {None}
           /\ raw = Marker <=> v >= Marker
           /\ ext # None <=> v >= Marker
           /\ v >= Marker => ext = v
           /\ v < Marker => raw = v
<1>1. Marker \in Nat /\ v \in Nat /\ None \notin Nat
  BY WireAssumption, AbsenceAssumption DEF Moments
<1>2. v # None
  BY <1>1
<1>3. CASE v < Marker
  BY <1>1, <1>3 DEF Field
<1>4. CASE ~(v < Marker)
  <2>1. raw = Marker /\ ext = v
    BY <1>4 DEF Field
  <2> QED
    BY <1>1, <1>2, <1>4, <2>1
<1> QED
  BY <1>3, <1>4

\* A chunk that the decoder can only refuse for a limit: its header is read as h.
Conforms(chunk, h) ==
    /\ chunk \in Chunks
    /\ h \in HeaderType
    /\ h = HeaderOf(chunk)
    /\ Sensible(h)
    /\ chunk.fmt # 0 => headers[chunk.csid] # None
    /\ h.extended <=> chunk.ext # None
    /\ h.extended => chunk.ext = Expected(h, Continuing(chunk.csid))
    /\ Continuing(chunk.csid) => ~Replaced(h, assembly[chunk.csid])
    /\ Take(Opened(h, chunk.csid)) = Len(chunk.body)

Limits == {"too many chunk streams", "too much buffered"}

LEMMA ConformsTaken ==
    ASSUME NEW chunk, NEW h, Conforms(chunk, h)
    PROVE  Defect(chunk) \in Limits \cup {"none"}
<1> DEFINE c == chunk.csid
           a == Opened(h, c)
           A1 == chunk.fmt # 0 /\ headers[c] = None
           A2 == h.extended # (chunk.ext # None)
           A3 == chunk.fmt = 3 /\ h.extended /\ chunk.ext # Expected(h, Continuing(c))
           A4 == Continuing(c) /\ Replaced(h, assembly[c])
           A5 == h.length > MaxMessage
           A6 == h.type \notin Types
           A7 == headers[c] = None /\ Cardinality(Used) >= MaxStreams
           A8 == Take(a) # Len(chunk.body)
           A9 == buffered + (Capacity(a, Take(a)) - a.capacity) > MaxBuffered
<1>1. h = HeaderOf(chunk)
  BY DEF Conforms
<1>2. Defect(chunk) = IF A1 THEN "no predecessor"
    ELSE IF A2 THEN "garbled"
    ELSE IF A3 THEN "extended time stamp changed"
    ELSE IF A4 THEN "message replaced"
    ELSE IF A5 THEN "message too long"
    ELSE IF A6 THEN "undefined type"
    ELSE IF A7 THEN "too many chunk streams"
    ELSE IF A8 THEN "garbled"
    ELSE IF A9 THEN "too much buffered"
    ELSE "none"
  BY <1>1, Zenon DEF Defect
<1>3. ~A1 /\ ~A3 /\ ~A4 /\ ~A8
  BY Zenon DEF Conforms
<1>4. ~A2
  <2>1. h.extended \in BOOLEAN
    BY DEF Conforms, HeaderType
  <2> QED
    BY <2>1, Zenon DEF Conforms
<1>5. ~A5 /\ ~A6
  <2>1. h.length \in 0..MaxMessage /\ h.type \in Types
    BY DEF Conforms, HeaderType
  <2> QED
    BY <2>1, WireAssumption
<1> HIDE DEF A1, A2, A3, A4, A5, A6, A7, A8, A9
<1> QED
  BY <1>2, <1>3, <1>4, <1>5 DEF Limits

\* Every format a publisher may use is read as the header it wrote.
LEMMA WrittenIs ==
    ASSUME NEW m \in Messages, NEW time \in Moments, NEW p \in HeaderType \cup {None},
           p # None => Sensible(p), NEW fmt \in 0..3, fmt \in Formats(m, time, p),
           NEW h, h = Written(m, time, fmt, p)
    PROVE  /\ h \in HeaderType /\ Sensible(h) /\ (fmt # 0 => p # None)
           /\ h.delta \in Moments
           /\ h.length = m.length /\ h.type = m.type /\ h.stream = m.stream /\ h.time = time
<1> DEFINE d == IF fmt = 0 THEN time ELSE Since(time, p.time)
           e == d >= Marker
           b == fmt = 0
<1>1. h = [time |-> time, delta |-> d, length |-> m.length, type |-> m.type, stream |-> m.stream,
           extended |-> e, absolute |-> b]
  BY DEF Written
<1>2. fmt # 0 => p # None
  BY DEF Formats
<1>3. d \in Moments
  <2>1. CASE fmt = 0
    BY <2>1
  <2>2. CASE fmt # 0
    <3>1. p.time \in Moments
      BY <1>2, <2>2 DEF HeaderType
    <3> QED
      BY <2>2, <3>1, SinceIs
  <2> QED
    BY <2>1, <2>2
<1>4. e \in BOOLEAN /\ b \in BOOLEAN /\ (b => time = d)
  OBVIOUS
<1>5. m.length \in 0..MaxMessage /\ m.type \in Types /\ m.stream \in Nat
  BY StreamAssumption
<1>6. e <=> d >= Marker
  OBVIOUS
<1> HIDE DEF d, e, b
<1>7. h \in HeaderType /\ h.extended = e /\ h.absolute = b /\ h.delta = d /\ h.time = time
      /\ h.length = m.length /\ h.type = m.type /\ h.stream = m.stream
  BY <1>1, <1>3, <1>4, <1>5 DEF HeaderType
<1>8. Sensible(h)
  BY <1>4, <1>6, <1>7 DEF Sensible
<1> QED
  BY <1>2, <1>3, <1>7, <1>8

\* What can be read from a chunk of the publisher
Carries(chunk, fmt, c, h, v, n, number) ==
    /\ chunk \in Chunks
    /\ chunk.fmt = fmt /\ chunk.csid = c
    /\ chunk.length = h.length /\ chunk.type = h.type /\ chunk.stream = h.stream
    /\ chunk.raw = Marker <=> v >= Marker
    /\ chunk.ext # None <=> v >= Marker
    /\ v >= Marker => chunk.ext = v
    /\ Value(chunk) = v
    /\ chunk.body = [i \in 1..n |-> number]
    /\ Len(chunk.body) = n

LEMMA ChunkCarries ==
    ASSUME NEW fmt \in 0..3, NEW c \in Csids, NEW h \in HeaderType, NEW v \in Moments,
           NEW n \in Nat, NEW number \in Nat, NEW chunk, chunk = Chunk(fmt, c, h, v, n, number)
    PROVE  Carries(chunk, fmt, c, h, v, n, number)
<1> DEFINE raw == Field(v).raw
           ext == Field(v).ext
           body == [i \in 1..n |-> number]
<1>1. chunk = [fmt |-> fmt, csid |-> c, raw |-> raw, ext |-> ext, length |-> h.length,
               type |-> h.type, stream |-> h.stream, body |-> body]
  BY DEF Chunk
<1>2. /\ raw \in 0..Marker /\ ext \in Moments \cup {None} /\ (raw = Marker <=> v >= Marker)
      /\ (ext # None <=> v >= Marker) /\ (v >= Marker => ext = v) /\ (v < Marker => raw = v)
  BY FieldIs
<1>3. h.length \in Nat /\ h.type \in Types /\ h.stream \in Nat
  BY WireAssumption DEF HeaderType
<1>4. body \in Seq(Nat) /\ Len(body) = n
  OBVIOUS
<1> HIDE DEF raw, ext, body
<1>5. /\ chunk \in Chunks /\ chunk.fmt = fmt /\ chunk.csid = c /\ chunk.raw = raw
      /\ chunk.ext = ext /\ chunk.length = h.length /\ chunk.type = h.type
      /\ chunk.stream = h.stream /\ chunk.body = body
  BY <1>1, <1>2, <1>3, <1>4 DEF Chunks
<1>6. Marker \in Nat /\ v \in Nat
  BY WireAssumption DEF Moments
<1>7. Value(chunk) = v
  BY <1>2, <1>5, <1>6 DEF Value
<1> QED
  BY <1>2, <1>4, <1>5, <1>7 DEF Carries, body

\* A header is known by its fields.
LEMMA SameHeader ==
    ASSUME NEW x \in HeaderType, NEW y \in HeaderType,
           x.time = y.time, x.delta = y.delta, x.length = y.length, x.type = y.type,
           x.stream = y.stream, x.extended = y.extended, x.absolute = y.absolute
    PROVE  x = y
  BY DEF HeaderType

\* The chunk, on a chunk stream whose last header is p, starts a message with header h.
Reads(chunk, p, h) == Header(chunk, p, FALSE) = h

\* Every format a publisher may start a message with is read as the header it wrote.
LEMMA ReadBack ==
    ASSUME NEW m \in Messages, NEW time \in Moments, NEW p \in HeaderType \cup {None},
           p # None => Sensible(p), NEW fmt \in 0..3, fmt \in Formats(m, time, p),
           NEW h, h = Written(m, time, fmt, p), NEW chunk, NEW c, NEW n, NEW number,
           Carries(chunk, fmt, c, h, h.delta, n, number)
    PROVE  Reads(chunk, p, h)
<1> SUFFICES Header(chunk, p, FALSE) = h
  BY Zenon DEF Reads
<1> DEFINE v == h.delta
           d == IF fmt = 0 THEN time ELSE Since(time, p.time)
           e == d >= Marker
           b == fmt = 0
<1>1. /\ h \in HeaderType /\ Sensible(h) /\ (fmt # 0 => p # None) /\ v \in Moments
      /\ h.length = m.length /\ h.type = m.type /\ h.stream = m.stream /\ h.time = time
  BY WrittenIs
<1>2. v = d /\ h.absolute = b /\ h.extended = e
  BY DEF Written
<1>3. /\ chunk.fmt = fmt /\ Value(chunk) = v /\ chunk.length = h.length /\ chunk.type = h.type
      /\ chunk.stream = h.stream /\ (chunk.raw = Marker) = e
  <2>1. e <=> v >= Marker
    BY <1>2
  <2> QED
    BY <2>1 DEF Carries
<1> DEFINE k == chunk.raw = Marker
<1>4. ASSUME fmt # 0 PROVE p \in HeaderType /\ p.stream = m.stream /\ Plus(p.time, v) = time
                         /\ p.time \in Moments
  <2>1. p \in HeaderType /\ p.stream = m.stream
    BY <1>1, <1>4 DEF Formats
  <2>2. p.time \in Moments /\ v = Since(time, p.time)
    BY <1>2, <1>4, <2>1 DEF HeaderType
  <2>3. Plus(p.time, Since(time, p.time)) = time
    BY <2>2, DeltasAdd
  <2> QED
    BY <2>1, <2>2, <2>3
<1>5. CASE fmt = 0
  <2>1. Header(chunk, p, FALSE) = [time |-> v, delta |-> v, length |-> h.length,
             type |-> h.type, stream |-> h.stream, extended |-> k, absolute |-> TRUE]
    BY <1>3, <1>5 DEF Header
  <2>2. h = [time |-> time, delta |-> d, length |-> m.length, type |-> m.type,
             stream |-> m.stream, extended |-> e, absolute |-> b]
    BY DEF Written
  <2>3. d = time /\ b = TRUE /\ k = e
    BY <1>3, <1>5
  <2> QED
    BY <1>1, <1>2, <2>1, <2>2, <2>3
<1>6. CASE fmt = 1
  <2> DEFINE y == [p EXCEPT !.time = time, !.delta = v, !.length = h.length,
                     !.type = h.type, !.extended = e, !.absolute = FALSE]
  <2>1. Header(chunk, p, FALSE) = y
    <3>1. Header(chunk, p, FALSE) =
            [p EXCEPT !.time = Plus(p.time, Value(chunk)), !.delta = Value(chunk),
               !.length = chunk.length, !.type = chunk.type, !.extended = k, !.absolute = FALSE]
      BY <1>3, <1>6 DEF Header
    <3>2. Plus(p.time, v) = time
      BY <1>4, <1>6
    <3> HIDE DEF e, k, v
    <3>3. k = e
      BY <1>3, Zenon DEF k
    <3> QED
      BY <1>3, <3>1, <3>2, <3>3, Zenon
  <2>2. p \in HeaderType /\ e \in BOOLEAN /\ b = FALSE
    BY <1>4, <1>6
  <2> HIDE DEF e, v, b
  <2>3. y \in HeaderType /\ y.time = time /\ y.delta = v /\ y.length = h.length
        /\ y.type = h.type /\ y.extended = e /\ y.absolute = FALSE /\ y.stream = p.stream
    BY <1>1, <2>2 DEF HeaderType
  <2> HIDE DEF y
  <2>4. y = h
    <3>1. p.stream = m.stream
      BY <1>4, <1>6
    <3>2. y.stream = h.stream /\ y.delta = h.delta /\ y.absolute = h.absolute
          /\ y.extended = h.extended /\ y.time = h.time
      BY <1>1, <1>2, <3>1, <2>2, <2>3, Zenon DEF v
    <3> QED
      BY <1>1, <2>3, <3>2, SameHeader
  <2> QED
    BY <2>1, <2>4
<1>7. CASE fmt = 2
  <2> DEFINE y == [p EXCEPT !.time = time, !.delta = v, !.extended = e, !.absolute = FALSE]
  <2>1. Header(chunk, p, FALSE) = y
    <3>1. Header(chunk, p, FALSE) =
            [p EXCEPT !.time = Plus(p.time, Value(chunk)), !.delta = Value(chunk),
               !.extended = k, !.absolute = FALSE]
      BY <1>3, <1>7 DEF Header
    <3>2. Plus(p.time, v) = time
      BY <1>4, <1>7
    <3> HIDE DEF e, k, v
    <3>3. k = e
      BY <1>3, Zenon DEF k
    <3> QED
      BY <1>3, <3>1, <3>2, <3>3, Zenon
  <2>2. p \in HeaderType /\ e \in BOOLEAN /\ b = FALSE
    BY <1>4, <1>7
  <2>3. p.length = m.length /\ p.type = m.type
    BY <1>7 DEF Formats
  <2> HIDE DEF e, v, b
  <2>4. y \in HeaderType /\ y.time = time /\ y.delta = v /\ y.length = p.length
        /\ y.type = p.type /\ y.extended = e /\ y.absolute = FALSE /\ y.stream = p.stream
    BY <1>1, <2>2 DEF HeaderType
  <2> HIDE DEF y
  <2>5. y = h
    <3>1. p.stream = m.stream
      BY <1>4, <1>7
    <3>2. y.stream = h.stream /\ y.delta = h.delta /\ y.absolute = h.absolute
          /\ y.extended = h.extended /\ y.time = h.time /\ y.length = h.length /\ y.type = h.type
      BY <1>1, <1>2, <3>1, <2>2, <2>3, <2>4, Zenon DEF v
    <3> QED
      BY <1>1, <2>4, <3>2, SameHeader
  <2> QED
    BY <2>1, <2>5
<1>8. CASE fmt = 3
  <2>1. p \in HeaderType /\ b = FALSE /\ p.length = m.length /\ p.type = m.type /\ d = p.delta
    BY <1>4, <1>8 DEF Formats
  <2> DEFINE y == [p EXCEPT !.time = time, !.absolute = FALSE]
  <2>2. Header(chunk, p, FALSE) = y
    <3>1. Header(chunk, p, FALSE) = Inherited(p, FALSE)
      BY <1>3, <1>8 DEF Header
    <3>2. Inherited(p, FALSE) = [p EXCEPT !.time = Plus(p.time, p.delta), !.absolute = FALSE]
      BY DEF Inherited
    <3>3. Plus(p.time, v) = time
      BY <1>4, <1>8
    <3>4. v = p.delta
      BY <1>2, <2>1
    <3> HIDE DEF v
    <3> QED
      BY <3>1, <3>2, <3>3, <3>4, Zenon
  <2>3. p.extended = e
    <3>1. p.extended \in BOOLEAN /\ (p.extended <=> d >= Marker)
      BY <1>1, <1>8, <2>1 DEF Sensible, HeaderType
    <3> QED
      BY <3>1
  <2> HIDE DEF e, v, b, d
  <2>4. y \in HeaderType /\ y.time = time /\ y.delta = p.delta /\ y.length = p.length
        /\ y.type = p.type /\ y.extended = p.extended /\ y.absolute = FALSE
        /\ y.stream = p.stream
    BY <2>1 DEF HeaderType
  <2> HIDE DEF y
  <2>5. y = h
    <3>1. p.stream = m.stream
      BY <1>4, <1>8
    <3>2. y.stream = h.stream /\ y.delta = h.delta /\ y.absolute = h.absolute
          /\ y.extended = h.extended /\ y.time = h.time /\ y.length = h.length /\ y.type = h.type
      BY <1>1, <1>2, <3>1, <2>1, <2>3, <2>4, Zenon DEF v
    <3> QED
      BY <1>1, <2>4, <3>2, SameHeader
  <2> QED
    BY <2>2, <2>5
<1>9. fmt = 0 \/ fmt = 1 \/ fmt = 2 \/ fmt = 3
  OBVIOUS
<1> QED
  BY <1>5, <1>6, <1>7, <1>8, <1>9, Zenon

\* The chunk is the next one of the message w, which o has received so far.
Joins(chunk, h, o, w, c) ==
    /\ Conforms(chunk, h)
    /\ chunk.csid = c
    /\ c \in Csids
    /\ o = Opened(h, c)
    /\ o.header = h
    /\ w \in Writings
    /\ w.header = h
    /\ h.length = w.message.length
    /\ h.type = w.message.type
    /\ h.stream = w.message.stream
    /\ w.left = h.length - o.received
    /\ \A i \in DOMAIN o.payload : o.payload[i] = w.number
    /\ chunk.body = [i \in 1..Len(chunk.body) |-> w.number]

LEMMA AgreedIdle ==
    ASSUME Agreement, NEW c \in Csids PROVE pLeft[c] = None <=> assembly[c] = None
  BY AbsenceAssumption DEF Agreement, InStep

LEMMA StartJoins ==
    ASSUME DecoderInv, Agreement, NEW c \in Csids, NEW m \in Messages, NEW time \in m.times,
           NEW fmt \in 0..3, NEW number \in Nat, pLeft[c] = None,
           fmt \in Formats(m, time, pHeaders[c]),
           NEW h, h = Written(m, time, fmt, pHeaders[c]), NEW n, n = MinOf(m.length, pSize),
           NEW w, w = [message |-> m, header |-> h, number |-> number, left |-> m.length],
           NEW chunk, chunk = Chunk(fmt, c, h, h.delta, n, number), NEW o, o = Opened(h, c)
    PROVE  Joins(chunk, h, o, w, c) /\ Len(chunk.body) = n
<1> DEFINE p == headers[c]
<1>1. p \in HeaderType \cup {None} /\ (p # None => Sensible(p)) /\ pHeaders[c] = p
  BY DEF DecoderInv, Agreement
<1>2. time \in Moments /\ m.length \in Nat /\ m.length \in 0..MaxMessage
  BY StreamAssumption, WireAssumption
<1>3. fmt \in Formats(m, time, p) /\ h = Written(m, time, fmt, p)
  BY <1>1
<1> HIDE DEF p
<1>4. /\ h \in HeaderType /\ Sensible(h) /\ (fmt # 0 => p # None) /\ h.delta \in Moments
      /\ h.length = m.length /\ h.type = m.type /\ h.stream = m.stream /\ h.time = time
  BY <1>1, <1>2, <1>3, WrittenIs
<1>5. chunkSize \in Nat /\ pSize = chunkSize /\ n \in Nat
  BY <1>2, WireAssumption DEF DecoderInv, Agreement, MinOf
<1>6. Carries(chunk, fmt, c, h, h.delta, n, number)
  BY <1>4, <1>5, ChunkCarries
<1>7. Reads(chunk, p, h)
  BY <1>1, <1>2, <1>3, <1>6, ReadBack
<1>8. assembly[c] = None /\ Continuing(c) = FALSE
  BY AgreedIdle DEF Continuing
<1>9. chunk \in Chunks /\ chunk.csid = c /\ chunk.fmt = fmt /\ Len(chunk.body) = n
      /\ chunk.body = [i \in 1..n |-> number]
  BY <1>6 DEF Carries
<1>10. h = HeaderOf(chunk)
  BY <1>7, <1>8, <1>9, Zenon DEF HeaderOf, p, Reads
<1>11. o = [header |-> h, payload |-> <<>>, received |-> 0, capacity |-> 0]
  BY <1>8 DEF Opened
<1>12. Take(o) = Len(chunk.body)
  BY <1>2, <1>4, <1>5, <1>9, <1>11 DEF Take, MinOf
<1>13. (h.extended <=> chunk.ext # None) /\ (h.extended => chunk.ext = Expected(h, Continuing(c)))
  <2>1. h.extended <=> h.delta >= Marker
    BY <1>4 DEF Sensible
  <2>2. Expected(h, Continuing(c)) = h.delta
    BY <1>8 DEF Expected
  <2>3. (chunk.ext # None <=> h.delta >= Marker) /\ (h.delta >= Marker => chunk.ext = h.delta)
    BY <1>6 DEF Carries
  <2> QED
    BY <2>1, <2>2, <2>3, Zenon
<1>14. Conforms(chunk, h)
  BY <1>4, <1>8, <1>9, <1>10, <1>12, <1>13, Zenon DEF Conforms, p
<1>15. w \in Writings /\ w.header = h /\ w.message = m /\ w.left = m.length /\ w.number = number
  BY <1>2, <1>4 DEF Writings
<1>16. o.header = h /\ o.received = 0 /\ w.left = h.length - o.received
       /\ \A i \in DOMAIN o.payload : o.payload[i] = w.number
  BY <1>2, <1>4, <1>11, <1>15
<1> QED
  BY <1>4, <1>9, <1>14, <1>15, <1>16, Zenon DEF Joins

LEMMA MoreJoins ==
    ASSUME DecoderInv, Agreement, NEW c \in Csids, NEW w, w = pLeft[c], w # None,
           NEW n, n = MinOf(w.left, pSize), NEW h, h = w.header,
           NEW v, v = IF h.absolute THEN h.time ELSE h.delta,
           NEW chunk, chunk = Chunk(3, c, h, v, n, w.number), NEW o, o = Opened(h, c)
    PROVE  Joins(chunk, h, o, w, c) /\ Len(chunk.body) = n /\ headers[c] = h
<1>1. assembly[c] # None /\ Continuing(c) = TRUE /\ o = assembly[c]
  BY AgreedIdle DEF Continuing, Opened
<1>2. InStep(w, o, headers[c]) /\ Unfinished(o) /\ headers[c] \in HeaderType
  BY <1>1 DEF Agreement, DecoderInv
<1>3. headers[c] = h /\ h \in HeaderType /\ o.header = h /\ w \in Writings /\ w.number \in Nat
      /\ w.left \in Nat
  BY <1>2 DEF InStep, Writings
<1>4. Sensible(h) /\ headers[c] # None
  BY <1>1, <1>3 DEF Agreement, DecoderInv
<1>5. v = h.delta /\ v \in Moments
  BY <1>3, <1>4 DEF Sensible, HeaderType
<1>6. chunkSize \in Nat /\ pSize = chunkSize /\ n \in Nat
  BY <1>3, WireAssumption DEF DecoderInv, Agreement, MinOf
<1>7. Carries(chunk, 3, c, h, v, n, w.number)
  <2>1. 3 \in 0..3
    OBVIOUS
  <2> QED
    BY <1>3, <1>5, <1>6, <2>1, ChunkCarries
<1>8. chunk \in Chunks /\ chunk.csid = c /\ chunk.fmt = 3 /\ Len(chunk.body) = n
      /\ chunk.body = [i \in 1..n |-> w.number]
  BY <1>7 DEF Carries
<1>9. h = HeaderOf(chunk)
  <2>1. Header(chunk, headers[c], Continuing(c)) = Inherited(headers[c], Continuing(c))
    BY <1>8 DEF Header
  <2>2. Inherited(headers[c], Continuing(c)) = headers[c]
    BY <1>1 DEF Inherited
  <2> QED
    BY <1>3, <1>8, <2>1, <2>2, Zenon DEF HeaderOf
<1>10. Take(o) = Len(chunk.body)
  BY <1>2, <1>3, <1>6, <1>8 DEF Take, InStep
<1>11. (h.extended <=> chunk.ext # None) /\ (h.extended => chunk.ext = Expected(h, Continuing(c)))
  <2>1. h.extended <=> h.delta >= Marker
    BY <1>4 DEF Sensible
  <2>2. Expected(h, Continuing(c)) = v
    BY <1>1 DEF Expected
  <2>3. (chunk.ext # None <=> v >= Marker) /\ (v >= Marker => chunk.ext = v)
    BY <1>7 DEF Carries
  <2> QED
    BY <1>5, <2>1, <2>2, <2>3, Zenon
<1>12. ~Replaced(h, assembly[c])
  BY <1>1, <1>3 DEF Replaced
<1>13. Conforms(chunk, h)
  BY <1>3, <1>4, <1>8, <1>9, <1>10, <1>11, <1>12, Zenon DEF Conforms
<1> QED
  BY <1>2, <1>3, <1>8, <1>13, Zenon DEF Joins, InStep

-----------------------------------------------------------------------------
(* Publisher and decoder stay in step.                                     *)

\* Every byte of r is k.
Filled(r, n, k) == (\A i \in DOMAIN r : r[i] = k) /\ r = [i \in 1..n |-> k]

\* Bytes of one message after bytes of the same message
LEMMA SameBytes ==
    ASSUME NEW k \in Nat, NEW p \in Seq(Nat), \A i \in DOMAIN p : p[i] = k, NEW n \in Nat,
           NEW q, q = [i \in 1..n |-> k], NEW r, r = p \o q
    PROVE  Filled(r, Len(p) + n, k)
<1>1. q \in Seq(Nat) /\ Len(q) = n /\ DOMAIN q = 1..n
  OBVIOUS
<1>2. Len(r) = Len(p) + n /\ r \in Seq(Nat) /\ DOMAIN r = 1..(Len(p) + n)
  BY <1>1, ConcatProperties
<1>3. ASSUME NEW i \in 1..(Len(p) + n) PROVE r[i] = k
  <2>1. CASE i <= Len(p)
    BY <1>1, <2>1
  <2>2. CASE ~(i <= Len(p))
    <3>1. r[i] = q[i - Len(p)] /\ i - Len(p) \in 1..n
      BY <1>1, <2>2
    <3> QED
      BY <3>1
  <2> QED
    BY <2>1, <2>2
<1> DEFINE L == Len(p) + n
<1>4. L \in Nat /\ r \in [1..L -> Nat]
  <2>1. r \in [1..Len(r) -> Nat] /\ Len(r) \in Nat
    BY <1>2, LenProperties
  <2> QED
    BY <1>2, <2>1
<1>5. \A i \in 1..L : r[i] = k
  BY <1>3
<1> HIDE DEF L
<1>6. Filled(r, L, k)
  BY <1>4, <1>5 DEF Filled
<1> QED
  BY <1>6 DEF L

\* What a chunk of the publisher leaves of its message
Advances(chunk, h, o, w, a, left) ==
    /\ a.header = h
    /\ a \in Assemblies
    /\ left = h.length - a.received
    /\ left \in Nat
    /\ \A i \in DOMAIN a.payload : a.payload[i] = w.number
    /\ a.payload = [i \in 1..a.received |-> w.number]

LEMMA JoinsAdvances ==
    ASSUME DecoderInv, NEW chunk, NEW h, NEW o, NEW w, NEW c, Joins(chunk, h, o, w, c),
           Defect(chunk) = "none", NEW a, a = Added(o, chunk.body),
           NEW left, left = w.left - Len(chunk.body)
    PROVE  Adds(chunk, h, o, a) /\ Advances(chunk, h, o, w, a, left)
<1>1. chunk \in Chunks /\ h = HeaderOf(chunk) /\ o = Opened(h, chunk.csid)
  BY DEF Joins, Conforms
<1>2. Adds(chunk, h, o, a)
  BY <1>1, ChunkAdds
<1>3. /\ a \in Assemblies /\ a.header = h /\ a.received \in Nat /\ o.received \in Nat
      /\ h.length \in Nat /\ a.received <= h.length /\ o.payload \in Seq(Nat)
      /\ Len(o.payload) = o.received /\ a.payload = o.payload \o chunk.body
  <2>1. Sound(a) /\ Sound(o) /\ a.header = o.header /\ o.header = h /\ h \in HeaderType
        /\ a.payload = o.payload \o chunk.body
    BY <1>2 DEF Adds, Joins
  <2>2. /\ a \in Assemblies /\ a.received <= a.header.length
        /\ o \in Assemblies /\ Len(o.payload) = o.received
    BY <2>1 DEF Sound
  <2>3. h.length \in Nat
    BY <2>1, WireAssumption DEF HeaderType
  <2>4. a.received \in Nat /\ o.received \in Nat /\ o.payload \in Seq(Nat)
    BY <2>2 DEF Assemblies
  <2> QED
    BY <2>1, <2>2, <2>3, <2>4
<1> DEFINE n == Len(chunk.body)
           k == w.number
<1>4. n \in Nat /\ a.received = o.received + n /\ w.left = h.length - o.received
  BY <1>1, <1>2 DEF Adds, Joins, Chunks
<1>5. k \in Nat /\ chunk.body = [i \in 1..n |-> k] /\ \A i \in DOMAIN o.payload : o.payload[i] = k
  BY DEF Joins, Writings
<1> HIDE DEF n, k
<1>6. left = h.length - a.received /\ left \in Nat
  BY <1>3, <1>4 DEF n
<1>7. Filled(a.payload, Len(o.payload) + n, k)
  <2> SUFFICES ASSUME NEW p, p = o.payload, NEW q, q = chunk.body, NEW r, r = a.payload
               PROVE  Filled(r, Len(p) + n, k)
    OBVIOUS
  <2> QED
    BY <1>3, <1>4, <1>5, SameBytes
<1>8. Filled(a.payload, a.received, k)
  BY <1>3, <1>4, <1>7
<1> QED
  BY <1>2, <1>3, <1>6, <1>8 DEF Advances, k, Filled

LEMMA AwaitsAgrees ==
    ASSUME DecoderInv, Agreement, NEW chunk, NEW h, NEW o, NEW w, NEW c,
           Joins(chunk, h, o, w, c), NEW a, NEW left, Advances(chunk, h, o, w, a, left),
           Awaits(c, h, o, a), Concludes(w, left, c), pHeaders' = [headers EXCEPT ![c] = h]
    PROVE  Agreement'
<1>1. c \in Csids /\ h \in HeaderType /\ Sensible(h) /\ w \in Writings /\ a # None
  BY AbsenceAssumption DEF Joins, Conforms, Advances
<1>2. left \in Nat /\ left > 0 /\ left # 0
  BY <1>1, WireAssumption DEF Advances, Awaits, HeaderType, Assemblies
<1> DEFINE u == [w EXCEPT !.left = left]
<1>3. u \in Writings /\ u.left = left /\ u.header = w.header /\ u.message = w.message
      /\ u.number = w.number
  BY <1>1, <1>2 DEF Writings
<1>4. /\ completed' = completed /\ pSize' = pSize
      /\ pLeft' = [x \in Csids |-> IF x = c THEN u ELSE pLeft[x]]
  BY <1>2 DEF Concludes
<1> HIDE DEF u
<1>5. pSize' = chunkSize' /\ pHeaders' = headers' /\ delivered' = completed'
  BY <1>4 DEF Agreement, Awaits
<1>6. pLeft' \in [Csids -> Writings \cup {None}]
  BY <1>3, <1>4 DEF Agreement
<1>7. ASSUME NEW x \in Csids
      PROVE  /\ headers'[x] # None => Sensible(headers'[x])
             /\ assembly'[x] = None => pLeft'[x] = None
             /\ assembly'[x] # None => InStep(pLeft'[x], assembly'[x], headers'[x])
  <2>1. CASE x = c
    <3>1. headers'[x] = h /\ assembly'[x] = a /\ pLeft'[x] = u
      BY <1>1, <1>4, <2>1 DEF Awaits, DecoderInv
    <3>2. InStep(u, a, h)
      BY <1>3 DEF InStep, Joins, Advances
    <3> QED
      BY <1>1, <3>1, <3>2
  <2>2. CASE x # c
    <3>1. headers'[x] = headers[x] /\ assembly'[x] = assembly[x] /\ pLeft'[x] = pLeft[x]
      BY <1>1, <1>4, <2>2 DEF Awaits, DecoderInv
    <3> QED
      BY <3>1 DEF Agreement
  <2> QED
    BY <2>1, <2>2
<1> QED
  BY <1>5, <1>6, <1>7 DEF Agreement

LEMMA HandsOverAgrees ==
    ASSUME DecoderInv, Agreement, NEW chunk, NEW h, NEW o, NEW w, NEW c,
           Joins(chunk, h, o, w, c), NEW a, NEW left, Advances(chunk, h, o, w, a, left),
           a.received = a.header.length, NEW b,
           HandsOver(w.message, a.header, c, a.payload, [headers EXCEPT ![c] = h], Removed(c), b),
           Concludes(w, left, c), pHeaders' = [headers EXCEPT ![c] = h]
    PROVE  Agreement'
<1> DEFINE m == w.message
<1>1. c \in Csids /\ h \in HeaderType /\ Sensible(h) /\ w \in Writings /\ a.header = h
      /\ w.header = h /\ h.length = m.length /\ h.type = m.type /\ h.stream = m.stream
  BY DEF Joins, Conforms, Advances
<1>2. left = 0
  BY <1>1, WireAssumption DEF Advances, HeaderType
<1>3. /\ completed' = Append(completed, [csid |-> c, time |-> w.header.time,
             type |-> m.type, stream |-> m.stream,
             payload |-> [i \in 1..m.length |-> w.number]])
      /\ pSize' = IF m.type = "size" THEN m.arg ELSE pSize
      /\ pLeft' = [x \in Csids |-> IF x = c THEN None
                     ELSE IF m.type = "abort" /\ x = m.arg THEN None ELSE pLeft[x]]
  BY <1>2 DEF Concludes
<1>4. /\ delivered' = Append(delivered, [csid |-> c, time |-> h.time,
             type |-> h.type, stream |-> h.stream, payload |-> a.payload])
      /\ chunkSize' = IF h.type = "size" THEN m.arg ELSE chunkSize
      /\ headers' = [headers EXCEPT ![c] = h]
      /\ assembly' = [x \in Csids |-> IF h.type = "abort" /\ x = m.arg THEN None
                                      ELSE Removed(c)[x]]
  BY <1>1 DEF HandsOver
<1>5. delivered' = completed'
  <2>1. a.payload = [i \in 1..m.length |-> w.number]
    BY <1>1 DEF Advances
  <2>2. delivered = completed
    BY DEF Agreement
  <2> QED
    BY <1>1, <1>3, <1>4, <2>1, <2>2
<1>6. pSize' = chunkSize' /\ pHeaders' = headers'
  BY <1>1, <1>3, <1>4 DEF Agreement
<1>7. pLeft' \in [Csids -> Writings \cup {None}]
  BY <1>3 DEF Agreement
<1>8. ASSUME NEW x \in Csids
      PROVE  /\ headers'[x] # None => Sensible(headers'[x])
             /\ assembly'[x] = None => pLeft'[x] = None
             /\ assembly'[x] # None => InStep(pLeft'[x], assembly'[x], headers'[x])
  <2>1. CASE x = c
    <3>1. headers'[x] = h /\ assembly'[x] = None /\ pLeft'[x] = None
      BY <1>1, <1>3, <1>4, <2>1 DEF DecoderInv, Removed
    <3> QED
      BY <1>1, <3>1
  <2>2. CASE x # c
    <3>1. headers'[x] = headers[x] /\ Removed(c)[x] = assembly[x]
      BY <1>1, <1>4, <2>2 DEF DecoderInv, Removed
    <3>2. CASE m.type = "abort" /\ x = m.arg
      <4>1. assembly'[x] = None /\ pLeft'[x] = None
        BY <1>1, <1>3, <1>4, <3>2
      <4> QED
        BY <3>1, <4>1 DEF Agreement
    <3>3. CASE ~(m.type = "abort" /\ x = m.arg)
      <4>1. assembly'[x] = assembly[x] /\ pLeft'[x] = pLeft[x]
        BY <1>1, <1>3, <1>4, <2>2, <3>1, <3>3
      <4> QED
        BY <3>1, <4>1 DEF Agreement
    <3> QED
      BY <3>2, <3>3
  <2> QED
    BY <2>1, <2>2
<1> QED
  BY <1>5, <1>6, <1>7, <1>8 DEF Agreement

LEMMA OpenMeans ==
    ASSUME WireInv, status = "open", conforming PROVE DecoderInv /\ Agreement /\ why = "none"
  BY DEF WireInv, StatusInv

\* A refusal ends the run.
LEMMA RefusalKeeps ==
    ASSUME WireInv, status = "open", NEW r, Refuses(r), r # "none", conforming' \in BOOLEAN,
           UNCHANGED <<mode, connection>>, sent' \in 0..MaxSent,
           conforming' => r \in Limits \cup HandingDefects \cup {"ended in a message", "bad tag"}
    PROVE  WireInv'
<1>1. DecoderInv'
  BY RefusesKeeps DEF WireInv
<1>2. status' = "refused" /\ why' = r /\ status' # "open"
  BY DEF Refuses
<1>3. StatusInv'
  BY <1>2 DEF WireInv, StatusInv
<1>4. ConformingStreamIsDelivered'
  BY <1>2 DEF ConformingStreamIsDelivered, Limits, HandingDefects, PacketDefects
<1> QED
  BY <1>1, <1>2, <1>3, <1>4 DEF WireInv

LEMMA PublishKeeps ==
    ASSUME WireInv, status = "open", conforming, NEW chunk, NEW h, NEW o, NEW w, NEW c,
           Joins(chunk, h, o, w, c), NEW left, left = w.left - Len(chunk.body),
           Concludes(w, left, c), pHeaders' = [headers EXCEPT ![c] = h],
           NEW m, m = w.message, Decodes(chunk, m), UNCHANGED <<mode, connection, conforming>>,
           sent' \in 0..MaxSent
    PROVE  WireInv'
<1>1. DecoderInv /\ Agreement /\ why = "none"
  BY OpenMeans
<1> SUFFICES ASSUME NEW a, a = Added(o, chunk.body) PROVE WireInv'
  OBVIOUS
<1>2. /\ chunk \in Chunks /\ h = HeaderOf(chunk) /\ o = Opened(h, chunk.csid) /\ chunk.csid = c
      /\ m \in Messages /\ Conforms(chunk, h)
  BY DEF Joins, Conforms, Writings
<1>3. Ways(chunk, m, h, o, a)
  BY <1>1, <1>2, DecodesWays
<1>4. Defect(chunk) \in Limits \cup {"none"}
  BY <1>2, ConformsTaken
<1>5. ASSUME Defect(chunk) = "none"
      PROVE  Adds(chunk, h, o, a) /\ Advances(chunk, h, o, w, a, left) /\ Uniform(a.payload)
  <2>1. Adds(chunk, h, o, a) /\ Advances(chunk, h, o, w, a, left)
    BY <1>1, <1>5, JoinsAdvances
  <2>2. w.number \in Nat
    BY DEF Joins, Writings
  <2>3. Uniform(a.payload)
    BY <2>1, <2>2 DEF Advances, Uniform
  <2> QED
    BY <2>1, <2>3
<1>6. DecoderInv'
  BY <1>1, <1>2, <1>5, DecodesKeeps
<1>7. ASSUME NEW r \in Limits \cup HandingDefects, Refuses(r) PROVE WireInv'
  <2>1. r # "none" /\ conforming' \in BOOLEAN
    BY <1>7 DEF Limits, HandingDefects, PacketDefects, WireInv, StatusInv
  <2>2. r \in Limits \cup HandingDefects \cup {"ended in a message", "bad tag"}
    BY <1>7
  <2> QED
    BY <1>7, <2>1, <2>2, RefusalKeeps
<1>8. ASSUME Agreement', UNCHANGED <<status, why>> PROVE WireInv'
  <2>1. StatusInv'
    BY <1>8 DEF WireInv, StatusInv
  <2>2. ConformingStreamIsDelivered'
    BY <1>8 DEF ConformingStreamIsDelivered, Agreement
  <2> QED
    BY <1>6, <1>8, <2>1, <2>2 DEF WireInv
<1>9. CASE Defect(chunk) # "none" /\ Refuses(Defect(chunk))
  BY <1>4, <1>7, <1>9
<1>10. CASE Defect(chunk) = "none" /\ \E r \in HandingDefects : Refuses(r)
  BY <1>7, <1>10
<1>11. CASE Defect(chunk) = "none" /\ Awaits(chunk.csid, h, o, a)
  <2>1. Awaits(c, h, o, a)
    BY <1>2, <1>11
  <2>2. Agreement'
    BY <1>1, <1>5, <1>11, <2>1, AwaitsAgrees
  <2> QED
    BY <1>8, <2>1, <2>2 DEF Awaits
<1>12. CASE /\ Defect(chunk) = "none"
            /\ a.received = a.header.length
            /\ HandsOver(m, a.header, chunk.csid, a.payload, [headers EXCEPT ![chunk.csid] = h],
                    Removed(chunk.csid), (buffered + (a.capacity - o.capacity)) - a.capacity)
  <2> SUFFICES ASSUME NEW b, b = (buffered + (a.capacity - o.capacity)) - a.capacity PROVE WireInv'
    OBVIOUS
  <2>1. HandsOver(w.message, a.header, c, a.payload, [headers EXCEPT ![c] = h], Removed(c), b)
    BY <1>2, <1>12
  <2>2. Agreement'
    BY <1>1, <1>5, <1>12, <2>1, HandsOverAgrees
  <2> QED
    BY <1>8, <2>1, <2>2 DEF HandsOver
<1> QED
  BY <1>3, <1>9, <1>10, <1>11, <1>12, Zenon DEF Ways

-----------------------------------------------------------------------------
(* A chunk outside the rules.                                              *)

\* What a header of its own says
Tells(chunk, p, h, v) ==
    /\ chunk.fmt = 0 => /\ h.time = v /\ h.length = chunk.length /\ h.type = chunk.type
                        /\ h.stream = chunk.stream
    /\ chunk.fmt = 1 => /\ h.time = Plus(p.time, v) /\ h.length = chunk.length
                        /\ h.type = chunk.type
    /\ chunk.fmt = 2 => h.time = Plus(p.time, v)
    /\ chunk.fmt # 3 => (h.extended <=> chunk.raw = Marker)

LEMMA HeaderTells ==
    ASSUME NEW chunk \in Chunks, NEW prior \in HeaderType, NEW on \in BOOLEAN,
           NEW h, h = Header(chunk, prior, on), NEW v, v = Value(chunk)
    PROVE  Tells(chunk, prior, h, v)
<1> DEFINE e == chunk.raw = Marker
           t == Plus(prior.time, v)
<1>1. ASSUME chunk.fmt = 0
      PROVE  /\ h.time = v /\ h.length = chunk.length /\ h.type = chunk.type
             /\ h.stream = chunk.stream /\ h.extended = e
  <2>1. h = [time |-> v, delta |-> v, length |-> chunk.length, type |-> chunk.type,
             stream |-> chunk.stream, extended |-> e, absolute |-> TRUE]
    BY <1>1 DEF Header
  <2> HIDE DEF e, t
  <2> QED
    BY <2>1
<1>2. ASSUME chunk.fmt = 1
      PROVE  h.time = t /\ h.length = chunk.length /\ h.type = chunk.type /\ h.extended = e
  <2>1. h = [prior EXCEPT !.time = t, !.delta = v, !.length = chunk.length,
              !.type = chunk.type, !.extended = e, !.absolute = FALSE]
    BY <1>2 DEF Header
  <2> HIDE DEF e, t
  <2> QED
    BY <2>1 DEF HeaderType
<1>3. ASSUME chunk.fmt = 2 PROVE h.time = t /\ h.extended = e
  <2>1. h = [prior EXCEPT !.time = t, !.delta = v, !.extended = e, !.absolute = FALSE]
    BY <1>3 DEF Header
  <2> HIDE DEF e, t
  <2> QED
    BY <2>1 DEF HeaderType
<1>4. chunk.fmt = 0 \/ chunk.fmt = 1 \/ chunk.fmt = 2 \/ chunk.fmt = 3
  BY DEF Chunks
<1>5. chunk.fmt # 3 => h.extended = e
  BY <1>1, <1>2, <1>3, <1>4, Zenon
<1> QED
  BY <1>1, <1>2, <1>3, <1>5, Zenon DEF Tells

\* A chunk that is taken while a message is unfinished repeats its header.
LEMMA TakenRepeats ==
    ASSUME DecoderInv, Agreement, NEW chunk \in Chunks, Defect(chunk) = "none",
           NEW c, c = chunk.csid, assembly[c] # None, NEW w, w = pLeft[c]
    PROVE  Repeats(chunk, w)
<1>1. c \in Csids /\ Continuing(c) /\ Continuing(c) \in BOOLEAN
  BY DEF Chunks, Continuing
<1> DEFINE p == headers[c]
           v == Value(chunk)
<1>2. InStep(w, assembly[c], p) /\ p \in HeaderType
  BY <1>1 DEF Agreement, DecoderInv
<1>3. w # None /\ w.header = p /\ assembly[c].header = p /\ p.time \in Moments
  BY <1>2, AbsenceAssumption DEF InStep, HeaderType
<1> SUFFICES ASSUME NEW h, h = HeaderOf(chunk) PROVE Repeats(chunk, w)
  OBVIOUS
<1>4. Taken(chunk, h, Opened(h, chunk.csid))
  BY DefectNone
<1>5. /\ h.time = p.time /\ h.length = p.length /\ h.type = p.type /\ h.stream = p.stream
      /\ (h.extended <=> chunk.ext # None)
  BY <1>1, <1>3, <1>4 DEF Taken, Replaced
<1>6. h = Header(chunk, p, Continuing(c))
  BY DEF HeaderOf
<1> HIDE DEF p
<1>7. Tells(chunk, p, h, v)
  BY <1>1, <1>2, <1>6, HeaderTells
<1>8. ASSUME chunk.fmt = 1 \/ chunk.fmt = 2 PROVE v = 0
  <2>1. v \in Moments
    BY <1>5, <1>7, <1>8, ValueIs DEF Tells
  <2>2. Plus(p.time, v) = p.time
    BY <1>5, <1>7, <1>8 DEF Tells
  <2> HIDE DEF v
  <2> QED
    BY <1>3, <2>1, <2>2, DeltasAdd
<1>9. chunk.fmt \in 0..3
  BY DEF Chunks
<1> HIDE DEF v
<1>10. chunk.fmt # 3 => v = IF chunk.fmt = 0 THEN w.header.time ELSE 0
  BY <1>3, <1>5, <1>7, <1>8, <1>9 DEF Tells
<1>11. chunk.fmt \in {0, 1} => chunk.length = w.header.length /\ chunk.type = w.header.type
  BY <1>3, <1>5, <1>7 DEF Tells
<1>12. chunk.fmt = 0 => chunk.stream = w.header.stream
  BY <1>3, <1>5, <1>7 DEF Tells
<1> QED
  BY <1>3, <1>10, <1>11, <1>12 DEF Repeats, v

\* Its bytes are those of message `number`.
Labelled(stray, number) == [stray EXCEPT !.body = [i \in DOMAIN @ |-> number]]

LEMMA StrayUniform ==
    ASSUME DecoderInv, Agreement, NEW stray \in Chunks, NEW c, c = stray.csid,
           NEW w, w = pLeft[c], NEW fresh \in Nat,
           NEW number, number = IF Repeats(stray, w) THEN w.number ELSE fresh,
           NEW chunk, chunk = Labelled(stray, number),
           NEW h, h = HeaderOf(chunk), NEW o, o = Opened(h, chunk.csid),
           NEW a, a = Added(o, chunk.body)
    PROVE  chunk \in Chunks /\ (Defect(chunk) = "none" => Uniform(a.payload))
<1>1. c \in Csids /\ stray.body \in Seq(Nat)
  BY DEF Chunks
<1>2. number \in Nat
  <2>1. w \in Writings \cup {None}
    BY <1>1 DEF Agreement
  <2> QED
    BY <2>1 DEF Repeats, Writings
<1> DEFINE n == Len(stray.body)
           body == [i \in 1..n |-> number]
<1>3. n \in Nat /\ body \in Seq(Nat) /\ DOMAIN stray.body = 1..n
  BY <1>1, <1>2
<1>4. chunk = [stray EXCEPT !.body = body]
  BY <1>3 DEF Labelled
<1> HIDE DEF body
<1>5. /\ chunk \in Chunks /\ chunk.body = body /\ chunk.fmt = stray.fmt /\ chunk.csid = stray.csid
      /\ chunk.raw = stray.raw /\ chunk.ext = stray.ext /\ chunk.length = stray.length
      /\ chunk.type = stray.type /\ chunk.stream = stray.stream
  BY <1>3, <1>4 DEF Chunks
<1>6. ASSUME Defect(chunk) = "none" PROVE Uniform(a.payload)
  <2>1. Adds(chunk, h, o, a)
    BY <1>5, <1>6, ChunkAdds
  <2>2. a.payload = o.payload \o body /\ o.payload \in Seq(Nat)
    BY <1>5, <2>1 DEF Adds, Sound, Assemblies
  <2>3. \A i \in DOMAIN o.payload : o.payload[i] = number
    <3>1. CASE assembly[c] = None
      <4>1. o.payload = <<>>
        BY <1>5, <3>1 DEF Opened, Continuing
      <4> QED
        BY <4>1
    <3>2. CASE assembly[c] # None
      <4>1. Repeats(chunk, w)
        BY <1>5, <1>6, <3>2, TakenRepeats
      <4>2. Repeats(stray, w)
        BY <1>5, <4>1 DEF Repeats, Value
      <4>3. o = assembly[c] /\ InStep(w, assembly[c], headers[c])
        BY <1>1, <1>5, <3>2 DEF Opened, Continuing, Agreement
      <4> QED
        BY <4>2, <4>3 DEF InStep
    <3> QED
      BY <3>1, <3>2
  <2>4. Filled(a.payload, Len(o.payload) + n, number)
    <3> SUFFICES ASSUME NEW p, p = o.payload, NEW r, r = a.payload
                 PROVE  Filled(r, Len(p) + n, number)
      OBVIOUS
    <3>1. body = [i \in 1..n |-> number]
      BY DEF body
    <3> HIDE DEF n
    <3> QED
      BY <1>2, <1>3, <2>2, <2>3, <3>1, SameBytes
  <2>5. \A i \in DOMAIN a.payload : a.payload[i] = number
    BY <2>4, Zenon DEF Filled
  <2> QED
    BY <1>2, <2>5, Zenon DEF Uniform
<1> QED
  BY <1>5, <1>6

-----------------------------------------------------------------------------
(* The invariant.                                                          *)

LEMMA WireInitInv ==
    ASSUME WireInit PROVE WireInv
<1>1. /\ assembly = [c \in Csids |-> None] /\ headers = [c \in Csids |-> None]
      /\ pLeft = [c \in Csids |-> None] /\ pHeaders = [c \in Csids |-> None]
      /\ bindings = [t \in PacketTracks |-> None] /\ buffered = 0
      /\ chunkSize \in ChunkSizes /\ pSize = chunkSize
  BY DEF WireInit, FreshDecoder
<1>2. Held(assembly) = 0
  BY <1>1, HeldNothing
<1>3. <<>> \in Seq(EventType) /\ <<>> \in Seq(Deliveries) /\ Len(<<>>) = 0
  OBVIOUS
<1>4. sink \in Sinks /\ delivered \in Seq(Deliveries) /\ delivered = completed
  BY <1>3, WireAssumption DEF WireInit, Sinks
<1>5. DecoderInv
  BY <1>1, <1>2, <1>4, WireAssumption DEF DecoderInv, Bindings
<1>6. Agreement
  BY <1>1, <1>4 DEF Agreement
<1>7. StatusInv
  BY WireAssumption DEF WireInit, StatusInv
<1>8. ConformingStreamIsDelivered
  BY <1>4 DEF WireInit, ConformingStreamIsDelivered
<1> QED
  BY <1>5, <1>6, <1>7, <1>8 DEF WireInv

LEMMA StartKeeps ==
    ASSUME WireInv, NEW c \in Csids, NEW m \in Messages, NEW fmt \in 0..3, NEW time \in m.times,
           PublishStart(c, m, time, fmt)
    PROVE  WireInv'
<1>1. status = "open" /\ conforming
  BY DEF PublishStart
<1>2. DecoderInv /\ Agreement
  BY <1>1, OpenMeans
<1>3. sent' = sent + 1 /\ sent < MaxSent /\ sent \in 0..MaxSent
  BY DEF PublishStart, WireInv, StatusInv
<1>4. sent' \in Nat /\ sent' \in 0..MaxSent
  BY <1>3, WireAssumption
<1> SUFFICES ASSUME NEW k \in Nat, k = sent', NEW h, h = Written(m, time, fmt, pHeaders[c]),
                    NEW n, n = MinOf(m.length, pSize),
                    NEW w, w = [message |-> m, header |-> h, number |-> k, left |-> m.length],
                    NEW chunk, chunk = Chunk(fmt, c, h, h.delta, n, k),
                    NEW o, o = Opened(h, c)
             PROVE  WireInv'
  BY <1>4
<1>5. /\ pLeft[c] = None /\ fmt \in Formats(m, time, pHeaders[c])
      /\ pHeaders' = [pHeaders EXCEPT ![c] = h]
      /\ Concludes(w, m.length - n, c)
      /\ Decodes(chunk, m)
      /\ UNCHANGED <<mode, connection, conforming>>
  BY DEF PublishStart
<1>6. Joins(chunk, h, o, w, c) /\ Len(chunk.body) = n
  BY <1>2, <1>5, StartJoins
<1>7. w.message = m /\ w.left = m.length /\ pHeaders = headers
  BY <1>2 DEF Agreement
<1> SUFFICES ASSUME NEW left, left = w.left - Len(chunk.body) PROVE WireInv'
  OBVIOUS
<1>8. Concludes(w, left, c)
  BY <1>5, <1>6, <1>7
<1>9. pHeaders' = [headers EXCEPT ![c] = h] /\ m = w.message
  BY <1>5, <1>7
<1> QED
  BY <1>1, <1>4, <1>5, <1>6, <1>8, <1>9, PublishKeeps

LEMMA MoreKeeps ==
    ASSUME WireInv, NEW c \in Csids, PublishMore(c) PROVE WireInv'
<1>1. status = "open" /\ conforming
  BY DEF PublishMore
<1>2. DecoderInv /\ Agreement
  BY <1>1, OpenMeans
<1>3. sent' \in 0..MaxSent
  BY DEF PublishMore, WireInv, StatusInv
<1> SUFFICES ASSUME NEW w, w = pLeft[c], NEW n, n = MinOf(w.left, pSize), NEW h, h = w.header,
                    NEW v, v = IF h.absolute THEN h.time ELSE h.delta,
                    NEW chunk, chunk = Chunk(3, c, h, v, n, w.number), NEW o, o = Opened(h, c),
                    NEW m, m = w.message
             PROVE  WireInv'
  OBVIOUS
<1>4. /\ w # None
      /\ Concludes(w, w.left - n, c)
      /\ Decodes(chunk, m)
      /\ UNCHANGED <<mode, connection, pHeaders, conforming>>
  BY DEF PublishMore
<1>5. Joins(chunk, h, o, w, c) /\ Len(chunk.body) = n /\ headers[c] = h
  BY <1>2, <1>4, MoreJoins
<1> SUFFICES ASSUME NEW left, left = w.left - Len(chunk.body) PROVE WireInv'
  OBVIOUS
<1>6. Concludes(w, left, c)
  BY <1>4, <1>5
<1>7. pHeaders' = [headers EXCEPT ![c] = h]
  BY <1>2, <1>4, <1>5 DEF Agreement, DecoderInv
<1> QED
  BY <1>1, <1>3, <1>4, <1>5, <1>6, <1>7, PublishKeeps

LEMMA StrayKeeps ==
    ASSUME WireInv, NEW stray \in Strays, NEW m \in Messages, Stray(stray, m) PROVE WireInv'
<1>1. status = "open" /\ conforming /\ conforming' = FALSE /\ UNCHANGED <<mode, connection>>
  BY DEF Stray
<1>2. DecoderInv /\ Agreement
  BY <1>1, OpenMeans
<1>3. sent' = sent + 1 /\ sent < MaxSent /\ sent \in 0..MaxSent
  BY DEF Stray, WireInv, StatusInv
<1>4. sent' \in Nat /\ sent' \in 0..MaxSent /\ stray \in Chunks
  BY <1>3, WireAssumption, StreamAssumption
<1> SUFFICES ASSUME NEW fresh \in Nat, fresh = sent', NEW c, c = stray.csid, NEW w, w = pLeft[c],
                    NEW number, number = IF Repeats(stray, w) THEN w.number ELSE fresh,
                    NEW chunk, chunk = Labelled(stray, number),
                    NEW h, h = HeaderOf(chunk), NEW o, o = Opened(h, chunk.csid),
                    NEW a, a = Added(o, chunk.body)
             PROVE  WireInv'
  BY <1>4
<1>5. Decodes(chunk, m)
  BY DEF Stray, Labelled
<1>6. chunk \in Chunks /\ (Defect(chunk) = "none" => Uniform(a.payload))
  BY <1>2, <1>4, StrayUniform
<1>7. DecoderInv'
  BY <1>2, <1>5, <1>6, DecodesKeeps
<1>8. Ways(chunk, m, h, o, a)
  BY <1>2, <1>5, <1>6, DecodesWays
<1>9. \/ status' = "refused" /\ why' # "none"
      \/ UNCHANGED <<status, why>>
  <2>1. "none" \notin HandingDefects
    BY DEF HandingDefects, PacketDefects
  <2> QED
    BY <1>8, <2>1, Zenon DEF Ways, Refuses, Awaits, HandsOver
<1>10. StatusInv'
  BY <1>1, <1>4, <1>9 DEF WireInv, StatusInv
<1>11. ConformingStreamIsDelivered'
  BY <1>1 DEF ConformingStreamIsDelivered
<1> QED
  BY <1>1, <1>7, <1>10, <1>11 DEF WireInv

\* A connection begins when no message of the last one is unfinished.
Reconnects ==
    /\ \A c \in Csids : ~Continuing(c)
    /\ connection < MaxConnections
    /\ Len(sink) < MaxSinkEvents
    /\ connection' = connection + 1
    /\ sink' = Append(sink, [kind |-> "reconnect", track |-> None, csid |-> None, time |-> 0,
                             stream |-> None])
    /\ \E size \in ChunkSizes : chunkSize' = size /\ pSize' = size
    /\ headers' = [c \in Csids |-> None]
    /\ pHeaders' = [c \in Csids |-> None]
    /\ bindings' = [t \in PacketTracks |-> None]
    /\ pLeft' = [c \in Csids |-> None]
    /\ UNCHANGED <<status, why, assembly, buffered, delivered, sent, conforming, completed, mode>>

LEMMA ReconnectsKeeps ==
    ASSUME WireInv, status = "open", Reconnects PROVE WireInv'
<1>1. DecoderInv /\ StatusInv /\ why = "none"
  BY DEF WireInv, StatusInv
<1>2. chunkSize' \in 1..MaxChunkSize /\ pSize' = chunkSize'
  BY WireAssumption DEF Reconnects
<1> DEFINE e == [kind |-> "reconnect", track |-> None, csid |-> None, time |-> 0, stream |-> None]
<1>3. sink' \in Sinks
  <2>1. e \in EventType
    BY DEF EventType
  <2>2. sink' = Append(sink, e) /\ sink \in Sinks /\ Len(sink) < MaxSinkEvents
    BY <1>1 DEF Reconnects, DecoderInv
  <2> HIDE DEF e
  <2> QED
    BY <2>1, <2>2, SinkGrows
<1>4. \A c \in Csids : assembly'[c] = None
  BY DEF Reconnects, Continuing
<1>5. assembly' = assembly /\ buffered' = buffered /\ delivered' = delivered
      /\ headers' = [c \in Csids |-> None] /\ bindings' \in Bindings
  BY DEF Reconnects, Bindings
<1>6. DecoderInv'
  BY <1>1, <1>2, <1>3, <1>4, <1>5 DEF DecoderInv
<1>7. StatusInv'
  BY <1>1, WireAssumption DEF Reconnects, StatusInv
<1>8. ASSUME conforming PROVE Agreement'
  <2>1. delivered' = completed'
    BY <1>8 DEF WireInv, Agreement, Reconnects
  <2>2. pHeaders' = headers' /\ pLeft' = [c \in Csids |-> None]
    BY DEF Reconnects
  <2> QED
    BY <1>2, <1>4, <1>5, <2>1, <2>2 DEF Agreement
<1>9. ConformingStreamIsDelivered'
  BY <1>1, <1>8 DEF ConformingStreamIsDelivered, Agreement, Reconnects
<1> QED
  BY <1>6, <1>7, <1>8, <1>9 DEF WireInv, Reconnects

\* The input has ended, between messages.
LEMMA AcceptKeeps ==
    ASSUME WireInv, status = "open", status' = "accepted",
           UNCHANGED <<mode, connection, publisherVars, why, chunkSize, headers, assembly,
                       buffered, bindings, sink, delivered>>
    PROVE  WireInv'
<1>1. DecoderInv'
  BY DEF WireInv, DecoderInv
<1>2. StatusInv'
  BY DEF WireInv, StatusInv, publisherVars
<1>3. ConformingStreamIsDelivered'
  BY DEF WireInv, ConformingStreamIsDelivered, publisherVars
<1> QED
  BY <1>1, <1>2, <1>3 DEF WireInv

LEMMA EndOfConnectionKeeps ==
    ASSUME WireInv, EndOfConnection PROVE WireInv'
<1>1. status = "open" /\ UNCHANGED mode
  BY DEF EndOfConnection
<1>2. ASSUME NEW r \in {"ended in a message", "too many events"}, Refuses(r),
             UNCHANGED <<connection, publisherVars>>
      PROVE  WireInv'
  <2>1. r # "none" /\ r \in Limits \cup HandingDefects \cup {"ended in a message", "bad tag"}
    BY <1>2 DEF HandingDefects, PacketDefects
  <2>2. conforming' \in BOOLEAN /\ sent' \in 0..MaxSent /\ UNCHANGED <<mode, connection>>
    BY <1>1, <1>2 DEF WireInv, StatusInv, publisherVars
  <2> QED
    BY <1>1, <1>2, <2>1, <2>2, RefusalKeeps
<1>3. \/ \E r \in {"ended in a message", "too many events"} :
           Refuses(r) /\ UNCHANGED <<connection, publisherVars>>
      \/ /\ status' = "accepted"
         /\ UNCHANGED <<mode, connection, publisherVars, why, chunkSize, headers, assembly,
                        buffered, bindings, sink, delivered>>
      \/ Reconnects
  BY DEF EndOfConnection, Reconnects
<1> QED
  BY <1>1, <1>2, <1>3, AcceptKeeps, ReconnectsKeeps

LEMMA FlvTagKeeps ==
    ASSUME WireInv, NEW tag \in Tags, FlvTag(tag) PROVE WireInv'
<1>1. /\ status = "open" /\ why = "none" /\ DecoderInv /\ StatusInv
      /\ sent' = sent + 1 /\ sent < MaxSent /\ sent \in 0..MaxSent
      /\ UNCHANGED <<mode, connection, pHeaders, pLeft, pSize, conforming, completed>>
  BY DEF FlvTag, WireInv, StatusInv
<1>2. sent' \in 0..MaxSent /\ conforming' \in BOOLEAN
  BY <1>1, WireAssumption DEF StatusInv
<1> DEFINE csid == IF tag.type = "audio" THEN 3 ELSE 4
           out == Parsed(tag.packets, tag.time, csid, None)
<1>3. out \in Outs
  <2>1. tag.time \in Moments /\ csid \in Nat /\ tag \in Messages \cup Tags /\ None \in Nat \cup {None}
        /\ bindings \in Bindings /\ sink \in Sinks
    BY <1>1, StreamAssumption DEF DecoderInv
  <2> HIDE DEF csid
  <2> QED
    BY <2>1, ParsedIs
<1>4. /\ out.events \in Sinks
      /\ out.why # "none" => out.why \in PacketDefects
  <2> HIDE DEF out
  <2> QED
    BY <1>3 DEF Outs
<1>5. ASSUME NEW r \in PacketDefects \cup {"bad tag"}, Refuses(r) PROVE WireInv'
  <2>1. r # "none" /\ r \in Limits \cup HandingDefects \cup {"ended in a message", "bad tag"}
    BY DEF HandingDefects, PacketDefects
  <2> QED
    BY <1>1, <1>2, <1>5, <2>1, RefusalKeeps
<1>6. ASSUME sink' \in Sinks,
             UNCHANGED <<status, why, chunkSize, headers, assembly, buffered, bindings, delivered>>
      PROVE  WireInv'
  <2>1. DecoderInv'
    BY <1>1, <1>6 DEF DecoderInv
  <2>2. StatusInv'
    BY <1>1, <1>2, <1>6 DEF StatusInv
  <2>3. Agreement => Agreement'
    BY <1>1, <1>6 DEF Agreement
  <2>4. ConformingStreamIsDelivered'
    BY <1>1, <1>6 DEF WireInv, ConformingStreamIsDelivered
  <2> QED
    BY <1>1, <1>6, <2>1, <2>2, <2>3, <2>4 DEF WireInv
<1>7. \/ Refuses("bad tag")
      \/ out.why # "none" /\ Refuses(out.why)
      \/ /\ sink' = IF tag.type = "data" THEN sink ELSE out.events
         /\ UNCHANGED <<status, why, chunkSize, headers, assembly, buffered, bindings, delivered>>
  BY Zenon DEF FlvTag
<1>8. CASE Refuses("bad tag")
  BY <1>5, <1>8
<1>9. CASE out.why # "none" /\ Refuses(out.why)
  <2> HIDE DEF out
  <2> QED
    BY <1>4, <1>5, <1>9
<1>10. CASE /\ sink' = IF tag.type = "data" THEN sink ELSE out.events
            /\ UNCHANGED <<status, why, chunkSize, headers, assembly, buffered, bindings, delivered>>
  <2> HIDE DEF out
  <2>1. sink' \in Sinks
    BY <1>1, <1>4, <1>10 DEF DecoderInv
  <2> QED
    BY <1>6, <1>10, <2>1
<1> QED
  BY <1>7, <1>8, <1>9, <1>10, Zenon

LEMMA WireNextKeeps ==
    ASSUME WireInv, [WireNext]_wireVars PROVE WireInv'
<1>1. ASSUME NEW c \in Csids, PublishMore(c) PROVE WireInv'
  BY <1>1, MoreKeeps
<1>2. ASSUME NEW c \in Csids, NEW m \in Messages, NEW fmt \in 0..3, NEW time \in m.times,
             PublishStart(c, m, time, fmt)
      PROVE  WireInv'
  BY <1>2, StartKeeps
<1>3. ASSUME NEW chunk \in Strays, NEW m \in Messages, Stray(chunk, m) PROVE WireInv'
  BY <1>3, StrayKeeps
<1>4. CASE EndOfConnection
  BY <1>4, EndOfConnectionKeeps
<1>5. ASSUME NEW tag \in Tags, FlvTag(tag) PROVE WireInv'
  BY <1>5, FlvTagKeeps
<1>6. CASE EndOfFile
  BY <1>6, AcceptKeeps DEF EndOfFile
<1>7. CASE UNCHANGED wireVars
  BY <1>7 DEF wireVars, decoderVars, publisherVars, WireInv, StatusInv, DecoderInv, Agreement,
              ConformingStreamIsDelivered
<1> QED
  BY <1>1, <1>2, <1>3, <1>4, <1>5, <1>6, <1>7, Zenon DEF WireNext

LEMMA WireInvAlways == WireSpec => []WireInv
<1>1. WireInit => WireInv
  BY WireInitInv
<1>2. WireInv /\ [WireNext]_wireVars => WireInv'
  BY WireNextKeeps
<1> QED
  BY <1>1, <1>2, PTL DEF WireSpec

\* The variables of the decoder always hold what RtmpDecoder declares them to hold: an
\* unfinished message lacks bytes, and the buffered bytes are within their limit.
THEOREM WireTypes == WireSpec => []WireTypeOK
<1>1. ASSUME WireInv PROVE WireTypeOK
  <2>1. StatusInv /\ DecoderInv
    BY <1>1 DEF WireInv
  <2>2. buffered \in 0..MaxBuffered
    <3>1. assembly \in Places /\ buffered = Held(assembly) /\ buffered <= MaxBuffered
      BY <2>1 DEF DecoderInv, Places
    <3>2. buffered \in Nat
      BY <3>1, HeldTyped
    <3> QED
      BY <3>1, <3>2, WireAssumption
  <2>3. ASSUME NEW c \in Csids, assembly[c] # None
        PROVE  /\ headers[c] # None /\ assembly[c].header \in HeaderType
               /\ assembly[c].received \in 0..(assembly[c].header.length - 1)
               /\ assembly[c].capacity \in 0..assembly[c].header.length
    <3> SUFFICES ASSUME NEW a, a = assembly[c]
                 PROVE  /\ headers[c] # None /\ a.header \in HeaderType
                        /\ a.received \in 0..(a.header.length - 1)
                        /\ a.capacity \in 0..a.header.length
      OBVIOUS
    <3>1. headers[c] # None /\ a \in Assemblies /\ a.received < a.header.length
          /\ a.capacity <= a.header.length
      BY <2>1, <2>3 DEF DecoderInv, Unfinished, Sound
    <3>2. a.header \in HeaderType /\ a.received \in Nat /\ a.capacity \in Nat
      BY <3>1 DEF Assemblies
    <3>3. a.header.length \in Nat
      BY <3>2, WireAssumption DEF HeaderType
    <3> QED
      BY <3>1, <3>2, <3>3
  <2>4. Len(sink) <= MaxSinkEvents /\ bindings \in [PacketTracks -> Nat \cup {None}]
    BY <2>1 DEF DecoderInv, Sinks, Bindings
  <2> QED
    BY <2>1, <2>2, <2>3, <2>4 DEF WireTypeOK, StatusInv, DecoderInv
<1> QED
  BY <1>1, WireInvAlways, PTL

\* The count of buffered bytes is always what the unfinished messages have room for,
\* within the limit, over completions, aborts and reconnects (buffered_bytes).
THEOREM BufferedBytesAreHeld == WireSpec => []BufferedIsHeld
<1>1. ASSUME WireInv PROVE BufferedIsHeld
  BY <1>1 DEF WireInv, DecoderInv, BufferedIsHeld, Unfinished, Sound
<1> QED
  BY <1>1, WireInvAlways, PTL

\* decode joins only chunks of one message: every payload it hands over is of one
\* message's bytes, whatever chunk comes between them.
THEOREM MessagesAreNotSpliced == WireSpec => []NoMessageIsSpliced
<1>1. ASSUME WireInv PROVE NoMessageIsSpliced
  <2> SUFFICES ASSUME NEW i \in DOMAIN delivered
               PROVE  Cardinality(Range(delivered[i].payload)) <= 1
    BY DEF NoMessageIsSpliced
  <2>1. delivered \in Seq(Deliveries)
    BY <1>1 DEF WireInv, DecoderInv
  <2> DEFINE p == delivered[i].payload
  <2>2. Uniform(p)
    <3>1. delivered[i] \in Deliveries
      BY <2>1
    <3> QED
      BY <3>1 DEF Deliveries
  <2> HIDE DEF p
  <2>3. PICK n \in Nat : \A j \in DOMAIN p : p[j] = n
    BY <2>2 DEF Uniform
  <2>4. Range(p) = {} \/ Range(p) = {n}
    BY <2>3, Zenon DEF Range
  <2>5. Cardinality(Range(p)) = 0 \/ Cardinality(Range(p)) = 1
    BY <2>4, FS_EmptySet, FS_Singleton
  <2> QED
    BY <2>5 DEF p
<1> QED
  BY <1>1, WireInvAlways, PTL

\* A publisher that keeps to the rules has each message it finished delivered once, in
\* order, as it was written, and is refused only for a limit, for what its packets say or
\* for its early end, on any number of chunk streams and with any chunk sizes (decode,
\* parse_message_header, message).
THEOREM ConformingStreamsAreDelivered == WireSpec => []ConformingStreamIsDelivered
<1>1. WireInv => ConformingStreamIsDelivered
  BY DEF WireInv
<1> QED
  BY <1>1, WireInvAlways, PTL
=============================================================================
