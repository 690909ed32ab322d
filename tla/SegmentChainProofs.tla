------------------------ MODULE SegmentChainProofs ------------------------
(***************************************************************************)
(* Proofs about SegmentChain for every set of segments and every bound:    *)
(* the loop's locals keep their types, and a chain without failures is the *)
(* stream that was signed.                                                 *)
(*                                                                         *)
(* The second is not inductive as it stands: nothing in it says that what  *)
(* the loop carries (previous, previousLive, nextSequence, streamId) is    *)
(* about the last segment presented.  Carried says so.                     *)
(***************************************************************************)
EXTENDS SegmentChain, TLAPS

-----------------------------------------------------------------------------
(* Types.                                                                  *)

\* A set of positions stays one when a position is added.
LEMMA GrowPositions ==
    ASSUME NEW n \in Nat, NEW low \in Nat, low <= n + 1, NEW S, S \subseteq low..n
    PROVE  S \subseteq low..(n + 1) /\ S \cup {n + 1} \subseteq low..(n + 1)
  <1>1. \A x \in S : x \in low..(n + 1)
    BY SMT
  <1>2. n + 1 \in low..(n + 1)
    BY SMT
  <1> QED
    BY <1>1, <1>2

LEMMA SegmentType ==
    ASSUME NEW seg \in Segments, seg # NoManifest
    PROVE  seg \in Facts
  BY SegmentsAssumption

\* The continuity state a segment leaves is a u64 number, a stream and its label.
LEMMA LiveStateType ==
    ASSUME NEW seg \in Facts
    PROVE  DeclaredLiveState(seg) \in LiveStates \cup {None}
  <1>1. CASE seg.declared = None
    BY <1>1 DEF DeclaredLiveState
  <1>2. CASE seg.declared # None
    <2>1. seg.declared \in Declarations
      BY <1>2 DEF Facts
    <2>2. seg.label \in Labels
      BY DEF Facts
    <2> QED
      BY <1>2, <2>1, <2>2 DEF DeclaredLiveState, Declarations, LiveStates
  <1> QED
    BY <1>1, <1>2

LEMMA NextSequenceType ==
    ASSUME NEW seg \in Facts
    PROVE  NextSequence(seg.declared) \in 0..(MaxU64 + 2) \cup {None}
  <1>1. CASE seg.declared = None
    BY <1>1 DEF NextSequence
  <1>2. CASE seg.declared # None
    <2>1. seg.declared.seq \in (-1..(MaxU64 + 1)) \cup {None}
      BY <1>2 DEF Facts, Declarations
    <2> QED
      BY <1>2, <2>1, BoundsAssumption DEF NextSequence
  <1> QED
    BY <1>1, <1>2

LEMMA NextStreamType ==
    ASSUME NEW seg \in Facts, streamId \in StreamIds \cup {None}
    PROVE  NextStreamId(seg.declared) \in StreamIds \cup {None}
  BY DEF NextStreamId, Facts, Declarations

\* A step keeps the types.
LEMMA TypeStep == TypeOK /\ [Next]_vars => TypeOK'
  <1> SUFFICES ASSUME TypeOK, [Next]_vars PROVE TypeOK'
    OBVIOUS
  <1>1. ASSUME NEW seg \in Segments, NEW seek \in BOOLEAN, Present(seg, seek)
        PROVE  TypeOK'
    <2>1. /\ presented' = Append(presented, seg) /\ presented' \in Seq(Segments)
          /\ Len(presented') = Len(presented) + 1 /\ Len(presented) \in Nat
      BY <1>1 DEF Present, TypeOK
    <2>2. seeks' \subseteq 2..Len(presented')
      <3>1. seek => Len(presented) # 0
        BY <1>1 DEF Present, TypeOK
      <3>2. CASE seek
        <4>1. seeks' = seeks \cup {Len(presented) + 1}
          BY <1>1, <3>2 DEF Present
        <4>2. 2 <= Len(presented) + 1 /\ seeks \subseteq 2..Len(presented)
          BY <2>1, <3>1, <3>2 DEF TypeOK
        <4> QED
          BY <2>1, <4>1, <4>2, GrowPositions
      <3>3. CASE ~seek
        <4>1. seeks' = seeks
          BY <1>1, <3>3 DEF Present
        <4>2. \A x \in seeks : x \in 2..Len(presented)
          BY DEF TypeOK
        <4>3. \A x \in seeks : x \in 2..(Len(presented) + 1)
          BY <2>1, <4>2
        <4> QED
          BY <2>1, <4>1, <4>3
      <3> QED
        BY <3>2, <3>3
    <2>a. /\ failed \subseteq 1..(Len(presented) + 1)
          /\ failed \cup {Len(presented) + 1} \subseteq 1..(Len(presented) + 1)
      <3>1. 1 <= Len(presented) + 1 /\ failed \subseteq 1..Len(presented) /\ 1 \in Nat
        BY <2>1 DEF TypeOK
      <3> QED
        BY <2>1, <3>1, GrowPositions
    <2>3. CASE seg = NoManifest
      <3>1. PresentBare /\ outcome' = outcome
        BY <1>1, <2>3 DEF Present
      <3> QED
        BY <2>1, <2>2, <2>a, <3>1 DEF PresentBare, TypeOK
    <2>4. CASE seg # NoManifest
      <3>1. PresentFacts(seg, seek) /\ outcome' = outcome
        BY <1>1, <2>4 DEF Present
      <3>2. seg \in Facts
        BY <2>4, SegmentType
      <3>3. failed' \subseteq 1..Len(presented')
        <4>1. failed' = failed \/ failed' = failed \cup {Len(presented) + 1}
          BY <3>1 DEF PresentFacts
        <4> QED
          BY <2>1, <2>a, <4>1
      <3>4. previous' \in Identities \cup {None}
        BY <3>1, <3>2 DEF PresentFacts, Facts, Identities
      <3>5. previousLive' \in LiveStates \cup {None}
        BY <3>1, <3>2, LiveStateType DEF PresentFacts, NextLive
      <3>6. nextSequence' \in 0..(MaxU64 + 2) \cup {None}
        BY <3>1, <3>2, NextSequenceType DEF PresentFacts
      <3>7. streamId' \in StreamIds \cup {None}
        BY <3>1, <3>2, NextStreamType DEF PresentFacts, TypeOK
      <3> QED
        BY <2>1, <2>2, <3>1, <3>3, <3>4, <3>5, <3>6, <3>7 DEF TypeOK
    <2> QED
      BY <2>3, <2>4
  <1>2. CASE Return
    BY <1>2 DEF Return, TypeOK
  <1>3. CASE Abort
    BY <1>3 DEF Abort, TypeOK
  <1>4. CASE UNCHANGED vars
    BY <1>4 DEF vars, TypeOK
  <1> QED
    BY <1>1, <1>2, <1>3, <1>4 DEF Next

LEMMA TypeInit == Init => TypeOK
  BY BoundsAssumption DEF Init, TypeOK

\* The locals of verify_per_segment_with_expected_seeks keep their types, whatever is
\* presented: in particular the continuity state never holds a number beyond u64.
THEOREM TypeInvariant == Spec => []TypeOK
  BY TypeInit, TypeStep, PTL DEF Spec

-----------------------------------------------------------------------------
(* A chain without failures.                                               *)

\* What the loop carries is about the last segment presented.
Carried(p) ==
    IF p = <<>>
    THEN previous = None /\ previousLive = None /\ nextSequence = 0 /\ streamId = None
    ELSE /\ previous = [label |-> p[Len(p)].label, hash |-> p[Len(p)].hash]
         /\ previousLive = [seq |-> p[Len(p)].declared.seq,
                            stream |-> p[Len(p)].declared.stream, label |-> p[Len(p)].label]
         /\ nextSequence = p[Len(p)].declared.seq + 1
         /\ streamId = p[1].declared.stream /\ streamId # None
         /\ previous \in Identities /\ previousLive \in LiveStates

\* What is required of the i-th segment of a chain.
SegmentOK(p, sk, i) ==
    /\ p[i] # NoManifest /\ p[i].standalone
    /\ p[i].declared # None
    /\ p[i].declared.seq \in 0..MaxU64
    /\ p[i].declared.stream = p[1].declared.stream
    /\ i = 1 => p[i].declared.seq = 0 /\ p[i].link = None
    /\ i > 1 /\ i \notin sk => Linked(p[i], p[i - 1])

ChainInv ==
    /\ TypeOK
    /\ failed = {} => Carried(presented)
    /\ failed = {} => \A i \in 1..Len(presented) : SegmentOK(presented, seeks, i)

\* A segment that passes every check of the iteration.
Passes(seg, seek) ==
    /\ seg.standalone
    /\ ~DeclarationFails(seg.declared, seek)
    /\ ~ContinuityFails(seg, seek)
    /\ ~LinkFails(seg, seek)

\* A failure is never taken back, and a segment that adds none passed every check.
LEMMA CleanStep ==
    ASSUME TypeOK, NEW seg \in Segments, NEW seek \in BOOLEAN, Present(seg, seek), failed' = {}
    PROVE  /\ failed = {} /\ seg # NoManifest /\ PresentFacts(seg, seek)
           /\ Passes(seg, seek)
  <1>1. seg # NoManifest /\ PresentFacts(seg, seek)
    BY DEF Present, PresentBare
  <1>2. failed = {}
    BY <1>1 DEF PresentFacts
  <1>3. Passes(seg, seek)
    BY <1>1 DEF PresentFacts, Passes
  <1> QED
    BY <1>1, <1>2, <1>3

\* The first segment passes: it is number 0 and has no link.
LEMMA FirstPasses ==
    ASSUME NEW seg \in Facts, Passes(seg, FALSE),
           previous = None, previousLive = None, nextSequence = 0, streamId = None
    PROVE  /\ seg.declared # None /\ seg.declared.seq = 0 /\ seg.declared.stream # None
           /\ seg.link = None
           /\ NextStreamId(seg.declared) = seg.declared.stream
  BY DEF Passes, DeclarationFails, SequenceFollows, StreamAgrees, LinkFails, NextStreamId

\* A later segment passes: its record is well formed, of the stream, and, unless the player
\* seeked, fits the predecessor.
LEMMA LaterPasses ==
    ASSUME NEW seg \in Facts, NEW seek \in BOOLEAN, Passes(seg, seek),
           NEW prior, previous = [label |-> prior.label, hash |-> prior.hash],
           previousLive = [seq |-> prior.declared.seq, stream |-> prior.declared.stream,
                           label |-> prior.label],
           nextSequence = prior.declared.seq + 1, prior.declared.seq \in 0..MaxU64,
           streamId # None, previousLive \in LiveStates, previous \in Identities
    PROVE  /\ WellFormed(seg.declared)
           /\ seg.declared.stream = streamId
           /\ NextStreamId(seg.declared) = streamId
           /\ ~seek => Linked(seg, prior)
  <1>1. previousLive # None /\ previous # None
    BY MarkersAssumption
  <1>2. LiveAccepts(seg.declared, IF seek THEN None ELSE previousLive)
    BY <1>1 DEF Passes, ContinuityFails
  <1>3. WellFormed(seg.declared)
    BY <1>2 DEF LiveAccepts
  <1>4. seg.declared.stream = streamId /\ NextStreamId(seg.declared) = streamId
    BY <1>3 DEF Passes, DeclarationFails, StreamAgrees, NextStreamId, WellFormed
  <1>5. ASSUME ~seek PROVE Linked(seg, prior)
    <2>1. seg.declared.seq = prior.declared.seq + 1
      BY <1>5 DEF Passes, DeclarationFails, SequenceFollows
    <2>2. FollowsLive(seg.declared, previousLive)
      BY <1>1, <1>2, <1>5 DEF LiveAccepts
    <2>3. seg.declared.prevId = prior.label
      BY <2>2 DEF FollowsLive
    <2>4. seg.link = prior.hash
      BY <1>1, <1>5 DEF Passes, LinkFails
    <2> QED
      BY <2>1, <2>3, <2>4 DEF Linked
  <1> QED
    BY <1>3, <1>4, <1>5

\* What a well-formed record leaves for the next segment.
LEMMA WellFormedCarries ==
    ASSUME NEW seg \in Facts, seg.declared # None, seg.declared.stream # None,
           seg.declared.seq \in 0..MaxU64
    PROVE  /\ NextLive(seg) = [seq |-> seg.declared.seq, stream |-> seg.declared.stream,
                               label |-> seg.label]
           /\ NextSequence(seg.declared) = seg.declared.seq + 1
  <1>1. seg.declared.seq # None /\ seg.declared.seq \in Int /\ ~(seg.declared.seq < 0)
    BY MarkersAssumption, BoundsAssumption
  <1> QED
    BY <1>1 DEF NextLive, DeclaredLiveState, NextSequence


\* The carried state after a segment that passed.
LEMMA CarriedStep ==
    ASSUME TypeOK, NEW seg \in Facts, NEW seek \in BOOLEAN,
           PresentFacts(seg, seek),
           seg.declared # None, seg.declared.stream # None, seg.declared.seq \in 0..MaxU64,
           NEW first, NextStreamId(seg.declared) = first.declared.stream,
           first.declared.stream # None
    PROVE  /\ previous' = [label |-> seg.label, hash |-> seg.hash]
           /\ previousLive' = [seq |-> seg.declared.seq, stream |-> seg.declared.stream,
                               label |-> seg.label]
           /\ nextSequence' = seg.declared.seq + 1
           /\ streamId' = first.declared.stream /\ streamId' # None
           /\ previous' \in Identities /\ previousLive' \in LiveStates
  <1>1. seg.label \in Labels /\ seg.hash \in Hashes /\ seg.declared \in Declarations
    BY DEF Facts
  <1>2. seg.declared.stream \in StreamIds
    BY <1>1 DEF Declarations
  <1> QED
    BY <1>1, <1>2, WellFormedCarries DEF PresentFacts, Identities, LiveStates

LEMMA ChainInit == Init => ChainInv
  <1> SUFFICES ASSUME Init PROVE ChainInv
    OBVIOUS
  <1>1. TypeOK
    BY TypeInit
  <1>2. Carried(presented) /\ Len(presented) = 0
    BY DEF Init, Carried
  <1> QED
    BY <1>1, <1>2 DEF ChainInv

\* A segment adds its own facts and leaves those of the segments before it alone.
LEMMA PresentKeepsChain ==
    ASSUME ChainInv, NEW seg \in Segments, NEW seek \in BOOLEAN, Present(seg, seek),
           failed' = {}
    PROVE  /\ Carried(presented)'
           /\ \A i \in 1..Len(presented') : SegmentOK(presented', seeks', i)
  <1>1. TypeOK /\ TypeOK'
    BY TypeStep DEF ChainInv, Next
  <1>2. failed = {} /\ seg # NoManifest /\ PresentFacts(seg, seek) /\ Passes(seg, seek)
    BY <1>1, CleanStep
  <1>3. seg \in Facts
    BY <1>2, SegmentType
  <1>4. Carried(presented) /\ \A i \in 1..Len(presented) : SegmentOK(presented, seeks, i)
    BY <1>2 DEF ChainInv
  <1> DEFINE n == Len(presented)
  <1>5. /\ presented \in Seq(Segments) /\ n \in Nat
        /\ presented' = Append(presented, seg) /\ Len(presented') = n + 1
        /\ presented' # <<>> /\ presented'[n + 1] = seg
        /\ \A i \in 1..n : presented'[i] = presented[i]
    BY <1>1 DEF Present, TypeOK
  <1>6. /\ \A i \in 1..n : i \in seeks' <=> i \in seeks
        /\ n + 1 \in seeks' <=> seek
    <2>1. \A x \in seeks : x \in 2..n
      BY <1>1 DEF TypeOK
    <2>2. n + 1 \notin seeks
      BY <1>5, <2>1
    <2>3. CASE seek
      <3>1. seeks' = seeks \cup {n + 1}
        BY <2>3 DEF Present
      <3> QED
        BY <1>5, <2>2, <2>3, <3>1
    <2>4. CASE ~seek
      <3>1. seeks' = seeks
        BY <2>4 DEF Present
      <3> QED
        BY <1>5, <2>2, <2>4, <3>1
    <2> QED
      BY <2>3, <2>4
  <1> HIDE DEF n
  <1>7. CASE n = 0
    <2>1. presented = <<>> /\ seek = FALSE
      BY <1>5, <1>7 DEF Present, n
    <2>2. previous = None /\ previousLive = None /\ nextSequence = 0 /\ streamId = None
      BY <1>4, <2>1 DEF Carried
    <2>3. /\ seg.declared # None /\ seg.declared.seq = 0 /\ seg.declared.stream # None
          /\ seg.link = None
          /\ NextStreamId(seg.declared) = seg.declared.stream
      BY <1>2, <1>3, <2>1, <2>2, FirstPasses
    <2>4. presented'[1] = seg /\ Len(presented') = 1
      BY <1>5, <1>7
    <2>5. Carried(presented)'
      <3>1. seg.declared.seq \in 0..MaxU64
        BY <2>3, BoundsAssumption
      <3>2. /\ previous' = [label |-> seg.label, hash |-> seg.hash]
            /\ previousLive' = [seq |-> seg.declared.seq, stream |-> seg.declared.stream,
                                label |-> seg.label]
            /\ nextSequence' = seg.declared.seq + 1
            /\ streamId' = seg.declared.stream /\ streamId' # None
            /\ previous' \in Identities /\ previousLive' \in LiveStates
        BY <1>1, <1>2, <1>3, <2>3, <3>1, CarriedStep
      <3> QED
        BY <1>5, <2>4, <3>2 DEF Carried
    <2>6. SegmentOK(presented', seeks', 1)
      BY <1>2, <2>3, <2>4, BoundsAssumption DEF SegmentOK, Passes
    <2> QED
      BY <2>4, <2>5, <2>6
  <1>8. CASE n # 0
    <2> DEFINE prior == presented[n]
    <2>1. presented # <<>> /\ n \in 1..n /\ 1 \in 1..n
      BY <1>5, <1>8 DEF n
    <2>2. /\ previous = [label |-> prior.label, hash |-> prior.hash]
          /\ previousLive = [seq |-> prior.declared.seq, stream |-> prior.declared.stream,
                             label |-> prior.label]
          /\ nextSequence = prior.declared.seq + 1
          /\ streamId = presented[1].declared.stream /\ streamId # None
          /\ previous \in Identities /\ previousLive \in LiveStates
      BY <1>4, <2>1 DEF Carried, n
    <2>3. prior.declared.seq \in 0..MaxU64
      BY <1>4, <2>1 DEF SegmentOK, n
    <2> HIDE DEF prior
    <2>4. /\ WellFormed(seg.declared)
          /\ seg.declared.stream = streamId
          /\ NextStreamId(seg.declared) = streamId
          /\ ~seek => Linked(seg, prior)
      BY <1>2, <1>3, <2>2, <2>3, LaterPasses
    <2>5. /\ presented'[1] = presented[1] /\ presented'[n] = prior
      BY <1>5, <2>1 DEF prior
    <2>6. /\ seg.declared # None /\ seg.declared.seq \in 0..MaxU64
          /\ seg.declared.stream # None
      BY <2>4 DEF WellFormed
    <2>7. Carried(presented)'
      <3>1. /\ NextStreamId(seg.declared) = presented[1].declared.stream
            /\ presented[1].declared.stream # None
        BY <2>2, <2>4
      <3>2. /\ previous' = [label |-> seg.label, hash |-> seg.hash]
            /\ previousLive' = [seq |-> seg.declared.seq, stream |-> seg.declared.stream,
                                label |-> seg.label]
            /\ nextSequence' = seg.declared.seq + 1
            /\ streamId' = presented[1].declared.stream /\ streamId' # None
            /\ previous' \in Identities /\ previousLive' \in LiveStates
        BY <1>1, <1>2, <1>3, <2>6, <3>1, CarriedStep
      <3> QED
        BY <1>5, <2>5, <3>2 DEF Carried
    <2>8. SegmentOK(presented', seeks', n + 1)
      <3>1. n + 1 # 1 /\ (n + 1) - 1 = n
        BY <1>5, <1>8
      <3>2. n + 1 \notin seeks' => Linked(seg, prior)
        BY <1>6, <2>4
      <3> QED
        BY <1>2, <1>5, <2>2, <2>4, <2>5, <2>6, <3>1, <3>2 DEF SegmentOK, Passes
    <2>9. ASSUME NEW i \in 1..n PROVE SegmentOK(presented', seeks', i)
      <3>1. presented'[i] = presented[i] /\ presented'[1] = presented[1]
        BY <1>5, <2>1
      <3>2. i > 1 => presented'[i - 1] = presented[i - 1]
        BY <1>5
      <3>3. SegmentOK(presented, seeks, i) /\ (i \in seeks' <=> i \in seeks)
        BY <1>4, <1>6 DEF n
      <3> QED
        BY <3>1, <3>2, <3>3 DEF SegmentOK
    <2>10. \A i \in 1..(n + 1) : i \in 1..n \/ i = n + 1
      BY <1>5
    <2> QED
      BY <1>5, <2>7, <2>8, <2>9, <2>10
  <1> QED
    BY <1>7, <1>8

LEMMA ChainStep == ChainInv /\ [Next]_vars => ChainInv'
  <1> SUFFICES ASSUME ChainInv, [Next]_vars PROVE ChainInv'
    OBVIOUS
  <1>1. TypeOK'
    BY TypeStep DEF ChainInv
  <1>2. ASSUME NEW seg \in Segments, NEW seek \in BOOLEAN, Present(seg, seek)
        PROVE  ChainInv'
    BY <1>1, <1>2, PresentKeepsChain DEF ChainInv
  <1>3. CASE Return
    BY <1>1, <1>3 DEF Return, ChainInv, Carried
  <1>4. CASE Abort
    BY <1>1, <1>4 DEF Abort, ChainInv, Carried
  <1>5. CASE UNCHANGED vars
    BY <1>1, <1>5 DEF vars, ChainInv, Carried
  <1> QED
    BY <1>2, <1>3, <1>4, <1>5 DEF Next

\* chain_valid means it is the stream that was signed, in this order, for any number of
\* segments of any content and any seeks (verify_per_segment).
THEOREM ChainInvariant == Spec => []ValidChainIsLinked
  <1>1. ChainInv => ValidChainIsLinked
    BY DEF ChainInv, SegmentOK, ValidChainIsLinked
  <1> QED
    BY <1>1, ChainInit, ChainStep, PTL DEF Spec


-----------------------------------------------------------------------------
(* Breaks are reported where they are.                                     *)

\* Whether or not something failed, the loop compares with the segment just before.
Follows(p) ==
    p # <<>> /\ p[Len(p)] # NoManifest =>
        /\ previous = [label |-> p[Len(p)].label, hash |-> p[Len(p)].hash]
        /\ previousLive = DeclaredLiveState(p[Len(p)])
        /\ nextSequence = NextSequence(p[Len(p)].declared)

\* Two consecutive segments with usable declarations that do not fit.
Broken(seg, prior) ==
    /\ seg # NoManifest /\ prior # NoManifest
    /\ WellFormed(seg.declared)
    /\ prior.declared # None /\ prior.declared.stream # None
    /\ prior.declared.seq # None /\ prior.declared.seq \in 0..MaxU64
    /\ ~Linked(seg, prior) \/ seg.declared.stream # prior.declared.stream

BreakInv ==
    /\ TypeOK
    /\ Follows(presented)
    /\ \A i \in 2..Len(presented) :
          i \notin seeks /\ Broken(presented[i], presented[i - 1]) => i \in failed

\* A segment that does not fit the one before it fails a check.
LEMMA BrokenFails ==
    ASSUME NEW seg \in Facts, NEW prior \in Facts, Broken(seg, prior),
           previous = [label |-> prior.label, hash |-> prior.hash],
           previousLive = DeclaredLiveState(prior),
           nextSequence = NextSequence(prior.declared)
    PROVE  ~Passes(seg, FALSE)
  <1> SUFFICES ASSUME Passes(seg, FALSE) PROVE FALSE
    OBVIOUS
  <1>1. /\ previousLive = [seq |-> prior.declared.seq, stream |-> prior.declared.stream,
                           label |-> prior.label]
        /\ nextSequence = prior.declared.seq + 1
    BY WellFormedCarries DEF Broken, NextLive
  <1>2. prior.label \in Labels /\ prior.hash \in Hashes /\ prior.declared \in Declarations
    BY DEF Facts, Broken
  <1>3. prior.declared.stream \in StreamIds
    BY <1>2 DEF Declarations, Broken
  <1>4. previousLive \in LiveStates /\ previous \in Identities
    BY <1>1, <1>2, <1>3 DEF LiveStates, Identities, Broken
  <1>5. previousLive # None /\ previous # None
    BY <1>4, MarkersAssumption
  <1>6. FollowsLive(seg.declared, previousLive)
    BY <1>5 DEF Passes, ContinuityFails, LiveAccepts
  <1>7. seg.declared.stream = prior.declared.stream /\ seg.declared.prevId = prior.label
    BY <1>1, <1>6 DEF FollowsLive
  <1>8. seg.link = prior.hash
    BY <1>5 DEF Passes, LinkFails
  <1>9. seg.declared.seq = prior.declared.seq + 1
    BY <1>1 DEF Passes, DeclarationFails, SequenceFollows
  <1> QED
    BY <1>7, <1>8, <1>9 DEF Broken, Linked

LEMMA BreakInit == Init => BreakInv
  BY TypeInit DEF Init, BreakInv, Follows

LEMMA PresentKeepsBreaks ==
    ASSUME BreakInv, NEW seg \in Segments, NEW seek \in BOOLEAN, Present(seg, seek)
    PROVE  BreakInv'
  <1>1. TypeOK /\ TypeOK'
    BY TypeStep DEF BreakInv, Next
  <1> DEFINE n == Len(presented)
  <1>2. /\ presented \in Seq(Segments) /\ n \in Nat
        /\ presented' = Append(presented, seg) /\ Len(presented') = n + 1
        /\ presented' # <<>> /\ presented'[n + 1] = seg
        /\ \A i \in 1..n : presented'[i] = presented[i] /\ presented[i] \in Segments
    BY <1>1 DEF Present, TypeOK
  <1>3. Follows(presented)'
    BY <1>2 DEF Follows, Present, PresentFacts, NextLive
  <1>4. seeks \subseteq seeks' /\ failed \subseteq failed' /\ (n + 1 \notin seeks' => ~seek)
    BY DEF Present, PresentFacts, PresentBare
  <1>5. ASSUME NEW i \in 2..n, i \notin seeks', Broken(presented'[i], presented'[i - 1])
        PROVE  i \in failed'
    <2>1. presented'[i] = presented[i] /\ presented'[i - 1] = presented[i - 1]
      BY <1>2
    <2>2. i \notin seeks
      BY <1>4, <1>5
    <2> QED
      BY <1>4, <1>5, <2>1, <2>2 DEF BreakInv
  <1>6. ASSUME n # 0, n + 1 \notin seeks', Broken(seg, presented'[n])
        PROVE  n + 1 \in failed'
    <2>1. presented'[n] = presented[n] /\ presented[n] \in Segments /\ presented # <<>>
      BY <1>2, <1>6
    <2>2. seg \in Facts /\ presented[n] \in Facts /\ seg # NoManifest
      BY <1>6, <2>1, SegmentType DEF Broken
    <2>3. presented[n] # NoManifest
      BY <1>6, <2>1 DEF Broken
    <2>4. /\ previous = [label |-> presented[n].label, hash |-> presented[n].hash]
          /\ previousLive = DeclaredLiveState(presented[n])
          /\ nextSequence = NextSequence(presented[n].declared)
      BY <2>1, <2>3 DEF BreakInv, Follows
    <2>5. ~Passes(seg, FALSE)
      BY <1>6, <2>1, <2>2, <2>4, BrokenFails
    <2>6. seek = FALSE
      BY <1>4, <1>6
    <2>7. PresentFacts(seg, FALSE)
      BY <2>2, <2>6 DEF Present
    <2> QED
      BY <2>5, <2>7 DEF PresentFacts, Passes
  <1>7. \A i \in 2..(n + 1) : i \in 2..n \/ (i = n + 1 /\ n # 0 /\ i - 1 = n)
    BY <1>2
  <1> HIDE DEF n
  <1> QED
    BY <1>1, <1>2, <1>3, <1>5, <1>6, <1>7 DEF BreakInv

LEMMA BreakStep == BreakInv /\ [Next]_vars => BreakInv'
  <1> SUFFICES ASSUME BreakInv, [Next]_vars PROVE BreakInv'
    OBVIOUS
  <1>1. TypeOK'
    BY TypeStep DEF BreakInv
  <1>2. ASSUME NEW seg \in Segments, NEW seek \in BOOLEAN, Present(seg, seek)
        PROVE  BreakInv'
    BY <1>2, PresentKeepsBreaks
  <1>3. CASE Return
    BY <1>1, <1>3 DEF Return, BreakInv, Follows
  <1>4. CASE Abort
    BY <1>1, <1>4 DEF Abort, BreakInv, Follows
  <1>5. CASE UNCHANGED vars
    BY <1>1, <1>5 DEF vars, BreakInv, Follows
  <1> QED
    BY <1>2, <1>3, <1>4, <1>5 DEF Next

\* One broken link does not silence the check on later segments, for any stream: where two
\* consecutive usable declarations do not fit, the later position is named.
THEOREM BreaksInvariant == Spec => []BreaksReportedWhereTheyAre
  <1>1. BreakInv => BreaksReportedWhereTheyAre
    BY DEF BreakInv, Broken, BreaksReportedWhereTheyAre
  <1> QED
    BY <1>1, BreakInit, BreakStep, PTL DEF Spec

=============================================================================
