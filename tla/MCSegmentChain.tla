--------------------------- MODULE MCSegmentChain ---------------------------
(***************************************************************************)
(* Segments for SegmentChain: an honest stream whose numbers reach u64's   *)
(* limit (MaxU64 = 2), and segments that deviate from it in one field.     *)
(***************************************************************************)
EXTENDS SegmentChain

MCLabels == {"m0", "m1", "m2", "m3"}
MCHashes == {"h0", "h1", "h2", "h3", "forged"}

Record(n, stream, prev) ==
    [seq |-> n, stream |-> stream, prevId |-> prev, presented |-> TRUE, continuity |-> TRUE]
Signed(label, hash, declared, link) ==
    [label |-> label, hash |-> hash, standalone |-> TRUE, declared |-> declared, link |-> link]

S0 == Signed("m0", "h0", Record(0, "a", None), None)
S1 == Signed("m1", "h1", Record(1, "a", "m0"), "h0")
S2 == Signed("m2", "h2", Record(2, "a", "m1"), "h1")
S3 == Signed("m3", "h3", Record(3, "a", "m2"), "h2")   \* its number exceeds u64

MCSegments ==
    {S0, S1, S2, S3, NoManifest,
     [S1 EXCEPT !.standalone = FALSE],
     [S1 EXCEPT !.hash = "forged"],                    \* another manifest of that label
     [S1 EXCEPT !.declared = None],
     [S1 EXCEPT !.declared.stream = None],
     [S1 EXCEPT !.declared.seq = -1],
     [S2 EXCEPT !.declared.seq = None],
     [S2 EXCEPT !.declared.continuity = FALSE],
     [S2 EXCEPT !.declared.prevId = None],
     [S2 EXCEPT !.declared.presented = FALSE],
     [S2 EXCEPT !.declared.prevId = "m0"],
     [S2 EXCEPT !.link = Bad],
     [S2 EXCEPT !.link = None],
     [S2 EXCEPT !.declared.stream = "b"],
     [S3 EXCEPT !.declared.seq = 2]}                   \* the saturated number
=============================================================================
