---------------------------- MODULE MCLiveSession ----------------------------
(***************************************************************************)
(* Segments and deliveries for LiveSession: three honest segments that     *)
(* reach the last number, and segments relabelled, spliced, replayed,      *)
(* tampered with or beyond the candidate limit.                            *)
(***************************************************************************)
EXTENDS LiveSession

Info(n, key, media) ==
    [seq |-> n, key |-> key, media |-> media, manifest |-> TRUE, iat |-> None]
Event(id, info) == [id |-> id, timed |-> TRUE, info |-> info]
Segment(media, events) == [media |-> media, events |-> events, spanOk |-> TRUE]

E1 == Event(1, Info(1, "k1", "v1"))
E2 == Event(2, Info(2, "k1", "v2"))
E3 == Event(3, Info(3, "k2", "v3"))

MCSegments ==
    {Segment("v1", <<E1>>), Segment("v2", <<E2>>), Segment("v3", <<E3>>),
     Segment("v2", <<[E2 EXCEPT !.id = 1]>>),              \* relabelled
     Segment("v3", <<E3, E1>>),                            \* an earlier event appended
     Segment("v2", <<E2, E2>>),                            \* an id twice
     Segment("v2", <<E2, Event(4, Info(3, "k2", "v2")), Event(5, None)>>),  \* too many
     Segment("v2", <<Event(6, Info(2, "k2", "v2")), Event(7, Info(3, "k2", "v2"))>>),
     Segment("x", <<E1>>),                                 \* tampered media
     [Segment("v4", <<E1>>) EXCEPT !.spanOk = FALSE],       \* timing that does not read
     Segment("v2", <<[E2 EXCEPT !.timed = FALSE]>>),
     Segment("v2", <<[E2 EXCEPT !.info.iat = 2]>>)}        \* signed outside the window

K1 == [id |-> "k1", valid |-> TRUE, floor |-> 0, window |-> {1}]
K2 == [id |-> "k2", valid |-> TRUE, floor |-> 2, window |-> {1, 2}]

MCDeliveries ==
    {<<K1, K2>>, <<K2>>, <<K1, [K1 EXCEPT !.floor = 3, !.window = {2}]>>,
     <<[K1 EXCEPT !.valid = FALSE], K2>>, <<K1, K2, K2>>, <<>>}
==============================================================================
