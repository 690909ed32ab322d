---------------------------- MODULE MCErtmpWire ----------------------------
(***************************************************************************)
(* Instance of ErtmpWire for TLC.                                          *)
(***************************************************************************)
EXTENDS ErtmpWire

Message(type, times, length, stream, arg, packets) ==
    [type |-> type, times |-> times, length |-> length, stream |-> stream, arg |-> arg, packets |-> packets]

Sample(track, offset) == [track |-> track, kind |-> "sample", offset |-> offset]

MCMessages ==
    {Message("video", {1, 2, 7}, 3, 1, 0, <<Sample("v", 0)>>),
     Message("aggregate", {2}, 3, 1, 0, <<Sample("a", 0), Sample("v", 2)>>),
     Message("audio", {7}, 2, 5, 0, <<[track |-> "a", kind |-> "end", offset |-> 0]>>),
     Message("data", {1}, 0, 0, 0, <<>>),
     Message("size", {1}, 2, 0, 2, <<>>),
     Message("abort", {2}, 2, 0, 3, <<>>),
     Message("abort", {2}, 2, 0, 2, <<>>),
     Message("abort", {2}, 2, 0, 0, <<>>),
     Message("abort", {2}, 3, 0, 3, <<>>),
     Message("ack", {1}, 1, 0, 0, <<>>)}

\* A continuation with a header of its own, a new message over an unfinished
\* one, an undefined type, a message longer than allowed, control bytes on a
\* media chunk stream, and a chunk that inherits from nothing.
StrayChunk(fmt, c, raw, type, length, stream, n) ==
    [fmt |-> fmt, csid |-> c, raw |-> raw, ext |-> IF raw = Marker THEN raw ELSE None,
     type |-> type, length |-> length, stream |-> stream, body |-> [i \in 1..n |-> 0]]

MCStrays ==
    {StrayChunk(1, 3, 0, "video", 3, 1, 2),
     StrayChunk(0, 3, 1, "video", 3, 1, 1),
     StrayChunk(0, 3, 0, "aggregate", 3, 1, 1),
     StrayChunk(0, 4, 1, "undefined", 1, 1, 1),
     StrayChunk(0, 4, 1, "video", 4, 1, 1),
     StrayChunk(0, 4, 1, "size", 1, 0, 1),
     StrayChunk(3, 4, 1, "video", 3, 1, 1)}

Tag(type, time, packets) == [type |-> type, time |-> time, packets |-> packets]

MCTags ==
    {Tag("video", 7, <<Sample("v", 0), Sample("a", 0)>>),
     Tag("audio", 1, <<Sample("a", 0)>>),
     Tag("audio", 1, <<[track |-> "a", kind |-> "bad", offset |-> 0]>>),
     Tag("data", 0, <<>>),
     Tag("script", 0, <<>>)}
=============================================================================
