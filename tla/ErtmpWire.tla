------------------------------ MODULE ErtmpWire ------------------------------
(***************************************************************************)
(* The framing under the E-RTMP verifier (ertmp_wire.rs): chunks of RTMP   *)
(* connections, or tags of an FLV file, become the events of Ertmp.        *)
(*                                                                         *)
(* A publisher writes messages on several chunk streams at once.  It cuts  *)
(* each message into chunks, leaves out of a chunk's header what the chunk *)
(* stream's last header already says, changes the chunk size and aborts    *)
(* messages.  The publisher is not part of the code: Publish* are the      *)
(* chunks the RTMP rules allow, Stray is any other chunk.  Every chunk is  *)
(* decoded as it is written, as the decoder only looks back.               *)
(*                                                                         *)
(* Time stamps count modulo Wrap and a header's own field holds less than  *)
(* Marker; Marker itself announces an extended field.  A byte of a message *)
(* is the message's number, so that a payload shows where it came from.    *)
(***************************************************************************)
EXTENDS Options, Integers, Sequences, FiniteSets, Functions

CONSTANTS
    Messages,      \* messages a publisher may write: type, length, stream, arg, packets
                   \* and the time stamps it may give them
    Strays,        \* chunks outside the rules
    Tags,          \* tags of an FLV file: type, time, packets
    ChunkSizes,    \* initial chunk sizes
    Csids,         \* chunk stream ids, 2 for control
    MaxCsid,       \* 65599, the largest a basic header can write
    ControlLength, \* 4, the bytes of a control message
    Wrap,          \* 2^32
    Marker,        \* 0xffffff
    MaxMessage, MaxBuffered, MaxStreams, MaxSinkEvents, MaxChunkSize,   \* ErtmpWireLimits
    MaxSent,       \* bound on the messages and stray chunks of a run
    MaxConnections

Controls == {"size", "abort", "ack"}
Media == {"audio", "video", "aggregate"}
Types == Controls \cup Media \cup {"data"}

Moments == 0..(Wrap - 1)

\* A chunk as it is cut out of the stream: fmt and csid from its basic header, the time
\* stamp's own field and its extended one, and the fields a format may leave out.
Chunks == [fmt : 0..3, csid : Csids, raw : 0..Marker, ext : Moments \cup {None}, length : Nat,
           type : Types \cup {"undefined"}, stream : Nat, body : Seq(Nat)]

\* What is in a media message or tag: a multitrack message or an aggregate has several.
\* kind: "bad" is refused by its parser, "end" makes no event.
PacketsOf(x) == Range(x.packets)
PacketTracks == {p.track : p \in UNION {PacketsOf(x) : x \in Messages \cup Tags}}

HeaderType == [time : Moments, delta : Moments, length : 0..MaxMessage, type : Types,
               stream : Nat, extended : BOOLEAN, absolute : BOOLEAN]

\* A MessageAssembly, with the capacity of its payload vector; and a message that is
\* being written.
Assemblies == [header : HeaderType, payload : Seq(Nat), received : Nat, capacity : Nat]
Writings == [message : Messages, header : HeaderType, number : Nat, left : Nat]

ASSUME WireAssumption ==
    /\ 2 \in Csids /\ MaxCsid \in Nat /\ Csids \subseteq 2..MaxCsid
    /\ Wrap \in Nat /\ Marker \in 1..(Wrap - 1) /\ ControlLength \in Nat
    /\ MaxChunkSize \in Nat /\ ChunkSizes \subseteq 1..MaxChunkSize
    /\ MaxMessage \in Nat /\ MaxBuffered \in Nat /\ MaxStreams \in Nat /\ MaxSinkEvents \in Nat
    /\ MaxSent \in Nat /\ MaxConnections \in Nat \ {0}
ASSUME StreamAssumption ==
    /\ \A m \in Messages :
         /\ m.type \in Types /\ m.length \in 0..MaxMessage /\ m.times \subseteq Moments
         /\ m.stream \in Nat
    /\ Strays \subseteq Chunks
    /\ \A tag \in Tags : tag.time \in Moments
    /\ \A x \in Messages \cup Tags :
         /\ DOMAIN x.packets = 1..Len(x.packets) /\ Len(x.packets) \in Nat
         /\ \A p \in PacketsOf(x) : p.offset \in Moments
ASSUME AbsenceAssumption ==
    /\ None \notin Nat /\ None \notin HeaderType /\ None \notin Assemblies
    /\ None \notin Writings

VARIABLES
    mode,        \* "rtmp" or "flv"
    status,      \* "open", "refused" or "accepted"
    why,         \* the first defect
    chunkSize,   \* RtmpDecoder.chunk_size
    headers,     \* states[..].last_header, None for a chunk stream never used
    assembly,    \* states[..].assembly
    buffered,    \* buffered_bytes
    bindings,    \* TrackBindings
    sink,        \* EventSink.events
    connection,  \* number of the trace
    pHeaders,    \* publisher: its last header on each chunk stream
    pLeft,       \* publisher: the message it is writing on each, with what is left
    pSize,       \* publisher: chunk size
    sent,        \* messages and stray chunks so far
    conforming,  \* every chunk kept to the rules
    completed,   \* publisher: messages written to their end, in that order
    delivered    \* messages handed to RtmpDecoder::message or skipped whole

decoderVars == <<status, why, chunkSize, headers, assembly, buffered, bindings, sink, delivered>>
publisherVars == <<pHeaders, pLeft, pSize, sent, conforming, completed>>
wireVars == <<mode, connection, decoderVars, publisherVars>>

Plus(a, b) == (a + b) % Wrap
Since(a, b) == (a - b + Wrap) % Wrap
MinOf(a, b) == IF a < b THEN a ELSE b
MaxOf(a, b) == IF a > b THEN a ELSE b
Largest(a, b, c) == MaxOf(a, MaxOf(b, c))

FreshDecoder(size) ==
    /\ chunkSize = size
    /\ headers = [c \in Csids |-> None]
    /\ assembly = [c \in Csids |-> None]
    /\ buffered = 0
    /\ bindings = [t \in PacketTracks |-> None]

WireInit ==
    /\ mode \in {"rtmp"} \cup (IF Tags = {} THEN {} ELSE {"flv"})
    /\ status = "open"
    /\ why = "none"
    /\ \E size \in ChunkSizes : FreshDecoder(size) /\ pSize = size
    /\ sink = <<>>
    /\ connection = 1
    /\ pHeaders = [c \in Csids |-> None]
    /\ pLeft = [c \in Csids |-> None]
    /\ sent = 0
    /\ conforming = TRUE
    /\ completed = <<>>
    /\ delivered = <<>>

-----------------------------------------------------------------------------
(***************************************************************************)
(* Decoder.                                                                *)
(***************************************************************************)
Continuing(c) == assembly[c] # None

\* Mutant of Inherited: a new message repeats the last time stamp.
InheritedTime(prior, continuing) ==
    IF continuing THEN prior ELSE [prior EXCEPT !.absolute = FALSE]

\* parse_message_header, type 3: a new message adds the inherited delta, which
\* after a type-0 header is its time stamp.
Inherited(prior, continuing) ==
    IF continuing THEN prior
    ELSE [prior EXCEPT !.time = Plus(@, prior.delta), !.absolute = FALSE]

\* The value a header carries, in its own field or in the extended one
Value(chunk) == IF chunk.raw = Marker THEN chunk.ext ELSE chunk.raw

\* parse_message_header and the extended time stamp
Header(chunk, prior, continuing) ==
    LET v == Value(chunk) IN
    CASE chunk.fmt = 0 ->
           [time |-> v, delta |-> v, length |-> chunk.length, type |-> chunk.type,
            stream |-> chunk.stream, extended |-> chunk.raw = Marker, absolute |-> TRUE]
      [] chunk.fmt = 1 ->
           [prior EXCEPT !.time = Plus(@, v), !.delta = v, !.length = chunk.length,
              !.type = chunk.type, !.extended = (chunk.raw = Marker), !.absolute = FALSE]
      [] chunk.fmt = 2 ->
           [prior EXCEPT !.time = Plus(@, v), !.delta = v, !.extended = (chunk.raw = Marker),
              !.absolute = FALSE]
      [] OTHER -> Inherited(prior, continuing)

HeaderOf(chunk) == Header(chunk, headers[chunk.csid], Continuing(chunk.csid))

\* What a type-3 chunk repeats in its extended field
Expected(h, continuing) == IF continuing /\ h.absolute THEN h.time ELSE h.delta

\* Mutant of Replaced: the header of a continuation is not compared.
NeverReplaced(h, a) == FALSE

\* A chunk that does not continue the message in progress
Replaced(h, a) ==
    \/ h.time # a.header.time
    \/ h.length # a.header.length
    \/ h.type # a.header.type
    \/ h.stream # a.header.stream

Retained(type) == type \in Controls \cup Media

Used == {c \in Csids : headers[c] # None}

\* The capacity of an assembly after `take` more bytes: doubled, up to the
\* length the header declares.
Capacity(a, take) ==
    LET required == Len(a.payload) + take IN
    IF ~Retained(a.header.type) \/ required <= a.capacity THEN a.capacity
    ELSE MinOf(Largest(required, 2 * a.capacity, take), a.header.length)

\* The assembly the chunk adds to
Opened(h, c) ==
    IF Continuing(c) THEN assembly[c]
    ELSE [header |-> h, payload |-> <<>>, received |-> 0, capacity |-> 0]

Take(a) == MinOf(a.header.length - a.received, chunkSize)

Added(a, body) ==
    [a EXCEPT !.payload = @ \o body, !.received = @ + Len(body),
              !.capacity = Capacity(a, Len(body))]

\* The first defect decode finds in a chunk, "none" when it is taken.  A chunk
\* whose bytes are not where the decoder looks for them is "garbled".
Defect(chunk) ==
    LET c == chunk.csid
        prior == headers[c]
        h == HeaderOf(chunk)
        a == Opened(h, c)
        growth == Capacity(a, Take(a)) - a.capacity
    IN
    IF chunk.fmt # 0 /\ prior = None THEN "no predecessor"
    ELSE IF h.extended # (chunk.ext # None) THEN "garbled"
    ELSE IF chunk.fmt = 3 /\ h.extended /\ chunk.ext # Expected(h, Continuing(c))
         THEN "extended time stamp changed"
    ELSE IF Continuing(c) /\ Replaced(h, assembly[c]) THEN "message replaced"
    ELSE IF h.length > MaxMessage THEN "message too long"
    ELSE IF h.type \notin Types THEN "undefined type"
    ELSE IF prior = None /\ Cardinality(Used) >= MaxStreams THEN "too many chunk streams"
    ELSE IF Take(a) # Len(chunk.body) THEN "garbled"
    ELSE IF buffered + growth > MaxBuffered THEN "too much buffered"
    ELSE "none"

\* TrackBindings::associate and the packets of parse_audio_message,
\* parse_video_message, their multitrack forms and parse_aggregate: `out` has
\* the bindings and events so far, and the first defect.
Packet(out, p, time, csid, stream) ==
    LET at == Plus(time, p.offset)
        conflict == stream # None /\ out.bindings[p.track] \notin {None, stream}
    IN
    IF out.why # "none" THEN out
    ELSE IF p.kind = "bad" THEN [out EXCEPT !.why = "bad packet"]
    ELSE IF stream = 0 \/ conflict THEN [out EXCEPT !.why = "track on two streams"]
    ELSE LET bound == IF stream = None THEN out
                      ELSE [out EXCEPT !.bindings[p.track] = stream]
         IN  IF p.kind = "end" THEN bound
             ELSE IF Len(out.events) >= MaxSinkEvents THEN [bound EXCEPT !.why = "too many events"]
             ELSE [bound EXCEPT !.events = Append(@,
                     [kind |-> p.kind, track |-> p.track, csid |-> csid, time |-> at,
                      stream |-> stream])]

Parsed(packets, time, csid, stream) ==
    LET out[n \in 0..Len(packets)] ==
          IF n = 0 THEN [bindings |-> bindings, events |-> sink, why |-> "none"]
          ELSE Packet(out[n - 1], packets[n], time, csid, stream)
    IN  out[Len(packets)]

\* RtmpDecoder::message: control messages belong on chunk stream 2 and message
\* stream 0, media messages anywhere else.
Misplaced(h, c) ==
    \/ h.type \in Controls /\ (c # 2 \/ h.stream # 0)
    \/ h.type \in Media /\ (c = 2 \/ h.stream = 0)

\* Mutant of Released: an aborted message stays counted.
StaysBuffered(asm, target, left) == left

\* ABORT_MESSAGE: what is buffered once the target's assembly, one of asm, is gone
Released(asm, target, left) ==
    IF target \in Csids /\ asm[target] # None THEN left - asm[target].capacity ELSE left

Refuses(reason) ==
    /\ status' = "refused"
    /\ why' = reason
    /\ UNCHANGED <<chunkSize, headers, assembly, buffered, bindings, sink, delivered>>

\* The argument a control message may have
Permitted(type) ==
    CASE type = "size" -> 1..MaxChunkSize
      [] type = "abort" -> 2..MaxCsid
      [] OTHER -> {}

\* A control message of the right length and argument; an acknowledgement's
\* value is not looked at.
Acceptable(type, arg, payload) ==
    /\ Len(payload) = ControlLength
    /\ type \in {"size", "abort"} => arg \in Permitted(type)

\* RtmpDecoder::message for the message that chunk completes; `hs`, `asm` and
\* `left` are the headers, assemblies and buffered bytes when it is called.
Handles(m, h, c, payload, hs, asm, left) ==
    LET out == Parsed(m.packets, h.time, c, h.stream) IN
    \/ /\ Misplaced(h, c)
       /\ Refuses("misplaced message")
    \/ /\ ~Misplaced(h, c)
       /\ h.type \in Controls /\ ~Acceptable(h.type, m.arg, payload)
       /\ Refuses("bad argument")
    \/ /\ ~Misplaced(h, c)
       /\ h.type \in Media /\ out.why # "none"
       /\ Refuses(out.why)
    \/ /\ ~Misplaced(h, c)
       /\ h.type \in Controls => Acceptable(h.type, m.arg, payload)
       /\ h.type \in Media => out.why = "none"
       /\ chunkSize' = IF h.type = "size" THEN m.arg ELSE chunkSize
       /\ headers' = hs
       /\ assembly' = [x \in Csids |-> IF h.type = "abort" /\ x = m.arg THEN None ELSE asm[x]]
       /\ buffered' = IF h.type = "abort" THEN Released(asm, m.arg, left) ELSE left
       /\ bindings' = IF h.type \in Media THEN out.bindings ELSE bindings
       /\ sink' = IF h.type \in Media THEN out.events ELSE sink
       /\ delivered' = Append(delivered,
             [csid |-> c, time |-> h.time, type |-> h.type, stream |-> h.stream,
              payload |-> payload])
       /\ UNCHANGED <<status, why>>

\* One round of RtmpDecoder::decode.  `m` is the message the bytes belong to.
Decodes(chunk, m) ==
    LET c == chunk.csid
        h == HeaderOf(chunk)
        opened == Opened(h, c)
        a == Added(opened, chunk.body)
        hs == [headers EXCEPT ![c] = h]
        grown == buffered + (a.capacity - opened.capacity)
    IN
    \/ /\ Defect(chunk) # "none"
       /\ Refuses(Defect(chunk))
    \/ /\ Defect(chunk) = "none"
       /\ a.received < a.header.length
       /\ headers' = hs
       /\ assembly' = [assembly EXCEPT ![c] = a]
       /\ buffered' = grown
       /\ UNCHANGED <<status, why, chunkSize, bindings, sink, delivered>>
    \/ /\ Defect(chunk) = "none"
       /\ a.received = a.header.length
       /\ Handles(m, a.header, c, a.payload, hs, [assembly EXCEPT ![c] = None],
                  grown - a.capacity)

-----------------------------------------------------------------------------
(***************************************************************************)
(* Publisher.                                                              *)
(***************************************************************************)
Field(v) == IF v < Marker THEN [raw |-> v, ext |-> None] ELSE [raw |-> Marker, ext |-> v]

\* The formats that may start message m at `time` after the header p.
Formats(m, time, p) ==
    {0} \cup
    (IF p # None /\ p.stream = m.stream
     THEN {1} \cup
          (IF p.length = m.length /\ p.type = m.type
           THEN {2} \cup (IF Since(time, p.time) = p.delta THEN {3} ELSE {}) ELSE {})
     ELSE {})

\* The publisher's header for it: the delta after a type-0 header is its time.
Written(m, time, fmt, p) ==
    LET d == IF fmt = 0 THEN time ELSE Since(time, p.time) IN
    [time |-> time, delta |-> d, length |-> m.length, type |-> m.type, stream |-> m.stream,
     extended |-> d >= Marker, absolute |-> fmt = 0]

Chunk(fmt, c, h, value, n, number) ==
    [fmt |-> fmt, csid |-> c, raw |-> Field(value).raw, ext |-> Field(value).ext,
     length |-> h.length, type |-> h.type, stream |-> h.stream, body |-> [i \in 1..n |-> number]]

\* What a message written to its end does to the publisher
Concludes(w, left, c) ==
    /\ completed' = IF left > 0 THEN completed
                    ELSE Append(completed, [csid |-> c, time |-> w.header.time,
                           type |-> w.message.type, stream |-> w.message.stream,
                           payload |-> [i \in 1..w.message.length |-> w.number]])
    /\ pSize' = IF left = 0 /\ w.message.type = "size" THEN w.message.arg ELSE pSize
    /\ pLeft' = [x \in Csids |->
                   IF x = c THEN (IF left = 0 THEN None ELSE [w EXCEPT !.left = left])
                   ELSE IF left = 0 /\ w.message.type = "abort" /\ x = w.message.arg THEN None
                   ELSE pLeft[x]]

PublishStart(c, m, time, fmt) ==
    LET h == Written(m, time, fmt, pHeaders[c])
        n == MinOf(m.length, pSize)
        w == [message |-> m, header |-> h, number |-> sent', left |-> m.length]
    IN
    /\ status = "open" /\ mode = "rtmp" /\ conforming
    /\ sent < MaxSent
    /\ pLeft[c] = None
    /\ (m.type \in Controls) = (c = 2)
    /\ fmt \in Formats(m, time, pHeaders[c])
    /\ sent' = sent + 1
    /\ pHeaders' = [pHeaders EXCEPT ![c] = h]
    /\ Concludes(w, m.length - n, c)
    /\ Decodes(Chunk(fmt, c, h, h.delta, n, sent'), m)
    /\ UNCHANGED <<mode, connection, conforming>>

PublishMore(c) ==
    LET w == pLeft[c]
        n == MinOf(w.left, pSize)
        value == IF w.header.absolute THEN w.header.time ELSE w.header.delta
    IN
    /\ status = "open" /\ mode = "rtmp" /\ conforming
    /\ w # None
    /\ Concludes(w, w.left - n, c)
    /\ Decodes(Chunk(3, c, w.header, value, n, w.number), w.message)
    /\ UNCHANGED <<mode, connection, pHeaders, sent, conforming>>

\* The chunk's header says nothing else than the header of message w.
Repeats(chunk, w) ==
    /\ w # None
    /\ chunk.fmt # 3 => Value(chunk) = IF chunk.fmt = 0 THEN w.header.time ELSE 0
    /\ chunk.fmt \in {0, 1} => chunk.length = w.header.length /\ chunk.type = w.header.type
    /\ chunk.fmt = 0 => chunk.stream = w.header.stream

\* A chunk outside the rules; it belongs to the message in progress when its
\* header repeats that message's.  What follows it is not a publisher's stream
\* any more, so that the run ends with what the decoder makes of it.
Stray(chunk, m) ==
    LET w == pLeft[chunk.csid]
        number == IF Repeats(chunk, w) THEN w.number ELSE sent'
    IN
    /\ status = "open" /\ mode = "rtmp" /\ conforming
    /\ sent < MaxSent
    /\ sent' = sent + 1
    /\ conforming' = FALSE
    /\ Decodes([chunk EXCEPT !.body = [i \in DOMAIN @ |-> number]], m)
    /\ UNCHANGED <<mode, connection, pHeaders, pLeft, pSize, completed>>

\* ertmp_input_from_rtmp_connections: a connection must end between messages;
\* a reconnect event separates it from the next, which starts afresh.
EndOfConnection ==
    /\ status = "open" /\ mode = "rtmp"
    /\ \/ /\ \E c \in Csids : Continuing(c)
          /\ Refuses("ended in a message")
          /\ UNCHANGED <<connection, publisherVars>>
       \/ /\ \A c \in Csids : ~Continuing(c)
          /\ connection = MaxConnections
          /\ status' = "accepted"
          /\ UNCHANGED <<connection, publisherVars, why, chunkSize, headers, assembly, buffered,
                         bindings, sink, delivered>>
       \/ /\ \A c \in Csids : ~Continuing(c)
          /\ connection < MaxConnections
          /\ \/ /\ Len(sink) >= MaxSinkEvents
                /\ Refuses("too many events")
                /\ UNCHANGED <<connection, publisherVars>>
             \/ /\ Len(sink) < MaxSinkEvents
                /\ connection' = connection + 1
                /\ sink' = Append(sink, [kind |-> "reconnect", track |-> None,
                                             csid |-> None, time |-> 0, stream |-> None])
                /\ \E size \in ChunkSizes :
                     /\ chunkSize' = size
                     /\ pSize' = size
                /\ headers' = [c \in Csids |-> None]
                /\ pHeaders' = [c \in Csids |-> None]
                /\ bindings' = [t \in PacketTracks |-> None]
                /\ pLeft' = [c \in Csids |-> None]
                /\ UNCHANGED <<status, why, assembly, buffered, delivered, sent, conforming,
                               completed>>
    /\ UNCHANGED mode

\* One tag of ertmp_input_from_flv, which has no message streams
FlvTag(tag) ==
    LET csid == IF tag.type = "audio" THEN 3 ELSE 4
        out == Parsed(tag.packets, tag.time, csid, None)
    IN
    /\ status = "open" /\ mode = "flv"
    /\ sent < MaxSent
    /\ sent' = sent + 1
    /\ \/ /\ tag.type \notin {"audio", "video", "data"}
          /\ Refuses("bad tag")
       \/ /\ tag.type \in {"audio", "video"} /\ out.why # "none"
          /\ Refuses(out.why)
       \/ /\ tag.type = "data" \/ (tag.type \in {"audio", "video"} /\ out.why = "none")
          /\ sink' = IF tag.type = "data" THEN sink ELSE out.events
          /\ UNCHANGED <<status, why, chunkSize, headers, assembly, buffered, bindings, delivered>>
    /\ UNCHANGED <<mode, connection, pHeaders, pLeft, pSize, conforming, completed>>

EndOfFile ==
    /\ status = "open" /\ mode = "flv"
    /\ status' = "accepted"
    /\ UNCHANGED <<mode, connection, publisherVars, why, chunkSize, headers, assembly, buffered,
                   bindings, sink, delivered>>

WireNext ==
    \/ \E c \in Csids : \/ PublishMore(c)
                        \/ \E m \in Messages, fmt \in 0..3 :
                             \E time \in m.times : PublishStart(c, m, time, fmt)
    \/ \E chunk \in Strays, m \in Messages : Stray(chunk, m)
    \/ EndOfConnection
    \/ \E tag \in Tags : FlvTag(tag)
    \/ EndOfFile

WireSpec == WireInit /\ [][WireNext]_wireVars

-----------------------------------------------------------------------------
(***************************************************************************)
(* Properties.                                                             *)
(***************************************************************************)

\* Every variable holds what the decoder declares it to hold: an open message
\* has a header, fewer bytes than it announced, and room for those it keeps.
WireTypeOK ==
    /\ mode \in {"rtmp", "flv"}
    /\ status \in {"open", "refused", "accepted"}
    /\ status = "refused" <=> why # "none"
    /\ chunkSize \in 1..MaxChunkSize
    /\ headers \in [Csids -> HeaderType \cup {None}]
    /\ \A c \in Csids : assembly[c] # None =>
         /\ headers[c] # None
         /\ assembly[c].header \in HeaderType
         /\ assembly[c].received \in 0..(assembly[c].header.length - 1)
         /\ assembly[c].capacity \in 0..assembly[c].header.length
    /\ buffered \in 0..MaxBuffered
    /\ bindings \in [PacketTracks -> Nat \cup {None}]
    /\ Len(sink) <= MaxSinkEvents
    /\ connection \in 1..MaxConnections
    /\ sent \in 0..MaxSent
    /\ conforming \in BOOLEAN

\* A publisher that keeps to the rules is understood: whatever the order in
\* which chunk streams interleave, headers are compressed, time stamps wrap
\* or need their extended field, sizes change and messages are aborted, each
\* message it finished is delivered once, in the order finished, with the
\* time, type, stream and bytes it was written with, and the stream is
\* refused only for a limit, for what its packets say, or for its early end.
ConformingStreamIsDelivered ==
    conforming =>
        /\ status # "refused" => delivered = completed
        /\ status = "refused" =>
             why \in {"too much buffered", "too many chunk streams", "too many events",
                      "bad packet", "track on two streams", "ended in a message", "bad tag",
                      "misplaced message", "bad argument"}

\* A message is delivered from its own bytes, all of them: chunks that do not
\* belong together are refused, never joined.
NoMessageIsSpliced ==
    \A i \in DOMAIN delivered :
        Cardinality(Range(delivered[i].payload)) <= 1

\* The bytes the unfinished messages of `asm` have room for, together
Held(asm) ==
    LET sum[n \in 0..MaxCsid] ==
          IF n = 0 THEN 0
          ELSE sum[n - 1] + (IF n \in Csids /\ asm[n] # None THEN asm[n].capacity ELSE 0)
    IN  sum[MaxCsid]

\* The count of buffered bytes is what the unfinished messages hold, over
\* completions, aborts and reconnects: it never drifts away from the memory it
\* bounds.
BufferedIsHeld ==
    status = "open" =>
        /\ buffered = Held(assembly)
        /\ buffered <= MaxBuffered
        /\ \A c \in Csids : assembly[c] # None /\ Retained(assembly[c].header.type) =>
             Len(assembly[c].payload) <= assembly[c].capacity
=============================================================================
