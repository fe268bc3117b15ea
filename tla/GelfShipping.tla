----------------------------- MODULE GelfShipping -----------------------------
(***************************************************************************)
(* The transport that ships log lines to Graylog, in a worker thread of    *)
(* its own: over UDP, one datagram a line or several chunks, or over one   *)
(* TCP connection that is opened at the start and never again.  Graylog is *)
(* what its GELF inputs make of the bytes.                                 *)
(***************************************************************************)
EXTENDS Naturals, Sequences, SequencesExt

CONSTANT MaxLines  \* so many lines are logged (bounds the model)

ASSUME GelfShippingAssumption == MaxLines \in Nat

VARIABLES
    protocol,  \* graylog.protocol
    link,      \* the TCP connection, or "none"
    stopped,   \* whether close was called
    source,    \* the lines the transport has not taken yet
    datagrams, \* the UDP datagrams under way
    stream,    \* what was written to the connection and has not arrived
    frame,     \* what arrived since the last terminator
    graylog,   \* the lines Graylog has read
    logged     \* (history) for each line whether it is larger than maxChunkSize

shippingVars == <<protocol, link, stopped, source, datagrams, stream, frame, graylog, logged>>

-----------------------------------------------------------------------------
\* The transport is ready whatever becomes of its connection.
Connect(works) ==
    /\ link = "opening"
    /\ link' = IF works THEN "open" ELSE "broken"
    /\ UNCHANGED <<protocol, stopped, source, datagrams, stream, frame, graylog, logged>>

Log(large) ==
    /\ Len(logged) < MaxLines
    /\ logged' = Append(logged, large)
    /\ source' = Append(source, Len(logged'))
    /\ UNCHANGED <<protocol, link, stopped, datagrams, stream, frame, graylog>>

\* The connection breaks: what is under way is lost, and Graylog drops half a frame.
BreakLink ==
    /\ link = "open"
    /\ link' = "broken" /\ stream' = <<>> /\ frame' = <<>>
    /\ UNCHANGED <<protocol, stopped, source, datagrams, graylog, logged>>

-----------------------------------------------------------------------------
(* sendChunkedMessage: the chunks of a line *)

Chunks == 1 .. 2

\* The magic number is joined with the rest as text: the digits of its two bytes.
ChunkDatagrams(n) == {[line |-> n, chunk |-> i, start |-> "3015"] : i \in Chunks}

WholeDatagram(n) == [line |-> n, chunk |-> 0, start |-> "json"]

\* A GELF input takes JSON, which may be compressed, and chunks by their magic number.
Readable(d) == d.start \in {"json", "0x1e 0x0f"}

\* A message and the byte that ends it; no more than two pieces of it are told apart.
Terminator == <<0, "end">>

\* Mutant of Written: without the byte that ends a message.
WrittenUnterminated(n) == <<<<n, "head">>, <<n, "tail">>>>

Written(n) == <<<<n, "head">>, <<n, "tail">>, Terminator>>

\* The next line; over a connection that is not there any more it is dropped.
Ship ==
    LET n == Head(source) IN
    /\ ~stopped /\ link # "opening"
    /\ source # <<>>
    /\ source' = Tail(source)
    /\ CASE protocol = "udp" ->
              /\ datagrams' = datagrams \cup IF logged[n] THEN ChunkDatagrams(n)
                                                          ELSE {WholeDatagram(n)}
              /\ UNCHANGED stream
         [] protocol = "tcp" ->
              /\ stream' = IF link = "open" THEN stream \o Written(n) ELSE stream
              /\ UNCHANGED datagrams
    /\ UNCHANGED <<protocol, link, stopped, frame, graylog, logged>>

\* The connection is closed after what was written.
CloseTransport ==
    /\ ~stopped
    /\ stopped' = TRUE
    /\ UNCHANGED <<protocol, link, source, datagrams, stream, frame, graylog, logged>>

-----------------------------------------------------------------------------
(* Graylog and the network *)

DatagramArrives(d) ==
    /\ d \in datagrams
    /\ datagrams' = datagrams \ {d}
    /\ graylog' = IF Readable(d) THEN Append(graylog, d.line) ELSE graylog
    /\ UNCHANGED <<protocol, link, stopped, source, stream, frame, logged>>

DatagramIsLost(d) ==
    /\ d \in datagrams
    /\ datagrams' = datagrams \ {d}
    /\ UNCHANGED <<protocol, link, stopped, source, stream, frame, graylog, logged>>

\* The next piece of the stream; a frame that ends is read if it is one message.
PieceArrives ==
    LET piece == Head(stream) IN
    /\ stream # <<>>
    /\ stream' = Tail(stream)
    /\ frame' = IF piece = Terminator THEN <<>> ELSE Append(frame, piece)
    /\ graylog' = IF piece = Terminator /\ Len(frame) = 2 THEN Append(graylog, frame[1][1])
                  ELSE graylog
    /\ UNCHANGED <<protocol, link, stopped, source, datagrams, logged>>

-----------------------------------------------------------------------------
ShippingInit ==
    /\ protocol \in {"udp", "tcp"}
    /\ link = IF protocol = "tcp" THEN "opening" ELSE "none"
    /\ stopped = FALSE
    /\ source = <<>> /\ stream = <<>> /\ frame = <<>> /\ graylog = <<>> /\ logged = <<>>
    /\ datagrams = {}

ShippingNext ==
    \/ \E b \in BOOLEAN : Connect(b) \/ Log(b)
    \/ Ship \/ CloseTransport \/ BreakLink
    \/ \E d \in datagrams : DatagramArrives(d) \/ DatagramIsLost(d)
    \/ PieceArrives

\* The worker goes on taking lines, the attempt to connect ends, and a connection that
\* holds delivers.
ShippingFairness ==
    /\ WF_shippingVars(Ship) /\ WF_shippingVars(PieceArrives)
    /\ WF_shippingVars(\E works \in BOOLEAN : Connect(works))

ShippingSpec == ShippingInit /\ [][ShippingNext]_shippingVars /\ ShippingFairness

-----------------------------------------------------------------------------
(* Properties *)

\* Over TCP every line is read in the end, however large, unless the connection breaks
\* or could not be opened, or the transport is closed first; and what is read is always
\* a beginning of what was logged: a line that was lost is never followed by another,
\* because nothing opens the connection again (the transport of pino-gelf).
LinesArrive ==
    protocol = "tcp" =>
        /\ [](IsPrefix(graylog, [n \in DOMAIN logged |-> n]))
        /\ \A n \in 1 .. MaxLines :
              n \in DOMAIN logged ~> n \in ToSet(graylog) \/ link = "broken" \/ stopped
=============================================================================
