----------------------------- MODULE SseStream -----------------------------
(***************************************************************************)
(* A stream that reaches the parser of SseParser in chunks cut anywhere,   *)
(* as SseObservingReader hands them to it.                                 *)
(***************************************************************************)
EXTENDS SseParser

CONSTANTS Chunks,        \* non-empty sequences of bytes
          MaxStream      \* bound: bytes of a stream

Bytes == UNION {ToSet(chunk) : chunk \in Chunks}

ASSUME SseStreamAssumption == MaxStream \in Nat /\ Chunks \subseteq Seq(Bytes)

VARIABLES parser, stream,     \* what has been pushed
          events,             \* what the calls have returned
          closed

sseVars == <<parser, stream, events, closed>>

Init ==
    /\ parser = NewParser
    /\ stream = <<>>
    /\ events = <<>>
    /\ closed = FALSE

Read(chunk) ==
    /\ ~closed
    /\ Len(stream) + Len(chunk) <= MaxStream
    /\ parser' = Push(parser, chunk)
    /\ stream' = stream \o chunk
    /\ events' = events \o parser'.events
    /\ UNCHANGED closed

Close ==
    /\ ~closed
    /\ parser' = Finish(parser)
    /\ events' = events \o parser'.events
    /\ closed' = TRUE
    /\ UNCHANGED stream

Next ==
    \/ \E chunk \in Chunks : Read(chunk)
    \/ Close
    \/ closed /\ UNCHANGED sseVars

Spec == Init /\ [][Next]_sseVars

(* However the stream is cut, the parser has returned the events of the    *)
(* bytes it has been given, each as soon as its blank line is there, and   *)
(* an event that is too large is missing without a trace in the next one.  *)
EventsOfStream ==
    events = StreamEvents(IF closed THEN Ended(stream) ELSE stream)

(* What the parser keeps of an event is never more than its limit, and it  *)
(* keeps nothing of an event it has given up (the bound of process_line).  *)
KeepsWithinLimit ==
    /\ Len(Joined(parser.data)) = parser.bytes
    /\ parser.bytes <= MaxEventBytes
    /\ parser.overflowed => parser.data = <<>>
=============================================================================
