----------------------------- MODULE SseParser -----------------------------
(***************************************************************************)
(* The incremental parser of server-sent events: src/src/sse.rs.           *)
(*                                                                         *)
(* A stream is a sequence of bytes.  DataField stands for the four bytes   *)
(* of "data" and counts as one; any other byte that is none of the         *)
(* constants below is text.  A parser is a record, and the events a call   *)
(* of push or finish returns are in its field `events'.                    *)
(***************************************************************************)
EXTENDS Integers, Sequences, SequencesExt, FiniteSetsExt

CONSTANTS LF, CR, Colon, Space, DataField,
          MaxEventBytes                  \* max_event_bytes

ASSUME SseParserAssumption ==
    /\ Cardinality({LF, CR, Colon, Space, DataField}) = 5
    /\ MaxEventBytes \in Nat

NewParser ==
    [line |-> <<>>, data |-> <<>>, bytes |-> 0, overflowed |-> FALSE,
     events |-> <<>>]

TrimCr(line) == IF line # <<>> /\ Last(line) = CR THEN Front(line) ELSE line

(* Lines joined by newlines.                                               *)
Joined(lines) ==
    FlattenSeq([i \in DOMAIN lines |->
                   IF i = 1 THEN lines[i] ELSE <<LF>> \o lines[i]])

-----------------------------------------------------------------------------
(* Mistakes for the mutants: the event after an oversized one is lost too; *)
(* an oversized event keeps the lines it has; the line ending is looked    *)
(* for at the end of every chunk.                                          *)
ResetEventOverflowed(p) == [p EXCEPT !.data = <<>>, !.bytes = 0]

ResetEvent(p) ==
    [p EXCEPT !.data = <<>>, !.bytes = 0, !.overflowed = FALSE]

Dispatch(p) ==
    IF p.overflowed THEN ResetEvent(p)
    ELSE IF p.data = <<>> THEN p
    ELSE ResetEvent([p EXCEPT !.events = Append(@, Joined(p.data))])

NextSize(p, value) ==
    p.bytes + (IF p.data = <<>> THEN 0 ELSE 1) + Len(value)

AddDataKeeping(p, value) ==
    IF NextSize(p, value) > MaxEventBytes
    THEN [p EXCEPT !.bytes = 0]
    ELSE [p EXCEPT !.data = Append(@, value), !.bytes = NextSize(p, value)]

(* A value that makes the event too large drops what the event has; no     *)
(* later value of the same event is kept.                                  *)
AddData(p, value) ==
    IF NextSize(p, value) > MaxEventBytes
    THEN [p EXCEPT !.overflowed = TRUE, !.data = <<>>, !.bytes = 0]
    ELSE IF p.overflowed THEN p
    ELSE [p EXCEPT !.data = Append(@, value), !.bytes = NextSize(p, value)]

Colons(line) == { i \in DOMAIN line : line[i] = Colon }

Field(line) ==
    IF Colons(line) = {} THEN line ELSE SubSeq(line, 1, Min(Colons(line)) - 1)

Value(line) ==
    LET rest == IF Colons(line) = {} THEN <<>>
                ELSE SubSeq(line, Min(Colons(line)) + 1, Len(line))
    IN  IF rest # <<>> /\ Head(rest) = Space THEN Tail(rest) ELSE rest

(* A blank line ends the event; a comment is a line without a field.       *)
ProcessLine(p, line) ==
    CASE line = <<>>                -> Dispatch(p)
      [] Field(line) = <<DataField>> -> AddData(p, Value(line))
      [] OTHER                      -> p

(* The loop of push takes a line at every newline of its buffer, and what  *)
(* it leaves in the buffer has none: byte by byte, that is                 *)
TakeByte(p, byte) ==
    IF byte = LF THEN ProcessLine([p EXCEPT !.line = <<>>], TrimCr(p.line))
    ELSE [p EXCEPT !.line = Append(@, byte)]

PushPerChunk(p, chunk) ==
    LET q == FoldLeft(TakeByte, [p EXCEPT !.events = <<>>], chunk)
    IN  IF chunk # <<>> /\ Last(chunk) = CR THEN [q EXCEPT !.line = TrimCr(@)] ELSE q

Push(p, chunk) == FoldLeft(TakeByte, [p EXCEPT !.events = <<>>], chunk)

(* The end of the stream ends its last line and its last event.            *)
Finish(p) ==
    LET q == [p EXCEPT !.events = <<>>, !.line = <<>>]
    IN  Dispatch(IF p.line = <<>> THEN q ELSE ProcessLine(q, TrimCr(p.line)))

-----------------------------------------------------------------------------
(* The events of a whole stream, without a parser.  A line is named by the *)
(* place of its newline, an event by that of its blank line.               *)
Ends(s) == { e \in DOMAIN s : s[e] = LF }

LineAt(s, e) ==
    TrimCr(SubSeq(s, Max({0} \cup { i \in Ends(s) : i < e }) + 1, e - 1))

Blanks(s) == { e \in Ends(s) : LineAt(s, e) = <<>> }

DataLines(s, b) ==
    { e \in Ends(s) :
        /\ e < b
        /\ ~ \E c \in Blanks(s) : e <= c /\ c < b
        /\ Field(LineAt(s, e)) = <<DataField>> }

(* The i-th of S is the one with i - 1 below it.                           *)
InOrder(S) ==
    [i \in 1..Cardinality(S) |->
        CHOOSE e \in S : Cardinality({ d \in S : d < e }) = i - 1]

EventAt(s, b) ==
    LET lines == InOrder(DataLines(s, b))
    IN  Joined([i \in DOMAIN lines |-> Value(LineAt(s, lines[i]))])

StreamEvents(s) ==
    LET kept == { b \in Blanks(s) : /\ DataLines(s, b) # {}
                                    /\ Len(EventAt(s, b)) <= MaxEventBytes }
        places == InOrder(kept)
    IN  [i \in DOMAIN places |-> EventAt(s, places[i])]

(* A stream that ends is one that goes on with an empty line.              *)
Ended(s) == s \o <<LF, LF>>
=============================================================================
