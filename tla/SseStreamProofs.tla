-------------------------- MODULE SseStreamProofs --------------------------
(***************************************************************************)
(* What is proved of the parser of server-sent events, for all bytes,      *)
(* chunks and limits: what it keeps is within the limit, and what it       *)
(* returns are the events of the stream.  The facts about one call are in  *)
(* PayloadLemmas.                                                          *)
(***************************************************************************)
EXTENDS SseStream, PayloadLemmas

GoodNow == parser \in GoodParser(Bytes \cup {LF})

LEMMA InitGood ==
    ASSUME Init
    PROVE  GoodNow
  BY NewParserGood DEF Init, GoodNow

LEMMA NextGood ==
    ASSUME GoodNow, [Next]_sseVars
    PROVE  GoodNow'
<1> DEFINE B == Bytes \cup {LF}
<1>1. LF \in B /\ parser \in GoodParser(B)
  BY DEF GoodNow
<1>2. ASSUME NEW chunk \in Chunks, Read(chunk)
      PROVE  parser' \in GoodParser(B)
  <2>1. chunk \in Seq(B)
    <3>1. chunk \in Seq(Bytes)
      BY SseStreamAssumption
    <3> QED
      BY <3>1, SeqMonotonic
  <2> HIDE DEF B
  <2>2. Push(parser, chunk) \in GoodParser(B)
    BY <1>1, <2>1, PushGood
  <2> QED
    BY <1>2, <2>2 DEF Read
<1>3. CASE Close
  <2> HIDE DEF B
  <2>1. Finish(parser) \in GoodParser(B)
    BY <1>1, FinishGood
  <2> QED
    BY <1>3, <2>1 DEF Close, GoodNow, B
<1>4. CASE UNCHANGED sseVars
  BY <1>1, <1>4 DEF sseVars, GoodNow
<1> QED
  BY <1>2, <1>3, <1>4 DEF Next, GoodNow

(* However the stream is cut, and whatever is in it, what the parser keeps *)
(* of an event is within the limit, and nothing is kept of one that is not.*)
THEOREM ParserIsBounded == Spec => []KeepsWithinLimit
<1>1. Init => GoodNow
  BY InitGood
<1>2. GoodNow /\ [Next]_sseVars => GoodNow'
  BY NextGood
<1>3. GoodNow => KeepsWithinLimit
  BY DEF GoodNow, GoodParser, KeepsOK, KeepsWithinLimit
<1> QED
  BY <1>1, <1>2, <1>3, PTL DEF Spec

(* The parser has what it has been given, and has returned its events.     *)
Follows ==
    /\ stream \in Seq(Bytes \cup {LF})
    /\ ~closed => Keeps(parser, stream)
    /\ EventsOfStream

LEMMA NextFollows ==
    ASSUME GoodNow, Follows, [Next]_sseVars
    PROVE  Follows'
<1>1. PICK B : B = Bytes \cup {LF}
  OBVIOUS
<1>2. LF \in B /\ parser \in GoodParser(B) /\ stream \in Seq(B)
  BY <1>1 DEF GoodNow, Follows
<1>3. ASSUME NEW chunk \in Chunks, Read(chunk)
      PROVE  Follows'
  <2>1. chunk \in Seq(B)
    <3>1. chunk \in Seq(Bytes) /\ Bytes \subseteq B
      BY <1>1, SseStreamAssumption
    <3> QED
      BY <3>1, SeqMonotonic
  <2>2. ~closed /\ closed' = closed /\ parser' = Push(parser, chunk)
        /\ stream' = Cat(stream, chunk) /\ events' = Cat(events, parser'.events)
    BY <1>3 DEF Read, Cat
  <2>3. Keeps(parser, stream) /\ events = StreamEvents(stream)
    BY <2>2 DEF Follows, EventsOfStream
  <2>4. Tracks(Push(parser, chunk), Cat(stream, chunk), StreamEvents(stream))
    BY <1>2, <2>1, <2>3, PushTracks
  <2>5. Keeps(parser', stream') /\ StreamEvents(stream') = events'
    BY <2>2, <2>3, <2>4 DEF Tracks
  <2>6. stream' \in Seq(B)
    BY <1>2, <2>1, <2>2, CatClosed
  <2> QED
    BY <1>1, <2>2, <2>5, <2>6 DEF Follows, EventsOfStream, Bytes
<1>4. CASE Close
  <2>1. ~closed /\ closed' /\ stream' = stream /\ parser' = Finish(parser)
        /\ events' = Cat(events, parser'.events)
    BY <1>4 DEF Close, Cat
  <2>2. Keeps(parser, stream) /\ events = StreamEvents(stream)
    BY <2>1 DEF Follows, EventsOfStream
  <2>3. StreamEvents(Ended(stream)) = Cat(StreamEvents(stream), Finish(parser).events)
    BY <1>2, <2>2, FinishTracks
  <2> QED
    BY <1>1, <1>2, <2>1, <2>2, <2>3 DEF Follows, EventsOfStream, Bytes
<1>5. CASE UNCHANGED sseVars
  BY <1>5 DEF sseVars, Follows, EventsOfStream, Bytes
<1> QED
  BY <1>3, <1>4, <1>5 DEF Next

(* However the stream is cut into chunks, the events the parser has        *)
(* returned are those of the bytes it has been given, each as soon as its  *)
(* blank line is there; at the end of the stream, also the one that was    *)
(* still open.                                                             *)
THEOREM EventsAreOfStream == Spec => []EventsOfStream
<1>1. Init => GoodNow /\ Follows
  <2> SUFFICES ASSUME Init PROVE GoodNow /\ Follows
    OBVIOUS
  <2>1. GoodNow
    BY InitGood
  <2>2. parser = NewParser /\ stream = <<>> /\ events = <<>> /\ ~closed
    BY DEF Init
  <2>3. Keeps(NewParser, <<>>) /\ StreamEvents(<<>>) = <<>>
    BY NewParserKeeps
  <2>4. <<>> \in Seq(Bytes \cup {LF})
    BY EmptySeq
  <2> QED
    BY <2>1, <2>2, <2>3, <2>4 DEF Follows, EventsOfStream
<1>2. (GoodNow /\ Follows) /\ [Next]_sseVars => (GoodNow /\ Follows)'
  BY NextGood, NextFollows
<1>3. Follows => EventsOfStream
  BY DEF Follows
<1> QED
  BY <1>1, <1>2, <1>3, PTL DEF Spec
=============================================================================
