-------------------------- MODULE StdioProxyProofs --------------------------
(***************************************************************************)
(* What is proved of the stdio proxy, for all lines, pipe capacities,      *)
(* bounds and faults: the type invariant, that both directions are FIFO    *)
(* and lose nothing that a failed write did not lose, that the proxy       *)
(* implements the pair of pipes of Relay, and that the trace matches the   *)
(* traffic and misses nothing.                                             *)
(***************************************************************************)
EXTENDS StdioProxy, SequenceLemmas

(***************************************************************************)
(* The type invariant.                                                     *)
(***************************************************************************)

LEMMA StepKeepsTypes ==
    ASSUME TypeOK, [Next]_vars
    PROVE  TypeOK'
<1> USE NoFrameAssumption, StdioProxyAssumption
<1> USE DEF TypeOK, Directions
<1>1. ASSUME NEW d \in Directions, NEW p \in Payloads, Emit(d, p) PROVE TypeOK'
  <2>1. log' \in [Directions -> Seq(Payloads)] /\ inn' \in [Directions -> Seq(Payloads)]
    BY <1>1 DEF Emit
  <2>2. UNCHANGED <<got, srcOpen, sinkOpen, childUp, out, pc, held, clock, chan, obs, ack>>
    BY <1>1 DEF Emit, obsVars
  <2> QED
    BY <2>1, <2>2
<1>2. ASSUME NEW d \in Directions, Consume(d) PROVE TypeOK'
  <2>1. Head(out[d]) \in Payloads /\ Tail(out[d]) \in Seq(Payloads)
    BY <1>2, HeadTailProperties DEF Consume
  <2>2. got' \in [Directions -> Seq(Payloads)] /\ out' \in [Directions -> Seq(Payloads)]
    BY <1>2, <2>1 DEF Consume
  <2>3. UNCHANGED <<log, srcOpen, sinkOpen, childUp, inn, pc, held, clock, chan, obs, ack>>
    BY <1>2 DEF Consume, obsVars
  <2> QED
    BY <2>2, <2>3
<1>3. ASSUME NEW d \in Directions, CloseSource(d) PROVE TypeOK'
  BY <1>3 DEF CloseSource, relayVars, obsVars
<1>4. ASSUME NEW d \in Directions, CloseSink(d) PROVE TypeOK'
  BY <1>4 DEF CloseSink, relayVars, obsVars
<1>5. ASSUME ChildExit PROVE TypeOK'
  BY <1>5 DEF ChildExit, relayVars, obsVars
<1>6. ASSUME NEW d \in Directions, ReadLine(d) PROVE TypeOK'
  <2>1. Head(inn[d]) \in Payloads /\ Tail(inn[d]) \in Seq(Payloads)
    BY <1>6, HeadTailProperties DEF ReadLine
  <2>a. [dir |-> d, payload |-> Head(inn[d]), at |-> clock] \in Frame
    BY <2>1 DEF Frame
  <2>2. PICK f \in Frame : f = [dir |-> d, payload |-> Head(inn[d]), at |-> clock]
    BY <2>a
  <2>b. f.dir = d /\ f # None
    BY <2>2
  <2>3. /\ held' = [held EXCEPT ![d] = f] /\ inn' = [inn EXCEPT ![d] = Tail(@)]
        /\ pc' = [pc EXCEPT ![d] = "send"] /\ clock' = clock + 1
    BY <1>6, <2>2 DEF ReadLine, Goto
  <2>4. UNCHANGED <<log, got, srcOpen, sinkOpen, childUp, out, chan, obs, ack>>
    BY <1>6 DEF ReadLine, peerVars, obsVars
  <2>5. inn' \in [Directions -> Seq(Payloads)] /\ held' \in [Directions -> Frame \cup {None}]
    BY <2>1, <2>3
  <2> QED
    BY <2>b, <2>3, <2>4, <2>5
<1>7. ASSUME NEW d \in Directions, ReadEof(d) PROVE TypeOK'
  BY <1>7 DEF ReadEof, Goto, peerVars, obsVars
<1>8. ASSUME NEW d \in Directions, SendFrame(d) PROVE TypeOK'
  BY <1>8 DEF SendFrame, Goto, peerVars, obsVars
<1>9. ASSUME NEW d \in Directions, WriteLine(d) PROVE TypeOK'
  <2>1. held[d].payload \in Payloads
    BY <1>9 DEF WriteLine, Frame
  <2>2. /\ out' = [out EXCEPT ![d] = Append(@, held[d].payload)]
        /\ held' = [held EXCEPT ![d] = None] /\ pc' = [pc EXCEPT ![d] = "read"]
    BY <1>9 DEF WriteLine, Goto
  <2>3. UNCHANGED <<log, got, srcOpen, sinkOpen, childUp, inn, clock, chan, obs, ack>>
    BY <1>9 DEF WriteLine, peerVars, obsVars
  <2>4. out' \in [Directions -> Seq(Payloads)]
    BY <2>1, <2>2
  <2> QED
    BY <2>2, <2>3, <2>4
<1>10. ASSUME NEW d \in Directions, WriteError(d) PROVE TypeOK'
  BY <1>10 DEF WriteError, Goto, peerVars, obsVars
<1>11. ASSUME WindDown PROVE TypeOK'
  <2>1. ASSUME WaitChild \/ ReapClient \/ RecvAck \/ JoinObserver PROVE TypeOK'
    BY <2>1 DEF WaitChild, ReapClient, RecvAck, JoinObserver, Goto,
       peerVars, obsVars
  <2>2. ASSUME SendShutdown PROVE TypeOK'
    <3>1. chan' \in Seq(Frame \cup {Shutdown})
      <4>1. chan' = Append(chan, Shutdown) \/ chan' = chan
        BY <2>2 DEF SendShutdown
      <4>2. chan \in Seq(Frame \cup {Shutdown}) /\ Shutdown \in Frame \cup {Shutdown}
        OBVIOUS
      <4>3. Append(chan, Shutdown) \in Seq(Frame \cup {Shutdown})
        BY <4>2, AppendProperties
      <4> QED
        BY <4>1, <4>2, <4>3
    <3>2. /\ pc' = [pc EXCEPT !["s2c"] = "ack"] \/ pc' = [pc EXCEPT !["s2c"] = "join"]
          /\ UNCHANGED <<peerVars, inn, out, held, clock, obsVars>>
      BY <2>2 DEF SendShutdown, Goto
    <3> QED
      BY <3>1, <3>2 DEF peerVars, obsVars
  <2> QED
    BY <1>11, <2>1, <2>2 DEF WindDown
<1>12. ASSUME Observe PROVE TypeOK'
  <2>1. ASSUME ObserveFrame PROVE TypeOK'
    BY <2>1, HeadTailProperties DEF ObserveFrame, peerVars, relayVars
  <2>2. ASSUME ObserveShutdown PROVE TypeOK'
    BY <2>2 DEF ObserveShutdown, peerVars, relayVars
  <2>3. ASSUME ObserverPanic PROVE TypeOK'
    BY <2>3 DEF ObserverPanic, peerVars, relayVars
  <2> QED
    BY <1>12, <2>1, <2>2, <2>3 DEF Observe
<1>13. ASSUME Kill PROVE TypeOK'
  BY <1>13 DEF Kill, Goto, peerVars, obsVars
<1>14. ASSUME UNCHANGED vars PROVE TypeOK'
  BY <1>14 DEF vars, peerVars, relayVars, obsVars
<1> QED
  BY <1>1, <1>2, <1>3, <1>4, <1>5, <1>6, <1>7, <1>8, <1>9, <1>10, <1>11,
     <1>12, <1>13, <1>14 DEF Next, ClientThread, MainThread, Relay, Peers, Over

(* The state is well formed at all times: every program counter, pipe and  *)
(* message is of its kind, and a thread that is about to send or write has *)
(* a frame of its own direction in its hands.                              *)
THEOREM TypeCorrect == Spec => []TypeOK
<1>1. Init => TypeOK
  BY NoFrameAssumption, StdioProxyAssumption DEF Init, TypeOK, Directions
<1>2. TypeOK /\ [Next]_vars => TypeOK'
  BY StepKeepsTypes
<1> QED
  BY <1>1, <1>2, PTL DEF Spec

(***************************************************************************)
(* The relay.                                                              *)
(***************************************************************************)

(***************************************************************************)
(* The three segments of a direction: the pipe o to its reader, the line c *)
(* in the hands of the proxy and the pipe i from its writer, behind the    *)
(* lines g already read.                                                   *)
(***************************************************************************)

(* A line enters at the writer's end.                                      *)
LEMMA EnterSegments ==
    ASSUME NEW S, NEW g \in Seq(S), NEW o \in Seq(S), NEW c \in Seq(S),
           NEW i \in Seq(S), NEW l \in Seq(S)
    PROVE  Cat(Cat(g, Cat(Cat(o, c), i)), l) = Cat(g, Cat(Cat(o, c), Cat(i, l)))
  BY CatAssociative, CatClosed

(* A line leaves at the reader's end.                                      *)
LEMMA LeaveSegments ==
    ASSUME NEW S, NEW g \in Seq(S), NEW o \in Seq(S), NEW c \in Seq(S),
           NEW i \in Seq(S), o # <<>>
    PROVE  Cat(g, Cat(Cat(o, c), i))
              = Cat(Append(g, Head(o)), Cat(Cat(Tail(o), c), i))
<1>1. PICK h \in Seq(S), t \in Seq(S) :
         h = <<Head(o)>> /\ t = Tail(o) /\ o = Cat(h, t)
  BY HeadTailCat
<1>2. Append(g, Head(o)) = Cat(g, h)
  BY <1>1, HeadTailCat, AppendIsCat
<1>3. Cat(g, Cat(Cat(Cat(h, t), c), i)) = Cat(Cat(g, h), Cat(Cat(t, c), i))
  BY CatAssociative, CatClosed
<1> QED
  BY <1>1, <1>2, <1>3

(* The proxy takes a line from the writer's pipe into empty hands.         *)
LEMMA TakeFromPipe ==
    ASSUME NEW S, NEW o \in Seq(S), NEW i \in Seq(S), i # <<>>
    PROVE  (o \o <<>>) \o i = (o \o <<Head(i)>>) \o Tail(i)
<1>1. <<Head(i)>> \in Seq(S) /\ Tail(i) \in Seq(S) /\ i = <<Head(i)>> \o Tail(i)
  BY HeadTailProperties, HeadTailAppend
<1>2. o \o <<>> = o
  BY ConcatEmptySeq
<1> QED
  BY <1>1, <1>2, ConcatAssociative

(* The proxy puts the line in its hands into the reader's pipe.            *)
LEMMA PutIntoPipe ==
    ASSUME NEW S, NEW o \in Seq(S), NEW i \in Seq(S), NEW e \in S
    PROVE  (o \o <<e>>) \o i = (Append(o, e) \o <<>>) \o i
<1>1. Append(o, e) = o \o <<e>> /\ Append(o, e) \in Seq(S)
  BY AppendIsConcat
<1>2. Append(o, e) \o <<>> = Append(o, e)
  BY <1>1, ConcatEmptySeq
<1> QED
  BY <1>1, <1>2

LEMMA SegmentTypes ==
    ASSUME TypeOK, NEW d \in Directions
    PROVE  /\ log[d] \in Seq(Payloads) /\ got[d] \in Seq(Payloads)
           /\ out[d] \in Seq(Payloads) /\ inn[d] \in Seq(Payloads)
           /\ Carried(d) \in Seq(Payloads)
  BY NoFrameAssumption DEF TypeOK, Carried, Frame

(* LinesInOrder for one direction, strengthened: that a line lost in a     *)
(* failed write is the end of the matter needs that its reader has gone    *)
(* for good.  A step that does not touch the lines of the direction and    *)
(* does not revive it keeps this.                                          *)
LinesOf(d) == <<log[d], got[d], inn[d], out[d], held[d]>>

DirectionOK(d) ==
    /\ IsPrefix(got[d], log[d])
    /\ pc[d] \notin {"failed", "aborted"} => log[d] = got[d] \o InFlight(d)
    /\ pc[d] \in {"failed", "aborted"} => ~sinkOpen[d]

LEMMA QuietStep ==
    ASSUME NEW d \in Directions, DirectionOK(d), UNCHANGED LinesOf(d),
           pc'[d] \in {"failed", "aborted"} <=> pc[d] \in {"failed", "aborted"},
           sinkOpen'[d] => sinkOpen[d]
    PROVE  DirectionOK(d)'
  BY DEF DirectionOK, LinesOf, InFlight, Carried

(* The emission of a line, its reading by the other peer, and the three    *)
(* steps of the thread in between, for the direction they are about.       *)
LEMMA EmitKeepsOrder ==
    ASSUME TypeOK, NEW d \in Directions, NEW p \in Payloads, DirectionOK(d),
           Emit(d, p)
    PROVE  DirectionOK(d)'
<1>1. /\ log'[d] = Append(log[d], p) /\ inn'[d] = Append(inn[d], p)
      /\ UNCHANGED <<got, out, held, pc, sinkOpen>>
  BY DEF Emit, TypeOK
<1>2. Carried(d) \in Seq(Payloads) /\ Carried(d)' = Carried(d)
  BY <1>1, NoFrameAssumption DEF TypeOK, Carried, Frame
<1>3. IsPrefix(got[d], log'[d])
  BY <1>1, PrefixOfAppend DEF TypeOK, DirectionOK
<1>4. CASE log[d] = got[d] \o InFlight(d)
  <2>1. PICK l \in Seq(Payloads) : l = <<p>>
    <3>1. <<p>> \in Seq(Payloads)
      OBVIOUS
    <3> QED
      BY <3>1
  <2>2. log'[d] = Cat(log[d], l) /\ inn'[d] = Cat(inn[d], l)
    BY <1>1, <2>1, SegmentTypes, AppendIsCat
  <2>3. Cat(Cat(got[d], Cat(Cat(out[d], Carried(d)), inn[d])), l)
          = Cat(got[d], Cat(Cat(out[d], Carried(d)), Cat(inn[d], l)))
    <3>1. PICK g \in Seq(Payloads), o \in Seq(Payloads),
               c \in Seq(Payloads), i \in Seq(Payloads) :
             g = got[d] /\ o = out[d] /\ c = Carried(d) /\ i = inn[d]
      BY SegmentTypes
    <3>2. Cat(Cat(g, Cat(Cat(o, c), i)), l) = Cat(g, Cat(Cat(o, c), Cat(i, l)))
      BY EnterSegments
    <3> QED
      BY <3>1, <3>2
  <2>4. log[d] = Cat(got[d], Cat(Cat(out[d], Carried(d)), inn[d]))
    BY <1>4 DEF Cat, InFlight
  <2>5. log'[d] = Cat(got[d], Cat(Cat(out[d], Carried(d)), inn'[d]))
    BY <2>2, <2>3, <2>4
  <2> QED
    BY <1>1, <1>2, <1>3, <2>5 DEF Cat, DirectionOK, InFlight
<1>5. CASE log[d] # got[d] \o InFlight(d)
  BY <1>1, <1>3, <1>5 DEF DirectionOK
<1> QED
  BY <1>4, <1>5

LEMMA ConsumeKeepsOrder ==
    ASSUME TypeOK, TypeOK', NEW d \in Directions, DirectionOK(d), Consume(d)
    PROVE  DirectionOK(d)'
<1>1. /\ sinkOpen[d] /\ out[d] # <<>>
      /\ got'[d] = Append(got[d], Head(out[d])) /\ out'[d] = Tail(out[d])
      /\ UNCHANGED <<log, inn, held, pc, sinkOpen>>
  BY DEF Consume, TypeOK
<1>2. Carried(d) \in Seq(Payloads) /\ Carried(d)' = Carried(d)
  BY <1>1, NoFrameAssumption DEF TypeOK, Carried, Frame
<1>3. log[d] = got[d] \o InFlight(d) /\ pc[d] \notin {"failed", "aborted"}
  BY <1>1 DEF DirectionOK
<1>4. got[d] \o ((out[d] \o Carried(d)) \o inn[d])
        = Append(got[d], Head(out[d]))
             \o ((Tail(out[d]) \o Carried(d)) \o inn[d])
  <2>1. Cat(got[d], Cat(Cat(out[d], Carried(d)), inn[d]))
          = Cat(Append(got[d], Head(out[d])),
                Cat(Cat(Tail(out[d]), Carried(d)), inn[d]))
    BY <1>1, SegmentTypes, LeaveSegments
  <2> QED
    BY <2>1 DEF Cat
<1>5. log'[d] = got'[d] \o InFlight(d)'
  BY <1>1, <1>2, <1>3, <1>4 DEF InFlight
<1>6. IsPrefix(got[d], log[d])'
  <2>1. got'[d] \in Seq(Payloads) /\ out'[d] \in Seq(Payloads)
    BY DEF TypeOK
  <2>2. InFlight(d)' \in Seq(Payloads)
    BY <1>1, <1>2, <2>1, SegmentTypes, CatClosed DEF InFlight, Cat
  <2> QED
    BY <1>5, <2>1, <2>2, PrefixOfConcat
<1> QED
  BY <1>1, <1>3, <1>5, <1>6 DEF DirectionOK

LEMMA ReadKeepsOrder ==
    ASSUME TypeOK, NEW d \in Directions, DirectionOK(d), ReadLine(d)
    PROVE  DirectionOK(d)'
<1>1. /\ inn[d] # <<>> /\ inn'[d] = Tail(inn[d]) /\ held[d] = None
      /\ held'[d] = [dir |-> d, payload |-> Head(inn[d]), at |-> clock]
      /\ pc[d] = "read" /\ pc'[d] = "send"
      /\ UNCHANGED <<log, got, out, sinkOpen>>
  BY DEF ReadLine, Goto, TypeOK, peerVars
<1>2. Head(inn[d]) \in Payloads
  BY <1>1, HeadTailProperties DEF TypeOK
<1>3. held'[d] # None
  BY <1>1, <1>2, NoFrameAssumption DEF Frame, TypeOK
<1>4. Carried(d) = <<>> /\ Carried(d)' = <<Head(inn[d])>>
  BY <1>1, <1>3 DEF Carried
<1>5. (out[d] \o <<>>) \o inn[d] = (out[d] \o <<Head(inn[d])>>) \o Tail(inn[d])
  BY <1>1, SegmentTypes, TakeFromPipe
<1>6. InFlight(d)' = InFlight(d)
  BY <1>1, <1>4, <1>5 DEF InFlight
<1> QED
  BY <1>1, <1>6 DEF DirectionOK

LEMMA WriteKeepsOrder ==
    ASSUME TypeOK, NEW d \in Directions, DirectionOK(d), WriteLine(d)
    PROVE  DirectionOK(d)'
<1>1. /\ held[d] # None /\ held[d] \in Frame /\ held'[d] = None
      /\ out'[d] = Append(out[d], held[d].payload)
      /\ pc[d] = "write" /\ pc'[d] = "read"
      /\ UNCHANGED <<log, got, inn, sinkOpen>>
  BY DEF WriteLine, Goto, TypeOK, peerVars
<1>2. held[d].payload \in Payloads
  BY <1>1 DEF Frame
<1>3. Carried(d) = <<held[d].payload>> /\ Carried(d)' = <<>>
  BY <1>1 DEF Carried
<1>4. (out[d] \o <<held[d].payload>>) \o inn[d]
        = (Append(out[d], held[d].payload) \o <<>>) \o inn[d]
  BY <1>2, SegmentTypes, PutIntoPipe
<1>5. InFlight(d)' = InFlight(d)
  BY <1>1, <1>3, <1>4 DEF InFlight
<1> QED
  BY <1>1, <1>5 DEF DirectionOK

(* Every step of the proxy and of its peers, seen from one direction.      *)
LEMMA StepKeepsOrder ==
    ASSUME TypeOK, TypeOK', [Next]_vars, NEW d \in Directions, DirectionOK(d)
    PROVE  DirectionOK(d)'
<1>1. ASSUME NEW e \in Directions, NEW p \in Payloads, Emit(e, p)
      PROVE  DirectionOK(d)'
  <2>1. CASE e = d
    BY <1>1, <2>1, EmitKeepsOrder
  <2>2. CASE e # d
    BY <1>1, <2>2, QuietStep DEF Emit, LinesOf, TypeOK
  <2> QED
    BY <2>1, <2>2
<1>2. ASSUME NEW e \in Directions, Consume(e) PROVE DirectionOK(d)'
  <2>1. CASE e = d
    BY <1>2, <2>1, ConsumeKeepsOrder
  <2>2. CASE e # d
    BY <1>2, <2>2, QuietStep DEF Consume, LinesOf, TypeOK
  <2> QED
    BY <2>1, <2>2
<1>3. ASSUME NEW e \in Directions, CloseSource(e) \/ CloseSink(e)
      PROVE  DirectionOK(d)'
  <2>1. CASE CloseSource(e)
    BY <2>1, QuietStep DEF CloseSource, LinesOf, TypeOK, relayVars
  <2>2. CASE CloseSink(e)
    BY <2>2, QuietStep DEF CloseSink, LinesOf, TypeOK, relayVars
  <2> QED
    BY <1>3, <2>1, <2>2
<1>4. ASSUME ChildExit PROVE DirectionOK(d)'
  BY <1>4, QuietStep DEF ChildExit, LinesOf, TypeOK, relayVars
<1>5. ASSUME NEW e \in Directions, ReadLine(e) PROVE DirectionOK(d)'
  <2>1. CASE e = d
    BY <1>5, <2>1, ReadKeepsOrder
  <2>2. CASE e # d
    BY <1>5, <2>2, QuietStep DEF ReadLine, Goto, LinesOf, TypeOK, peerVars
  <2> QED
    BY <2>1, <2>2
<1>6. ASSUME NEW e \in Directions, ReadEof(e) \/ SendFrame(e)
      PROVE  DirectionOK(d)'
  <2>1. /\ UNCHANGED LinesOf(d) /\ UNCHANGED sinkOpen
        /\ pc[e] \in {"read", "send"}
        /\ \E l \in {"done", "wait", "write"} : Goto(e, l)
    <3>1. CASE ReadEof(e)
      BY <3>1 DEF ReadEof, LinesOf, peerVars
    <3>2. CASE SendFrame(e)
      BY <3>2 DEF SendFrame, LinesOf, peerVars
    <3> QED
      BY <1>6, <3>1, <3>2
  <2>2. pc'[d] \in {"failed", "aborted"} <=> pc[d] \in {"failed", "aborted"}
    BY <2>1 DEF Goto, TypeOK
  <2> QED
    BY <2>1, <2>2, QuietStep
<1>7. ASSUME NEW e \in Directions, WriteLine(e) PROVE DirectionOK(d)'
  <2>1. CASE e = d
    BY <1>7, <2>1, WriteKeepsOrder
  <2>2. CASE e # d
    BY <1>7, <2>2, QuietStep DEF WriteLine, Goto, LinesOf, TypeOK, peerVars
  <2> QED
    BY <2>1, <2>2
<1>8. ASSUME NEW e \in Directions, WriteError(e) PROVE DirectionOK(d)'
  <2>1. CASE e = d
    BY <1>8, <2>1 DEF WriteError, Goto, TypeOK, peerVars, DirectionOK
  <2>2. CASE e # d
    BY <1>8, <2>2, QuietStep DEF WriteError, Goto, LinesOf, TypeOK, peerVars
  <2> QED
    BY <2>1, <2>2
<1>9. ASSUME WindDown \/ Kill PROVE DirectionOK(d)'
  <2>1. CASE WaitChild \/ ReapClient \/ RecvAck \/ JoinObserver
    <3>1. UNCHANGED <<peerVars, inn, out, held>> /\ pc["s2c"] \notin {"failed", "aborted"}
      BY <2>1 DEF WaitChild, ReapClient, RecvAck, JoinObserver
    <3>2. PICK l \in {"reap", "shutdown", "join", "exited"} : Goto("s2c", l)
      BY <2>1 DEF WaitChild, ReapClient, RecvAck, JoinObserver
    <3> QED
      BY <3>1, <3>2, QuietStep DEF Goto, LinesOf, TypeOK, peerVars
  <2>2. CASE SendShutdown
    <3>1. /\ UNCHANGED <<peerVars, inn, out, held>> /\ pc["s2c"] = "shutdown"
          /\ Goto("s2c", "ack") \/ Goto("s2c", "join")
      BY <2>2 DEF SendShutdown
    <3> QED
      BY <3>1, QuietStep DEF Goto, LinesOf, TypeOK, peerVars
  <2>3. CASE Kill
    BY <2>3, QuietStep DEF Kill, Running, Goto, LinesOf, TypeOK, peerVars
  <2> QED
    BY <1>9, <2>1, <2>2, <2>3 DEF WindDown
<1>10. ASSUME Observe \/ UNCHANGED vars PROVE DirectionOK(d)'
  BY <1>10, QuietStep DEF Observe, ObserveFrame, ObserveShutdown, ObserverPanic,
     LinesOf, vars, peerVars, relayVars
<1>11. ASSUME NEW e \in Directions, Relay(e) PROVE DirectionOK(d)'
  BY <1>5, <1>6, <1>7, <1>8, <1>11 DEF Relay
<1>12. ASSUME Peers PROVE DirectionOK(d)'
  BY <1>1, <1>2, <1>3, <1>4, <1>12 DEF Peers
<1>13. "c2s" \in Directions /\ "s2c" \in Directions
  BY DEF Directions
<1> QED
  BY <1>9, <1>10, <1>11, <1>12, <1>13 DEF Next, ClientThread, MainThread, Over

(* Both directions are FIFO, and no line is lost or duplicated until a     *)
(* write fails: whatever the lines, the speed of the peers and the fate of *)
(* the observer.                                                           *)
THEOREM RelayInOrder == Spec => []LinesInOrder
<1> DEFINE Inv == \A d \in Directions : DirectionOK(d)
<1>1. Init => Inv
  <2> SUFFICES ASSUME Init, NEW d \in Directions PROVE DirectionOK(d)
    OBVIOUS
  <2>1. InFlight(d) = <<>> /\ log[d] = <<>> /\ got[d] = <<>> /\ pc[d] = "read"
    BY DEF Init, InFlight, Carried
  <2> QED
    BY <2>1 DEF DirectionOK, IsPrefix
<1>2. TypeOK /\ TypeOK' /\ Inv /\ [Next]_vars => Inv'
  BY StepKeepsOrder
<1>3. Inv => LinesInOrder
  BY DEF LinesInOrder, DirectionOK
<1> QED
  BY <1>1, <1>2, <1>3, TypeCorrect, PTL DEF Spec
(***************************************************************************)
(* The refinement.  A step of the proxy is seen in the pipes through the   *)
(* lines in flight, the breaking of a direction and the killing of the     *)
(* process; each of the next three lemmas is one of the steps that a pair  *)
(* of pipes takes.                                                         *)
(***************************************************************************)
Flight(d) == IF Broken(d) THEN out[d] ELSE InFlight(d)

Alive == pc["s2c"] # "killed"

LEMMA SendsInPipe ==
    ASSUME NEW d \in Directions, NEW p \in Payloads, srcOpen[d],
           log' = [log EXCEPT ![d] = Append(@, p)],
           \A e \in Directions : Broken(e)' = Broken(e),
           \A e \in Directions : e # d => Flight(e)' = Flight(e),
           Flight(d)' = IF Broken(d) THEN Flight(d) ELSE Append(Flight(d), p),
           UNCHANGED <<got, srcOpen, sinkOpen, Alive>>
    PROVE  Pipe!Next
<1> DEFINE F == [e \in Directions |-> Flight(e)]
           B == [e \in Directions |-> Broken(e)]
<1>1. B' = B
  OBVIOUS
<1>2. F' = IF B[d] THEN F ELSE [F EXCEPT ![d] = Append(@, p)]
  OBVIOUS
<1>3. Pipe!Send(d)
  BY <1>1, <1>2 DEF Pipe!Send, Flight, Alive
<1> QED
  BY <1>3 DEF Pipe!Next, Pipe!Ways, Directions

LEMMA ReceivesFromPipe ==
    ASSUME NEW d \in Directions, sinkOpen[d], Flight(d) # <<>>,
           got' = [got EXCEPT ![d] = Append(@, Head(Flight(d)))],
           \A e \in Directions : Broken(e)' = Broken(e),
           \A e \in Directions : e # d => Flight(e)' = Flight(e),
           Flight(d)' = Tail(Flight(d)),
           UNCHANGED <<log, srcOpen, sinkOpen, Alive>>
    PROVE  Pipe!Next
<1> DEFINE F == [e \in Directions |-> Flight(e)]
           B == [e \in Directions |-> Broken(e)]
<1>1. B' = B
  OBVIOUS
<1>2. F' = [F EXCEPT ![d] = Tail(@)] /\ F[d] = Flight(d)
  OBVIOUS
<1>3. Pipe!Recv(d)
  BY <1>1, <1>2 DEF Pipe!Recv, Flight, Alive
<1> QED
  BY <1>3 DEF Pipe!Next, Pipe!Ways, Directions

LEMMA LeavesPipes ==
    ASSUME \A e \in Directions : Broken(e)' = Broken(e),
           \A e \in Directions : Flight(e)' = Flight(e),
           \A e \in Directions : /\ srcOpen'[e] => srcOpen[e]
                                 /\ sinkOpen'[e] => sinkOpen[e],
           UNCHANGED <<log, got, Alive>>
    PROVE  Pipe!Next
<1> DEFINE F == [e \in Directions |-> Flight(e)]
           B == [e \in Directions |-> Broken(e)]
<1>1. B' = B /\ F' = F
  OBVIOUS
<1>2. Pipe!HangUp
  BY <1>1 DEF Pipe!HangUp, Pipe!Ways, Directions, Flight, Alive
<1> QED
  BY <1>2 DEF Pipe!Next

LEMMA BreaksPipes ==
    ASSUME UNCHANGED <<log, got, srcOpen, sinkOpen>>, Alive' => Alive,
           \A e \in Directions :
              /\ Broken(e) => Broken(e)'
              /\ IsPrefix(Flight(e)', Flight(e))
              /\ Flight(e)' # Flight(e) =>
                   Broken(e)' /\ (~Alive' \/ ~sinkOpen[e] \/ ~sinkOpen["s2c"])
    PROVE  Pipe!Next
<1>1. Pipe!Break
  BY DEF Pipe!Break, Pipe!Ways, Pipe!IsPrefix, IsPrefix, Directions, Flight, Alive
<1> QED
  BY <1>1 DEF Pipe!Next

(* A line that arrives behind the lines of a pipe, and one that leaves it. *)
LEMMA FlightGrows ==
    ASSUME NEW S, NEW o \in Seq(S), NEW c \in Seq(S), NEW i \in Seq(S), NEW p \in S
    PROVE  (o \o c) \o Append(i, p) = Append((o \o c) \o i, p)
  OBVIOUS

LEMMA FlightShrinks ==
    ASSUME NEW S, NEW o \in Seq(S), NEW c \in Seq(S), NEW i \in Seq(S), o # <<>>
    PROVE  /\ Cat(Cat(o, c), i) # <<>>
           /\ Head(Cat(Cat(o, c), i)) = Head(o)
           /\ Tail(Cat(Cat(o, c), i)) = Cat(Cat(Tail(o), c), i)
  BY DEF Cat

(* What the main thread knows of the child when it has read to the end.    *)
AfterEof == {"wait", "reap", "shutdown", "ack", "join", "exited"}
AfterWait == AfterEof \ {"wait"}

EofOK ==
    /\ ~childUp => ~srcOpen["s2c"] /\ ~sinkOpen["c2s"]
    /\ pc["s2c"] \in AfterEof =>
         inn["s2c"] = <<>> /\ ~srcOpen["s2c"] /\ held["s2c"] = None
    /\ pc["s2c"] \in AfterWait => ~childUp

LEMMA StepKeepsEof ==
    ASSUME TypeOK, [Next]_vars, EofOK PROVE EofOK'
<1> USE DEF TypeOK, Directions, AfterEof, AfterWait
<1>1. ASSUME NEW e \in Directions, NEW p \in Payloads, Emit(e, p) PROVE EofOK'
  BY <1>1 DEF Emit, EofOK
<1>2. ASSUME NEW e \in Directions, Consume(e) \/ CloseSource(e) \/ CloseSink(e)
      PROVE  EofOK'
  BY <1>2 DEF Consume, CloseSource, CloseSink, EofOK, relayVars
<1>3. ASSUME ChildExit PROVE EofOK'
  BY <1>3 DEF ChildExit, EofOK, relayVars
<1>4. ASSUME NEW e \in Directions, ReadLine(e) \/ ReadEof(e) PROVE EofOK'
  BY <1>4 DEF ReadLine, ReadEof, Goto, EofOK, peerVars
<1>5. ASSUME NEW e \in Directions, SendFrame(e) PROVE EofOK'
  BY <1>5 DEF SendFrame, Goto, EofOK, peerVars
<1>6. ASSUME NEW e \in Directions, WriteLine(e) \/ WriteError(e) PROVE EofOK'
  BY <1>6 DEF WriteLine, WriteError, Goto, EofOK, peerVars
<1>7. ASSUME WaitChild \/ ReapClient \/ RecvAck \/ JoinObserver PROVE EofOK'
  BY <1>7 DEF WaitChild, ReapClient, RecvAck, JoinObserver, Goto, EofOK, peerVars
<1>8. ASSUME SendShutdown PROVE EofOK'
  <2>1. /\ UNCHANGED <<peerVars, inn, held>> /\ pc["s2c"] = "shutdown"
        /\ pc'["s2c"] \in {"ack", "join"}
    BY <1>8 DEF SendShutdown, Goto
  <2> QED
    BY <2>1 DEF EofOK, peerVars
<1>9. ASSUME Observe PROVE EofOK'
  BY <1>9 DEF Observe, ObserveFrame, ObserveShutdown, ObserverPanic, EofOK,
     peerVars, relayVars
<1>10. ASSUME Kill PROVE EofOK'
  BY <1>10 DEF Kill, Goto, EofOK, peerVars
<1>11. ASSUME UNCHANGED vars PROVE EofOK'
  BY <1>11 DEF vars, peerVars, relayVars, EofOK
<1> QED
  BY <1>1, <1>2, <1>3, <1>4, <1>5, <1>6, <1>7, <1>8, <1>9, <1>10, <1>11
     DEF Next, ClientThread, MainThread, Relay, WindDown, Peers, Over

(* A step that moves no line and breaks no direction, or moves the lines   *)
(* of a direction only within the proxy.                                   *)
LEMMA MovesWithin ==
    ASSUME \A e \in Directions : Broken(e)' = Broken(e),
           \A e \in Directions : InFlight(e)' = InFlight(e),
           \A e \in Directions : Broken(e) => out'[e] = out[e],
           UNCHANGED <<peerVars, Alive>>
    PROVE  Pipe!Next
<1>1. \A e \in Directions : Flight(e)' = Flight(e)
  BY DEF Flight
<1> QED
  BY <1>1, LeavesPipes DEF peerVars

LEMMA EmitIsSend ==
    ASSUME TypeOK, NEW d \in Directions, NEW p \in Payloads, Emit(d, p)
    PROVE  Pipe!Next
<1>1. /\ srcOpen[d] /\ log' = [log EXCEPT ![d] = Append(@, p)]
      /\ inn'[d] = Append(inn[d], p)
      /\ \A e \in Directions : e # d => inn'[e] = inn[e]
      /\ UNCHANGED <<got, srcOpen, sinkOpen, out, pc, held>>
  BY DEF Emit, TypeOK
<1>2. \A e \in Directions : Broken(e)' = Broken(e) /\ Carried(e)' = Carried(e)
  BY <1>1 DEF Broken, Running, Carried
<1>3. \A e \in Directions : e # d => Flight(e)' = Flight(e)
  BY <1>1, <1>2 DEF Flight, InFlight
<1>4. InFlight(d)' = Append(InFlight(d), p)
  <2>1. (out[d] \o Carried(d)) \o Append(inn[d], p)
           = Append((out[d] \o Carried(d)) \o inn[d], p)
    <3>1. PICK o \in Seq(Payloads), c \in Seq(Payloads), i \in Seq(Payloads) :
             o = out[d] /\ c = Carried(d) /\ i = inn[d]
      BY SegmentTypes
    <3>2. (o \o c) \o Append(i, p) = Append((o \o c) \o i, p)
      BY FlightGrows
    <3> QED
      BY <3>1, <3>2
  <2> QED
    BY <1>1, <1>2, <2>1 DEF InFlight
<1>5. Flight(d)' = IF Broken(d) THEN Flight(d) ELSE Append(Flight(d), p)
  BY <1>1, <1>2, <1>4 DEF Flight
<1>6. UNCHANGED Alive
  BY <1>1 DEF Alive
<1> QED
  BY <1>1, <1>2, <1>3, <1>5, <1>6, SendsInPipe

LEMMA ConsumeIsRecv ==
    ASSUME TypeOK, NEW d \in Directions, Consume(d) PROVE Pipe!Next
<1>1. /\ sinkOpen[d] /\ out[d] # <<>>
      /\ got' = [got EXCEPT ![d] = Append(@, Head(out[d]))]
      /\ out'[d] = Tail(out[d])
      /\ \A e \in Directions : e # d => out'[e] = out[e]
      /\ UNCHANGED <<log, srcOpen, sinkOpen, inn, pc, held>>
  BY DEF Consume, TypeOK
<1>2. \A e \in Directions : Broken(e)' = Broken(e) /\ Carried(e)' = Carried(e)
  BY <1>1 DEF Broken, Running, Carried
<1>3. \A e \in Directions : e # d => Flight(e)' = Flight(e)
  BY <1>1, <1>2 DEF Flight, InFlight
<1>4. /\ InFlight(d) # <<>> /\ Head(InFlight(d)) = Head(out[d])
      /\ InFlight(d)' = Tail(InFlight(d))
  <2>1. /\ (out[d] \o Carried(d)) \o inn[d] # <<>>
        /\ Head((out[d] \o Carried(d)) \o inn[d]) = Head(out[d])
        /\ Tail((out[d] \o Carried(d)) \o inn[d])
              = (Tail(out[d]) \o Carried(d)) \o inn[d]
    <3>1. PICK o \in Seq(Payloads), c \in Seq(Payloads), i \in Seq(Payloads) :
             o = out[d] /\ c = Carried(d) /\ i = inn[d]
      BY SegmentTypes
    <3>2. o # <<>>
      BY <1>1, <3>1
    <3>3. /\ Cat(Cat(o, c), i) # <<>> /\ Head(Cat(Cat(o, c), i)) = Head(o)
          /\ Tail(Cat(Cat(o, c), i)) = Cat(Cat(Tail(o), c), i)
      BY <3>2, FlightShrinks
    <3> QED
      BY <3>1, <3>3 DEF Cat
  <2> QED
    BY <1>1, <1>2, <2>1 DEF InFlight
<1>5. /\ Flight(d) # <<>> /\ Head(Flight(d)) = Head(out[d])
      /\ Flight(d)' = Tail(Flight(d))
  BY <1>1, <1>2, <1>4 DEF Flight
<1>6. UNCHANGED Alive
  BY <1>1 DEF Alive
<1> QED
  BY <1>1, <1>2, <1>3, <1>5, <1>6, ReceivesFromPipe

(* The lines in flight are the same before and after the thread reads or   *)
(* writes one.                                                             *)
LEMMA ReadMovesWithin ==
    ASSUME TypeOK, NEW d \in Directions, ReadLine(d) PROVE Pipe!Next
<1>1. /\ inn[d] # <<>> /\ inn'[d] = Tail(inn[d]) /\ held[d] = None
      /\ held'[d] = [dir |-> d, payload |-> Head(inn[d]), at |-> clock]
      /\ \A e \in Directions : e # d => inn'[e] = inn[e] /\ held'[e] = held[e]
      /\ Running /\ pc[d] = "read" /\ pc'[d] = "send"
      /\ \A e \in Directions : e # d => pc'[e] = pc[e]
      /\ UNCHANGED <<peerVars, out>>
  BY DEF ReadLine, Goto, TypeOK
<1>2. held'[d] # None /\ held'[d].payload = Head(inn[d])
  <2>1. Head(inn[d]) \in Payloads
    BY <1>1, HeadTailProperties DEF TypeOK
  <2> QED
    BY <1>1, <2>1, NoFrameAssumption DEF Frame, TypeOK
<1>3. Carried(d) = <<>> /\ Carried(d)' = <<Head(inn[d])>>
  BY <1>1, <1>2 DEF Carried
<1>4. (out[d] \o <<>>) \o inn[d] = (out[d] \o <<Head(inn[d])>>) \o Tail(inn[d])
  BY <1>1, SegmentTypes, TakeFromPipe
<1>5. \A e \in Directions : InFlight(e)' = InFlight(e)
  BY <1>1, <1>3, <1>4 DEF InFlight, Carried
<1>6. /\ \A e \in Directions : Broken(e)' = Broken(e)
      /\ UNCHANGED Alive
  BY <1>1 DEF Broken, Running, Alive, Directions
<1> QED
  BY <1>1, <1>5, <1>6, MovesWithin

LEMMA WriteMovesWithin ==
    ASSUME TypeOK, NEW d \in Directions, WriteLine(d) PROVE Pipe!Next
<1>1. /\ held[d] # None /\ held[d] \in Frame /\ held'[d] = None
      /\ out'[d] = Append(out[d], held[d].payload)
      /\ \A e \in Directions : e # d => out'[e] = out[e] /\ held'[e] = held[e]
      /\ Running /\ pc[d] = "write" /\ pc'[d] = "read"
      /\ \A e \in Directions : e # d => pc'[e] = pc[e]
      /\ UNCHANGED <<peerVars, inn>>
  BY DEF WriteLine, Goto, TypeOK
<1>2. held[d].payload \in Payloads
  BY <1>1 DEF Frame
<1>3. Carried(d) = <<held[d].payload>> /\ Carried(d)' = <<>>
  BY <1>1 DEF Carried
<1>4. (out[d] \o <<held[d].payload>>) \o inn[d]
        = (Append(out[d], held[d].payload) \o <<>>) \o inn[d]
  BY <1>2, SegmentTypes, PutIntoPipe
<1>5. \A e \in Directions : InFlight(e)' = InFlight(e)
  BY <1>1, <1>3, <1>4 DEF InFlight, Carried
<1>6. /\ \A e \in Directions : Broken(e)' = Broken(e)
      /\ \A e \in Directions : Broken(e) => out'[e] = out[e]
      /\ UNCHANGED Alive
  BY <1>1 DEF Broken, Running, Alive, Directions
<1> QED
  BY <1>1, <1>5, <1>6, MovesWithin

(* Relaying ends: a failed write takes the lines of its direction with it, *)
(* a failed write to the client and a kill those of both.                  *)
LEMMA FlightIsAhead ==
    ASSUME TypeOK, NEW d \in Directions
    PROVE  /\ IsPrefix(out[d], InFlight(d)) /\ IsPrefix(out[d], Flight(d))
           /\ IsPrefix(out[d], out[d]) /\ IsPrefix(InFlight(d), InFlight(d))
<1>1. PICK o \in Seq(Payloads), c \in Seq(Payloads), i \in Seq(Payloads) :
         o = out[d] /\ c = Carried(d) /\ i = inn[d]
  BY SegmentTypes
<1>2. /\ (o \o c) \o i = o \o (c \o i) /\ c \o i \in Seq(Payloads)
      /\ (o \o c) \o i \in Seq(Payloads)
  OBVIOUS
<1>3. IsPrefix(o, (o \o c) \o i)
  BY <1>2, PrefixOfConcat
<1>4. \A s \in Seq(Payloads) : IsPrefix(s, s)
  BY DEF IsPrefix
<1> QED
  BY <1>1, <1>2, <1>3, <1>4 DEF InFlight, Flight

LEMMA EndIsBreak ==
    ASSUME TypeOK, UNCHANGED <<log, got, srcOpen, sinkOpen, out, inn>>,
           Alive' => Alive,
           \A d \in Directions :
              /\ Broken(d) => Broken(d)'
              /\ Broken(d)' \/ UNCHANGED held[d]
              /\ Broken(d)' =>
                   \/ Broken(d) \/ out[d] = InFlight(d)
                   \/ ~Alive' \/ ~sinkOpen[d] \/ ~sinkOpen["s2c"]
    PROVE  Pipe!Next
<1>1. ASSUME NEW d \in Directions
      PROVE  /\ IsPrefix(Flight(d)', Flight(d))
             /\ Flight(d)' # Flight(d) =>
                  Broken(d)' /\ (~Alive' \/ ~sinkOpen[d] \/ ~sinkOpen["s2c"])
  <2>1. CASE Broken(d)'
    <3>1. Flight(d)' = out[d]
      BY <2>1 DEF Flight
    <3>2. Flight(d) = out[d] \/ ~Alive' \/ ~sinkOpen[d] \/ ~sinkOpen["s2c"]
      BY <2>1 DEF Flight
    <3> QED
      BY <2>1, <3>1, <3>2, FlightIsAhead
  <2>2. CASE ~Broken(d)'
    <3>1. Flight(d)' = InFlight(d) /\ Flight(d) = InFlight(d)
      BY <2>2 DEF Flight, InFlight, Carried
    <3> QED
      BY <3>1, FlightIsAhead
  <2> QED
    BY <2>1, <2>2
<1> QED
  BY <1>1, BreaksPipes

LEMMA WriteErrorIsBreak ==
    ASSUME TypeOK, NEW d \in Directions, WriteError(d) PROVE Pipe!Next
<1>1. /\ UNCHANGED <<log, got, srcOpen, sinkOpen, out, inn>> /\ Running
      /\ ~sinkOpen[d] /\ pc[d] = "write"
      /\ pc'[d] = IF d = "c2s" THEN "failed" ELSE "aborted"
      /\ \A e \in Directions : e # d => pc'[e] = pc[e] /\ held'[e] = held[e]
  BY DEF WriteError, Goto, TypeOK, peerVars
<1>2. Alive /\ Alive'
  BY <1>1 DEF Alive, Running, Directions
<1>3. CASE d = "c2s"
  <2>1. Broken(d)' /\ \A e \in Directions : e # d => Broken(e)' = Broken(e)
    BY <1>1, <1>3 DEF Broken, Running, Directions
  <2> QED
    BY <1>1, <1>2, <2>1, EndIsBreak
<1>4. CASE d = "s2c"
  <2>1. \A e \in Directions : Broken(e)'
    BY <1>1, <1>4 DEF Broken, Running
  <2> QED
    BY <1>1, <1>2, <1>4, <2>1, EndIsBreak
<1> QED
  BY <1>3, <1>4 DEF Directions

LEMMA KillIsBreak ==
    ASSUME TypeOK, Kill PROVE Pipe!Next
<1>1. /\ UNCHANGED <<log, got, srcOpen, sinkOpen, out, inn, held>>
      /\ pc'["s2c"] = "killed"
  BY DEF Kill, Goto, TypeOK, peerVars, Directions
<1>2. ~Alive' /\ \A e \in Directions : Broken(e)'
  BY <1>1 DEF Alive, Broken, Running
<1> QED
  BY <1>1, <1>2, EndIsBreak

(* At the normal exit nothing of the child is left in flight, and what the *)
(* child has not read is lost because it has exited.                       *)
LEMMA ExitIsBreak ==
    ASSUME TypeOK, EofOK, JoinObserver PROVE Pipe!Next
<1>1. /\ UNCHANGED <<log, got, srcOpen, sinkOpen, out, inn, held>>
      /\ pc["s2c"] = "join" /\ pc'["s2c"] = "exited"
  BY DEF JoinObserver, Goto, TypeOK, peerVars, Directions
<1>2. Alive /\ Alive' /\ \A e \in Directions : Broken(e)'
  BY <1>1 DEF Alive, Broken, Running
<1>3. ~sinkOpen["c2s"] /\ inn["s2c"] = <<>> /\ held["s2c"] = None
  BY <1>1 DEF EofOK, AfterEof, AfterWait
<1>4. InFlight("s2c") = out["s2c"]
  <2>1. out["s2c"] \in Seq(Payloads)
    BY DEF TypeOK, Directions
  <2>2. (out["s2c"] \o <<>>) \o <<>> = out["s2c"]
    BY <2>1
  <2> QED
    BY <1>3, <2>2 DEF InFlight, Carried
<1> QED
  BY <1>1, <1>2, <1>3, <1>4, EndIsBreak DEF Directions

(* The steps that move no line.                                            *)
LEMMA QuietIsHangUp ==
    ASSUME TypeOK, TypeOK', UNCHANGED <<log, got, inn, out, held>>,
           \A e \in Directions : /\ srcOpen'[e] => srcOpen[e]
                                 /\ sinkOpen'[e] => sinkOpen[e],
           pc'["c2s"] = "failed" <=> pc["c2s"] = "failed",
           pc'["s2c"] = pc["s2c"]
             \/ {pc["s2c"], pc'["s2c"]} \cap {"exited", "aborted", "killed"} = {}
    PROVE  Pipe!Next
<1>1. pc["s2c"] # "failed" /\ pc'["s2c"] # "failed"
  BY DEF TypeOK
<1>2. /\ \A e \in Directions : Broken(e)' = Broken(e)
      /\ UNCHANGED Alive
  BY <1>1 DEF Broken, Running, Alive, Directions
<1>3. \A e \in Directions : Flight(e)' = Flight(e)
  BY <1>2 DEF Flight, InFlight, Carried
<1> QED
  BY <1>2, <1>3, LeavesPipes

LEMMA StepIsPipeStep ==
    ASSUME TypeOK, TypeOK', EofOK, [Next]_vars
    PROVE  Pipe!Next \/ UNCHANGED Pipe!pipeVars
<1> USE DEF TypeOK, Directions
<1>1. ASSUME NEW e \in Directions, CloseSource(e) \/ CloseSink(e) PROVE Pipe!Next
  BY <1>1, QuietIsHangUp DEF CloseSource, CloseSink, relayVars
<1>2. ASSUME ChildExit PROVE Pipe!Next
  BY <1>2, QuietIsHangUp DEF ChildExit, relayVars
<1>3. ASSUME NEW e \in Directions, ReadEof(e) \/ SendFrame(e) PROVE Pipe!Next
  <2>1. /\ UNCHANGED <<log, got, srcOpen, sinkOpen, inn, out, held>>
        /\ Running /\ pc[e] \in {"read", "send"}
        /\ \E l \in {"done", "wait", "write"} : Goto(e, l)
    <3>1. CASE ReadEof(e)
      BY <3>1 DEF ReadEof, peerVars
    <3>2. CASE SendFrame(e)
      BY <3>2 DEF SendFrame, peerVars
    <3> QED
      BY <1>3, <3>1, <3>2
  <2> QED
    BY <2>1, QuietIsHangUp DEF Goto, Running
<1>4. ASSUME WaitChild \/ ReapClient \/ SendShutdown \/ RecvAck PROVE Pipe!Next
  <2>1. /\ UNCHANGED <<log, got, srcOpen, sinkOpen, inn, out, held>>
        /\ pc["s2c"] \in {"wait", "reap", "shutdown", "ack"}
        /\ \E l \in {"reap", "shutdown", "ack", "join"} : Goto("s2c", l)
    <3>1. CASE WaitChild \/ ReapClient \/ RecvAck
      BY <3>1 DEF WaitChild, ReapClient, RecvAck, peerVars
    <3>2. CASE SendShutdown
      BY <3>2 DEF SendShutdown, peerVars
    <3> QED
      BY <1>4, <3>1, <3>2
  <2> QED
    BY <2>1, QuietIsHangUp DEF Goto
<1>5. ASSUME Observe PROVE Pipe!Next
  BY <1>5, QuietIsHangUp
     DEF Observe, ObserveFrame, ObserveShutdown, ObserverPanic, peerVars, relayVars
<1>6. ASSUME UNCHANGED vars PROVE Pipe!Next
  BY <1>6, QuietIsHangUp DEF vars, peerVars, relayVars
<1>7. ASSUME NEW e \in Directions, Relay(e) PROVE Pipe!Next
  BY <1>3, <1>7, ReadMovesWithin, WriteMovesWithin, WriteErrorIsBreak DEF Relay
<1>8. ASSUME WindDown \/ Kill PROVE Pipe!Next
  BY <1>4, <1>8, ExitIsBreak, KillIsBreak DEF WindDown
<1>9. ASSUME Peers PROVE Pipe!Next
  BY <1>1, <1>2, <1>9, EmitIsSend, ConsumeIsRecv DEF Peers
<1> QED
  BY <1>5, <1>6, <1>7, <1>8, <1>9 DEF Next, ClientThread, MainThread, Over

(* Whatever the faults, the proxy implements the pair of pipes of Relay:   *)
(* every step of its threads, of the observer and of the peers is a step   *)
(* that the pipes may take.                                                *)
THEOREM ProxyImplementsPipes == Spec => ImplementsPipes
<1>1. Init => Pipe!Init /\ EofOK
  <2> SUFFICES ASSUME Init PROVE Pipe!Init /\ EofOK
    OBVIOUS
  <2>1. \A d \in Directions : Broken(d) = FALSE /\ InFlight(d) = <<>>
    BY DEF Init, Broken, Running, InFlight, Carried, Directions
  <2>2. /\ [d \in Directions |-> IF Broken(d) THEN out[d] ELSE InFlight(d)]
              = [d \in Directions |-> <<>>]
        /\ [d \in Directions |-> Broken(d)] = [d \in Directions |-> FALSE]
    BY <2>1
  <2>3. Pipe!Init
    BY <2>2 DEF Init, Pipe!Init, Pipe!Ways, Directions
  <2>4. EofOK
    BY DEF Init, EofOK, AfterEof, AfterWait, Directions
  <2> QED
    BY <2>3, <2>4
<1>2. TypeOK /\ EofOK /\ [Next]_vars => EofOK'
  BY StepKeepsEof
<1>3. TypeOK /\ TypeOK' /\ EofOK /\ [Next]_vars => [Pipe!Next]_(Pipe!pipeVars)
  BY StepIsPipeStep
<1> QED
  BY <1>1, <1>2, <1>3, TypeCorrect, PTL DEF Spec, ImplementsPipes, Pipe!Spec

-----------------------------------------------------------------------------
(***************************************************************************)
(* The observer's side: the trace matches the traffic at every moment, and *)
(* misses nothing once the proxy has exited.                               *)
(***************************************************************************)
(* PayloadsOf is a fold; what SequenceLemmas proves of folds holds of it.  *)
Folds == INSTANCE SequenceLemmas WITH op <- AddPayload

(* The elements of a channel or trace: those of a direction carry a line.  *)
Lines(S) == \A f \in S : f.dir \in Directions => f.payload \in Payloads

LEMMA PayloadsFold ==
    \A d, s : PayloadsOf(d, s) = Folds!Fold(d, <<>>, s)
  BY DEF PayloadsOf, Folds!Fold, FoldLeft, Folds!FoldLeft, MapThenFoldSet,
     Folds!MapThenFoldSet, Max, Folds!Max

LEMMA PayloadsEmpty ==
    \A d : PayloadsOf(d, <<>>) = <<>>
  BY PayloadsFold, Folds!FoldEmpty

LEMMA PayloadsAppend ==
    ASSUME NEW d, NEW S, NEW s \in Seq(S), NEW e \in S
    PROVE  PayloadsOf(d, Append(s, e)) = AddPayload(d, PayloadsOf(d, s), e)
  BY PayloadsFold, Folds!FoldAppend

LEMMA PayloadsType ==
    ASSUME NEW d \in Directions, NEW S, Lines(S)
    PROVE  \A s \in Seq(S) : PayloadsOf(d, s) \in Seq(Payloads)
<1>1. <<>> \in Seq(Payloads)
  OBVIOUS
<1>2. \A a \in Seq(Payloads), e \in S : AddPayload(d, a, e) \in Seq(Payloads)
  BY DEF Lines, AddPayload
<1>3. \A s \in Seq(S) : Folds!Fold(d, <<>>, s) \in Seq(Payloads)
  BY <1>1, <1>2, Folds!FoldType
<1> QED
  BY <1>3, PayloadsFold

LEMMA PayloadsConcat ==
    ASSUME NEW d \in Directions, NEW S, Lines(S), NEW s \in Seq(S), NEW t \in Seq(S)
    PROVE  PayloadsOf(d, s \o t) = PayloadsOf(d, s) \o PayloadsOf(d, t)
<1>1. PICK x \in Seq(Payloads) : x = PayloadsOf(d, s)
  BY PayloadsType
<1> DEFINE R == {<<x \o a, a>> : a \in Seq(Payloads)}
<1>2. ASSUME NEW r \in R, NEW e \in S
      PROVE  <<AddPayload(d, r[1], e), AddPayload(d, r[2], e)>> \in R
  <2>1. PICK a \in Seq(Payloads) : r = <<x \o a, a>>
    OBVIOUS
  <2> HIDE DEF R
  <2>2. CASE e.dir = d
    <3>1. e.payload \in Payloads
      BY <2>2 DEF Lines
    <3>2. /\ AddPayload(d, r[1], e) = Append(x \o a, e.payload)
          /\ AddPayload(d, r[2], e) = Append(a, e.payload)
      BY <2>1, <2>2 DEF AddPayload
    <3>3. PICK l \in Payloads : l = e.payload
      BY <3>1
    <3>4. x \o Append(a, l) = Append(x \o a, l)
      OBVIOUS
    <3>5. Append(a, l) \in Seq(Payloads)
      BY AppendProperties
    <3> QED
      BY <3>2, <3>3, <3>4, <3>5 DEF R
  <2>3. CASE e.dir # d
    BY <2>1, <2>3 DEF AddPayload, R
  <2> QED
    BY <2>2, <2>3
<1>3. Folds!Fold(d, x, t) = x \o Folds!Fold(d, <<>>, t)
  <2>1. <<x, <<>>>> \in R
    <3>1. <<>> \in Seq(Payloads) /\ x \o <<>> = x
      BY ConcatEmptySeq
    <3> QED
      BY <3>1
  <2> HIDE DEF R
  <2>2. <<Folds!Fold(d, x, t), Folds!Fold(d, <<>>, t)>> \in R
    BY <1>2, <2>1, Folds!FoldRelated
  <2> QED
    BY <2>2 DEF R
<1>4. Folds!Fold(d, <<>>, s \o t) = Folds!Fold(d, Folds!Fold(d, <<>>, s), t)
  BY Folds!FoldConcat
<1> QED
  BY <1>1, <1>3, <1>4, PayloadsFold

LEMMA PayloadsOne ==
    ASSUME NEW d, NEW S, NEW e \in S
    PROVE  PayloadsOf(d, <<e>>) = AddPayload(d, <<>>, e)
<1>1. PICK z \in Seq(S) : z = <<>>
  BY EmptySeq
<1>2. PayloadsOf(d, Append(z, e)) = AddPayload(d, PayloadsOf(d, z), e)
  BY PayloadsAppend
<1>3. Append(z, e) = <<e>> /\ PayloadsOf(d, z) = <<>>
  BY <1>1, PayloadsEmpty
<1> QED
  BY <1>1, <1>2, <1>3

(* The first element of the channel goes to the end of the trace.          *)
LEMMA PayloadsMoved ==
    ASSUME NEW d \in Directions, NEW S, Lines(S), NEW s \in Seq(S), NEW t \in Seq(S),
           t # <<>>, NEW e \in S, e.dir = Head(t).dir, e.payload = Head(t).payload
    PROVE  PayloadsOf(d, Append(s, e)) \o PayloadsOf(d, Tail(t))
              = PayloadsOf(d, s) \o PayloadsOf(d, t)
<1>1. PICK h \in Seq(S), r \in Seq(S) :
         /\ Head(t) \in S /\ h = <<Head(t)>> /\ r = Tail(t) /\ t = h \o r
  BY HeadTailCat DEF Cat
<1>2. PICK z \in S : z = Head(t)
  BY <1>1
<1>3. PayloadsOf(d, h) = AddPayload(d, <<>>, z)
  BY <1>1, <1>2, PayloadsOne
<1>4. PICK ps \in Seq(Payloads), pr \in Seq(Payloads), ph \in Seq(Payloads) :
         ps = PayloadsOf(d, s) /\ pr = PayloadsOf(d, r) /\ ph = PayloadsOf(d, h)
  BY PayloadsType
<1>5. PayloadsOf(d, t) = ph \o pr
  BY <1>1, <1>4, PayloadsConcat
<1>6. PayloadsOf(d, Append(s, e)) = AddPayload(d, ps, e)
  BY <1>4, PayloadsAppend
<1>7. AddPayload(d, ps, e) = ps \o ph
  <2>1. CASE e.dir = d
    <3>1. e.payload \in Payloads
      BY <2>1 DEF Lines
    <3>2. ph = <<e.payload>> /\ AddPayload(d, ps, e) = Append(ps, e.payload)
      BY <1>2, <1>3, <1>4, <2>1 DEF AddPayload
    <3> QED
      BY <3>1, <3>2, AppendIsConcat
  <2>2. CASE e.dir # d
    <3>1. ph = <<>> /\ AddPayload(d, ps, e) = ps
      BY <1>2, <1>3, <1>4, <2>2 DEF AddPayload
    <3> QED
      BY <3>1, ConcatEmptySeq
  <2> QED
    BY <2>1, <2>2
<1>8. (ps \o ph) \o pr = ps \o (ph \o pr)
  <2>1. Cat(Cat(ps, ph), pr) = Cat(ps, Cat(ph, pr))
    BY <1>4, CatAssociative
  <2> QED
    BY <2>1 DEF Cat
<1> QED
  BY <1>1, <1>4, <1>5, <1>6, <1>7, <1>8

(* The event of a frame is about that frame.                               *)
LEMMA EventOfFrame ==
    ASSUME NEW p, NEW d, NEW m, NEW t
    PROVE  LET e == ObservePayloadAt(p, d, m, t).event
           IN  e.dir = d /\ e.payload = p
  BY DEF ObservePayloadAt

-----------------------------------------------------------------------------
(* ObservedExactly for one direction.  Until a write fails, the lines in   *)
(* the trace and in the channel are the lines forwarded, and from the send *)
(* to the end of the write the line in the hands of the thread as well;    *)
(* afterwards they are the first lines of the log.                         *)
Messages == Frame \cup {Shutdown}

TraceTyped == \E S : trace \in Seq(S) /\ Lines(S)

Measured(d) == PayloadsOf(d, trace) \o PayloadsOf(d, chan)

HasEnded(d) == pc[d] \in {"failed", "aborted", "killed"}

MeasuredOK(d) ==
    obs = "up" =>
      /\ ~HasEnded(d) /\ pc[d] # "write" => Measured(d) = Forwarded(d)
      /\ pc[d] = "write" => Measured(d) = Forwarded(d) \o Carried(d)
      /\ HasEnded(d) => /\ IsPrefix(Forwarded(d), Measured(d))
                     /\ IsPrefix(Measured(d), log[d])

LEMMA MessagesAreLines == Lines(Messages)
  BY DEF Lines, Messages, Frame, Shutdown, Directions

LEMMA ObservedTypes ==
    ASSUME TypeOK, TraceTyped, NEW d \in Directions
    PROVE  /\ PayloadsOf(d, trace) \in Seq(Payloads)
           /\ PayloadsOf(d, chan) \in Seq(Payloads)
           /\ Measured(d) \in Seq(Payloads)
           /\ Forwarded(d) \in Seq(Payloads)
<1>1. PayloadsOf(d, trace) \in Seq(Payloads)
  BY PayloadsType DEF TraceTyped
<1>2. PayloadsOf(d, chan) \in Seq(Payloads)
  BY PayloadsType, MessagesAreLines DEF TypeOK, Messages
<1> QED
  BY <1>1, <1>2, SegmentTypes, CatClosed DEF Measured, Forwarded, Cat

(* The trace stays a sequence of events that carry lines.                  *)
LEMMA TraceStaysTyped ==
    ASSUME TypeOK, TraceTyped, [Next]_vars
    PROVE  TraceTyped'
<1>1. PICK S : trace \in Seq(S) /\ Lines(S)
  BY DEF TraceTyped
<1>2. CASE UNCHANGED trace
  BY <1>1, <1>2 DEF TraceTyped, Lines
<1>3. CASE ObserveFrame
  <2>1. PICK f \in Frame : f = Head(chan)
    BY <1>3, HeadTailProperties DEF ObserveFrame, TypeOK
  <2>2. PICK e : e.dir = f.dir /\ e.payload = f.payload
                 /\ (trace' = Append(trace, e) \/ trace' = trace)
    BY <1>3, <2>1, EventOfFrame DEF ObserveFrame
  <2>3. CASE trace' = trace
    BY <1>2, <2>3
  <2>4. CASE trace' = Append(trace, e)
    <3>1. trace \in Seq(S \cup {e})
      BY <1>1, SeqMonotonic
    <3>2. trace' \in Seq(S \cup {e})
      BY <2>4, <3>1, AppendProperties
    <3>3. Lines(S \cup {e})
      BY <1>1, <2>1, <2>2 DEF Lines, Frame
    <3> QED
      BY <3>2, <3>3 DEF TraceTyped, Lines
  <2> QED
    BY <2>2, <2>3, <2>4
<1> QED
  BY <1>2, <1>3 DEF Next, ClientThread, MainThread, Relay, WindDown, Observe,
     Peers, Over, ReadLine, ReadEof, SendFrame, WriteLine, WriteError,
     WaitChild, ReapClient, SendShutdown, RecvAck, JoinObserver,
     ObserveShutdown, ObserverPanic, Emit, Consume, CloseSource, CloseSink,
     ChildExit, Kill, vars, obsVars

(* A step that touches neither the lines of the direction nor what is      *)
(* measured of them, and leaves its thread in the same phase.              *)
LEMMA MeasuredQuiet ==
    ASSUME NEW d \in Directions, MeasuredOK(d),
           obs' = "up" => obs = "up" /\ Measured(d)' = Measured(d),
           UNCHANGED <<log[d], got[d], out[d], held[d]>>,
           pc'[d] = "write" <=> pc[d] = "write",
           HasEnded(d)' <=> HasEnded(d)
    PROVE  MeasuredOK(d)'
  BY DEF MeasuredOK, Forwarded, Carried

LEMMA EmitKeepsMeasured ==
    ASSUME TypeOK, TraceTyped, NEW d \in Directions, MeasuredOK(d),
           NEW p \in Payloads, Emit(d, p)
    PROVE  MeasuredOK(d)'
<1>1. /\ log'[d] = Append(log[d], p) /\ log[d] \in Seq(Payloads)
      /\ UNCHANGED <<got, out, held, pc, obs, trace, chan>>
  BY DEF Emit, TypeOK, obsVars
<1>2. /\ Measured(d)' = Measured(d) /\ Forwarded(d)' = Forwarded(d)
      /\ Carried(d)' = Carried(d) /\ HasEnded(d)' = HasEnded(d)
  BY <1>1 DEF Measured, Forwarded, Carried, HasEnded
<1>3. IsPrefix(Measured(d), log[d]) => IsPrefix(Measured(d), log'[d])
  BY <1>1, ObservedTypes, PrefixOfAppend
<1> QED
  BY <1>1, <1>2, <1>3 DEF MeasuredOK

LEMMA ConsumeKeepsMeasured ==
    ASSUME TypeOK, TraceTyped, NEW d \in Directions, MeasuredOK(d), Consume(d)
    PROVE  MeasuredOK(d)'
<1>1. /\ out[d] # <<>> /\ got'[d] = Append(got[d], Head(out[d]))
      /\ out'[d] = Tail(out[d])
      /\ UNCHANGED <<log, held, pc, obs, trace, chan>>
  BY DEF Consume, TypeOK, obsVars
<1>2. PICK g \in Seq(Payloads), h \in Seq(Payloads), t \in Seq(Payloads) :
         /\ g = got[d] /\ h = <<Head(out[d])>> /\ t = Tail(out[d])
         /\ out[d] = h \o t
  <2>1. /\ <<Head(out[d])>> \in Seq(Payloads) /\ Tail(out[d]) \in Seq(Payloads)
        /\ out[d] = Cat(<<Head(out[d])>>, Tail(out[d]))
    BY <1>1, SegmentTypes, HeadTailCat
  <2> QED
    BY <2>1, SegmentTypes DEF Cat
<1>3. got'[d] = g \o h
  BY <1>1, <1>2, SegmentTypes, HeadTailCat, AppendIsConcat
<1>4. (g \o h) \o t = g \o (h \o t)
  BY ConcatAssociative
<1>5. Forwarded(d)' = Forwarded(d)
  BY <1>1, <1>2, <1>3, <1>4 DEF Forwarded
<1>6. /\ Measured(d)' = Measured(d) /\ Carried(d)' = Carried(d)
      /\ HasEnded(d)' = HasEnded(d)
  BY <1>1 DEF Measured, Carried, HasEnded
<1> QED
  BY <1>1, <1>5, <1>6 DEF MeasuredOK

(* The frame is sent before the line is written: the channel is one line   *)
(* ahead.                                                                  *)
LEMMA SendKeepsMeasured ==
    ASSUME TypeOK, TraceTyped, NEW d \in Directions, MeasuredOK(d), SendFrame(d)
    PROVE  MeasuredOK(d)'
<1>1. /\ pc[d] = "send" /\ pc'[d] = "write"
      /\ UNCHANGED <<log, got, out, held, obs, trace>>
      /\ obs = "up" => chan' = Append(chan, held[d])
  BY DEF SendFrame, Goto, TypeOK, peerVars, obsVars
<1>2. held[d] \in Frame /\ held[d] # None /\ held[d].dir = d
  BY <1>1 DEF TypeOK
<1>3. PICK f \in Messages, l \in Payloads : f = held[d] /\ l = held[d].payload /\ f.dir = d
  BY <1>2 DEF Frame, Messages
<1>4. Forwarded(d)' = Forwarded(d) /\ Carried(d)' = <<l>>
  BY <1>1, <1>2, <1>3 DEF Forwarded, Carried
<1>5. ASSUME obs = "up" PROVE Measured(d)' = Forwarded(d) \o <<l>>
  <2>1. chan \in Seq(Messages) /\ chan' = Append(chan, f)
    BY <1>1, <1>3, <1>5 DEF TypeOK, Messages
  <2>2. PayloadsOf(d, chan') = AddPayload(d, PayloadsOf(d, chan), f)
    BY <2>1, PayloadsAppend
  <2>3. PayloadsOf(d, chan') = Append(PayloadsOf(d, chan), l)
    BY <1>3, <2>2 DEF AddPayload
  <2>4. PICK x \in Seq(Payloads), y \in Seq(Payloads) :
           x = PayloadsOf(d, trace) /\ y = PayloadsOf(d, chan)
    BY ObservedTypes
  <2>5. x \o Append(y, l) = Append(x \o y, l) /\ x \o y \in Seq(Payloads)
    OBVIOUS
  <2>6. Append(x \o y, l) = (x \o y) \o <<l>>
    BY <2>5, AppendIsConcat
  <2>7. Forwarded(d) = x \o y
    BY <1>1, <1>5, <2>4 DEF MeasuredOK, Measured, HasEnded
  <2> QED
    BY <1>1, <2>3, <2>4, <2>5, <2>6, <2>7 DEF Measured
<1> QED
  BY <1>1, <1>4, <1>5 DEF MeasuredOK, HasEnded

LEMMA WriteKeepsMeasured ==
    ASSUME TypeOK, TraceTyped, NEW d \in Directions, MeasuredOK(d), WriteLine(d)
    PROVE  MeasuredOK(d)'
<1>1. /\ pc[d] = "write" /\ pc'[d] = "read"
      /\ held[d] \in Frame /\ held[d] # None
      /\ out'[d] = Append(out[d], held[d].payload)
      /\ UNCHANGED <<log, got, obs, trace, chan>>
  BY DEF WriteLine, Goto, TypeOK, peerVars, obsVars
<1>2. PICK l \in Payloads : l = held[d].payload
  BY <1>1 DEF Frame
<1>3. PICK g \in Seq(Payloads), o \in Seq(Payloads) : g = got[d] /\ o = out[d]
  BY SegmentTypes
<1>4. g \o Append(o, l) = Append(g \o o, l) /\ g \o o \in Seq(Payloads)
  OBVIOUS
<1>5. Append(g \o o, l) = (g \o o) \o <<l>>
  BY <1>4, AppendIsConcat
<1>6. Forwarded(d)' = Forwarded(d) \o Carried(d)
  BY <1>1, <1>2, <1>3, <1>4, <1>5 DEF Forwarded, Carried
<1>7. Measured(d)' = Measured(d)
  BY <1>1 DEF Measured
<1> QED
  BY <1>1, <1>6, <1>7 DEF MeasuredOK, HasEnded

(* When a direction ends, what is measured of it is a prefix of its log:   *)
(* the lines forwarded, and the one in hand if it was sent.                *)
LEMMA EndKeepsMeasured ==
    ASSUME TypeOK, TraceTyped, NEW d \in Directions, MeasuredOK(d),
           DirectionOK(d), ~HasEnded(d), HasEnded(d)',
           UNCHANGED <<log, got, out, obs, trace, chan>>
    PROVE  MeasuredOK(d)'
<1>1. PICK g \in Seq(Payloads), o \in Seq(Payloads), c \in Seq(Payloads),
           i \in Seq(Payloads) :
         g = got[d] /\ o = out[d] /\ c = Carried(d) /\ i = inn[d]
  BY SegmentTypes
<1>2. log[d] = Cat(g, Cat(Cat(o, c), i))
  BY <1>1 DEF DirectionOK, HasEnded, InFlight, Cat
<1>3. /\ log[d] = Cat(Cat(g, o), Cat(c, i))
      /\ log[d] = Cat(Cat(Cat(g, o), c), i)
  BY <1>2, CatAssociative, CatClosed
<1>4. /\ Cat(g, o) \in Seq(Payloads) /\ Cat(c, i) \in Seq(Payloads)
      /\ Cat(Cat(g, o), c) \in Seq(Payloads)
  BY CatClosed
<1>5. /\ IsPrefix(Cat(g, o), log[d]) /\ IsPrefix(Cat(Cat(g, o), c), log[d])
      /\ IsPrefix(Cat(g, o), Cat(g, o)) /\ IsPrefix(Cat(g, o), Cat(Cat(g, o), c))
  <2>1. PICK x \in Seq(Payloads), y \in Seq(Payloads), z \in Seq(Payloads) :
           x = Cat(g, o) /\ y = Cat(c, i) /\ z = Cat(Cat(g, o), c)
    BY <1>4
  <2>2. IsPrefix(x, x \o y) /\ IsPrefix(z, z \o i) /\ IsPrefix(x, x \o c)
    BY PrefixOfConcat
  <2>3. IsPrefix(x, x)
    BY DEF IsPrefix
  <2> QED
    BY <1>3, <2>1, <2>2, <2>3 DEF Cat
<1>6. obs = "up" => Measured(d) \in {Cat(g, o), Cat(Cat(g, o), c)}
  BY <1>1 DEF MeasuredOK, Forwarded, Cat
<1>7. /\ Measured(d)' = Measured(d) /\ Forwarded(d)' = Forwarded(d)
      /\ Forwarded(d) = Cat(g, o)
  BY <1>1 DEF Measured, Forwarded, Cat
<1> QED
  BY <1>5, <1>6, <1>7 DEF MeasuredOK, HasEnded

LEMMA GotoEffect ==
    ASSUME TypeOK, NEW d \in Directions, NEW l, Goto(d, l)
    PROVE  pc'[d] = l /\ \A e \in Directions : e # d => pc'[e] = pc[e]
  BY DEF TypeOK, Goto

(* Every step, seen from one direction, as long as no trace write fails.   *)
LEMMA StepKeepsMeasured ==
    ASSUME "write" \notin Faults, TypeOK, TraceTyped, [Next]_vars,
           NEW d \in Directions, DirectionOK(d), MeasuredOK(d)
    PROVE  MeasuredOK(d)'
<1>1. ASSUME NEW e \in Directions, NEW p \in Payloads, Emit(e, p)
      PROVE  MeasuredOK(d)'
  <2>1. CASE e = d
    BY <1>1, <2>1, EmitKeepsMeasured
  <2>2. CASE e # d
    BY <1>1, <2>2, MeasuredQuiet DEF Emit, obsVars, Measured, HasEnded, TypeOK
  <2> QED
    BY <2>1, <2>2
<1>2. ASSUME NEW e \in Directions, Consume(e) PROVE MeasuredOK(d)'
  <2>1. CASE e = d
    BY <1>2, <2>1, ConsumeKeepsMeasured
  <2>2. CASE e # d
    BY <1>2, <2>2, MeasuredQuiet DEF Consume, obsVars, Measured, HasEnded, TypeOK
  <2> QED
    BY <2>1, <2>2
<1>3. ASSUME ChildExit \/ \E e \in Directions : CloseSource(e) \/ CloseSink(e)
      PROVE  MeasuredOK(d)'
  <2>1. UNCHANGED <<log, got, out, held, pc, obs, trace, chan>>
    BY <1>3 DEF ChildExit, CloseSource, CloseSink, relayVars, obsVars
  <2> QED
    BY <2>1, MeasuredQuiet DEF Measured, HasEnded
<1>4. ASSUME NEW e \in Directions, ReadLine(e) PROVE MeasuredOK(d)'
  <2>1. /\ UNCHANGED <<log, got, out, obs, trace, chan>>
        /\ pc[e] = "read" /\ pc'[e] = "send"
        /\ e # d => pc'[d] = pc[d] /\ held'[d] = held[d]
    BY <1>4 DEF ReadLine, Goto, TypeOK, peerVars, obsVars
  <2>2. Measured(d)' = Measured(d) /\ Forwarded(d)' = Forwarded(d)
    BY <2>1 DEF Measured, Forwarded
  <2>3. CASE e = d
    BY <2>1, <2>2, <2>3 DEF MeasuredOK, HasEnded
  <2>4. CASE e # d
    BY <2>1, <2>2, <2>4, MeasuredQuiet DEF HasEnded
  <2> QED
    BY <2>3, <2>4
<1>5. ASSUME NEW e \in Directions, ReadEof(e) PROVE MeasuredOK(d)'
  <2>1. /\ UNCHANGED <<log, got, out, held, obs, trace, chan>> /\ pc[e] = "read"
        /\ Goto(e, "done") \/ Goto(e, "wait")
    BY <1>5 DEF ReadEof, peerVars, obsVars
  <2> QED
    BY <2>1, MeasuredQuiet DEF Goto, TypeOK, Measured, HasEnded
<1>6. ASSUME NEW e \in Directions, SendFrame(e) PROVE MeasuredOK(d)'
  <2>1. CASE e = d
    BY <1>6, <2>1, SendKeepsMeasured
  <2>2. CASE e # d
    <3>1. /\ UNCHANGED <<log, got, out, held, obs, trace>>
          /\ pc[e] = "send" /\ pc'[d] = pc[d]
          /\ obs = "up" => chan' = Append(chan, held[e])
      BY <1>6, <2>2 DEF SendFrame, Goto, TypeOK, peerVars, obsVars
    <3>2. PICK f \in Messages : f = held[e] /\ f.dir # d
      BY <2>2, <3>1 DEF TypeOK, Messages
    <3>3. ASSUME obs = "up" PROVE PayloadsOf(d, chan') = PayloadsOf(d, chan)
      <4>1. chan \in Seq(Messages) /\ chan' = Append(chan, f)
        BY <3>1, <3>2, <3>3 DEF TypeOK, Messages
      <4> QED
        BY <3>2, <4>1, PayloadsAppend DEF AddPayload
    <3> QED
      BY <3>1, <3>3, MeasuredQuiet DEF Measured, HasEnded
  <2> QED
    BY <2>1, <2>2
<1>7. ASSUME NEW e \in Directions, WriteLine(e) PROVE MeasuredOK(d)'
  <2>1. CASE e = d
    BY <1>7, <2>1, WriteKeepsMeasured
  <2>2. CASE e # d
    BY <1>7, <2>2, MeasuredQuiet
       DEF WriteLine, Goto, TypeOK, peerVars, obsVars, Measured, HasEnded
  <2> QED
    BY <2>1, <2>2
<1>8. ASSUME NEW e \in Directions, WriteError(e) PROVE MeasuredOK(d)'
  <2>1. /\ UNCHANGED <<log, got, out, obs, trace, chan>> /\ pc[e] = "write"
        /\ pc'[e] \in {"failed", "aborted"}
        /\ e # d => pc'[d] = pc[d] /\ held'[d] = held[d]
    BY <1>8 DEF WriteError, Goto, TypeOK, peerVars, obsVars
  <2>2. CASE e = d
    BY <2>1, <2>2, EndKeepsMeasured DEF HasEnded
  <2>3. CASE e # d
    BY <2>1, <2>3, MeasuredQuiet DEF Measured, HasEnded
  <2> QED
    BY <2>2, <2>3
<1>9. ASSUME Kill PROVE MeasuredOK(d)'
  <2>1. /\ UNCHANGED <<log, got, out, held, obs, trace, chan>>
        /\ pc["s2c"] \notin {"exited", "aborted", "killed", "failed"}
        /\ Goto("s2c", "killed")
    BY <1>9 DEF Kill, Running, TypeOK, peerVars, obsVars
  <2>2. /\ pc'["s2c"] = "killed"
        /\ d # "s2c" => pc'[d] = pc[d]
    BY <2>1, GotoEffect DEF Directions
  <2>3. CASE d = "s2c"
    <3>1. ~HasEnded(d) /\ HasEnded(d)'
      BY <2>1, <2>2, <2>3 DEF HasEnded
    <3> QED
      BY <2>1, <3>1, EndKeepsMeasured
  <2>4. CASE d # "s2c"
    <3>1. Measured(d)' = Measured(d) /\ pc'[d] = pc[d] /\ HasEnded(d)' = HasEnded(d)
      BY <2>1, <2>2, <2>4 DEF Measured, HasEnded
    <3> QED
      BY <2>1, <3>1, MeasuredQuiet
  <2> QED
    BY <2>3, <2>4
<1>10. ASSUME WaitChild \/ ReapClient \/ RecvAck \/ JoinObserver
       PROVE  MeasuredOK(d)'
  <2>1. /\ UNCHANGED <<log, got, out, held, obs, trace, chan>>
        /\ pc["s2c"] \in {"wait", "reap", "ack", "join"}
        /\ \E l \in {"reap", "shutdown", "join", "exited"} : Goto("s2c", l)
    BY <1>10 DEF WaitChild, ReapClient, RecvAck, JoinObserver, peerVars, obsVars
  <2>2. /\ pc'["s2c"] \in {"reap", "shutdown", "join", "exited"}
        /\ d # "s2c" => pc'[d] = pc[d]
    BY <2>1, GotoEffect DEF Directions
  <2> QED
    BY <2>1, <2>2, MeasuredQuiet DEF Measured, HasEnded
<1>11. ASSUME SendShutdown PROVE MeasuredOK(d)'
  <2>1. /\ UNCHANGED <<log, got, out, held, obs, trace>>
        /\ pc["s2c"] = "shutdown" /\ \E l \in {"ack", "join"} : Goto("s2c", l)
        /\ obs = "up" => chan' = Append(chan, Shutdown)
    BY <1>11 DEF SendShutdown, peerVars, obsVars
  <2>2. /\ pc'["s2c"] \in {"ack", "join"}
        /\ d # "s2c" => pc'[d] = pc[d]
    BY <2>1, GotoEffect DEF Directions
  <2>3. ASSUME obs = "up" PROVE PayloadsOf(d, chan') = PayloadsOf(d, chan)
    <3>1. Shutdown \in Messages /\ Shutdown.dir # d
      BY DEF Messages, Shutdown, Directions
    <3>2. PICK f \in Messages : f = Shutdown /\ f.dir # d
      BY <3>1
    <3>3. chan \in Seq(Messages) /\ chan' = Append(chan, f)
      BY <2>1, <2>3, <3>2 DEF TypeOK, Messages
    <3> QED
      BY <3>2, <3>3, PayloadsAppend DEF AddPayload
  <2> QED
    BY <2>1, <2>2, <2>3, MeasuredQuiet DEF Measured, HasEnded
<1>12. ASSUME ObserveFrame PROVE MeasuredOK(d)'
  <2>1. PICK f \in Frame : f = Head(chan)
    BY <1>12, HeadTailProperties DEF ObserveFrame, TypeOK
  <2>2. PICK e : /\ e.dir = f.dir /\ e.payload = f.payload
                 /\ trace' = Append(trace, e)
    BY <1>12, <2>1, EventOfFrame DEF ObserveFrame
  <2>3. /\ chan # <<>> /\ chan' = Tail(chan) /\ UNCHANGED obs
        /\ UNCHANGED <<log, got, out, held, pc>>
    BY <1>12 DEF ObserveFrame, peerVars, relayVars
  <2>4. PICK S : trace \in Seq(S) /\ Lines(S)
    BY DEF TraceTyped
  <2> DEFINE U == (S \cup {e}) \cup Messages
  <2>5. Lines(U) /\ e \in U
    BY <2>1, <2>2, <2>4, MessagesAreLines DEF Lines, Frame
  <2>6. trace \in Seq(U) /\ chan \in Seq(U)
    BY <2>4, SeqMonotonic DEF TypeOK, Messages
  <2>7. e.dir = Head(chan).dir /\ e.payload = Head(chan).payload
    BY <2>1, <2>2
  <2> HIDE DEF U
  <2>8. PayloadsOf(d, Append(trace, e)) \o PayloadsOf(d, Tail(chan))
          = PayloadsOf(d, trace) \o PayloadsOf(d, chan)
    BY <2>3, <2>5, <2>6, <2>7, PayloadsMoved
  <2>9. Measured(d)' = Measured(d)
    BY <2>2, <2>3, <2>8 DEF Measured
  <2> QED
    BY <2>3, <2>9, MeasuredQuiet DEF HasEnded
<1>13. ASSUME ObserveShutdown \/ ObserverPanic PROVE MeasuredOK(d)'
  BY <1>13 DEF ObserveShutdown, ObserverPanic, MeasuredOK
<1>14. ASSUME UNCHANGED vars PROVE MeasuredOK(d)'
  BY <1>14, MeasuredQuiet DEF vars, peerVars, relayVars, obsVars, Measured, HasEnded
<1>15. "c2s" \in Directions /\ "s2c" \in Directions
  BY DEF Directions
<1>16. ASSUME NEW e \in Directions, Relay(e) PROVE MeasuredOK(d)'
  BY <1>4, <1>5, <1>6, <1>7, <1>8, <1>16 DEF Relay
<1> QED
  BY <1>1, <1>2, <1>3, <1>9, <1>10, <1>11, <1>12, <1>13, <1>14, <1>15, <1>16
     DEF Next, ClientThread, MainThread, WindDown, Observe, Peers, Over

LEMMA ObservedInitially ==
    ASSUME Init
    PROVE  /\ TraceTyped
           /\ \A d \in Directions : DirectionOK(d) /\ MeasuredOK(d)
<1>1. TraceTyped
  <2>1. trace \in Seq({}) /\ Lines({})
    BY EmptySeq DEF Init, Lines
  <2> QED
    BY <2>1 DEF TraceTyped
<1>2. ASSUME NEW d \in Directions PROVE DirectionOK(d) /\ MeasuredOK(d)
  <2>1. /\ log[d] = <<>> /\ got[d] = <<>> /\ out[d] = <<>> /\ pc[d] = "read"
        /\ InFlight(d) = <<>> /\ Measured(d) = <<>>
    BY PayloadsEmpty DEF Init, InFlight, Carried, Measured
  <2> QED
    BY <2>1 DEF DirectionOK, MeasuredOK, HasEnded, Forwarded, IsPrefix
<1> QED
  BY <1>1, <1>2

(* The lines in the trace and the channel are the lines forwarded, once    *)
(* each and in order, at every moment of a run in which no trace write     *)
(* fails: whatever the interleaving of the two relays and the observer.    *)
THEOREM TraceMatchesTraffic ==
    ASSUME "write" \notin Faults
    PROVE  Spec => []ObservedExactly
<1> DEFINE Inv == /\ TraceTyped
                  /\ \A d \in Directions : DirectionOK(d) /\ MeasuredOK(d)
<1>1. Init => Inv
  BY ObservedInitially
<1>2. TypeOK /\ TypeOK' /\ Inv /\ [Next]_vars => Inv'
  BY StepKeepsOrder, StepKeepsMeasured, TraceStaysTyped
<1>3. TypeOK /\ Inv => ObservedExactly
  <2> SUFFICES ASSUME TypeOK, Inv, obs = "up", NEW d \in Directions
               PROVE  Measured(d) =
                        CASE pc[d] = "write" -> Forwarded(d) \o Carried(d)
                          [] pc[d] \in {"failed", "aborted", "killed"} ->
                               SubSeq(log[d], 1, Len(PayloadsOf(d, trace \o chan)))
                          [] OTHER -> Forwarded(d)
    BY DEF ObservedExactly, Measured
  <2>1. CASE ~HasEnded(d)
    BY <2>1 DEF MeasuredOK, HasEnded
  <2>2. CASE HasEnded(d)
    <3>1. PICK S : trace \in Seq(S) /\ Lines(S)
      BY DEF TraceTyped
    <3>2. Lines(S \cup Messages)
      BY <3>1, MessagesAreLines DEF Lines
    <3>3. trace \in Seq(S \cup Messages) /\ chan \in Seq(S \cup Messages)
      BY <3>1, SeqMonotonic DEF TypeOK, Messages
    <3>4. PayloadsOf(d, trace \o chan) = Measured(d)
      BY <3>2, <3>3, PayloadsConcat DEF Measured
    <3>5. Measured(d) = SubSeq(log[d], 1, Len(Measured(d)))
      <4>1. IsPrefix(Measured(d), log[d])
        BY <2>2 DEF MeasuredOK
      <4>2. SubSeq(Measured(d), 1, Len(Measured(d))) = Measured(d)
        BY ObservedTypes, SubSeqFull
      <4> QED
        BY <4>1, <4>2 DEF IsPrefix
    <3> QED
      BY <2>2, <3>4, <3>5 DEF HasEnded
  <2> QED
    BY <2>1, <2>2
<1> QED
  BY <1>1, <1>2, <1>3, TypeCorrect, PTL DEF Spec

-----------------------------------------------------------------------------
(* The end of a run in which the observer does not fail.                   *)

(* Between two lines: what is forwarded is measured, and what is measured  *)
(* was written by the source.                                              *)
LEMMA MeasuredBetween ==
    ASSUME TypeOK, TraceTyped, obs = "up", NEW d \in Directions,
           DirectionOK(d), MeasuredOK(d)
    PROVE  /\ IsPrefix(got[d], Measured(d))
           /\ IsPrefix(Measured(d), log[d])
<1>1. PICK g \in Seq(Payloads), o \in Seq(Payloads), c \in Seq(Payloads),
           i \in Seq(Payloads), m \in Seq(Payloads), l \in Seq(Payloads) :
         /\ g = got[d] /\ o = out[d] /\ c = Carried(d) /\ i = inn[d]
         /\ m = Measured(d) /\ l = log[d]
  BY SegmentTypes, ObservedTypes
<1>2. g \o o \in Seq(Payloads) /\ c \o i \in Seq(Payloads)
      /\ (g \o o) \o c \in Seq(Payloads)
  BY ConcatProperties
<1>3. IsPrefix(g, g \o o)
  BY PrefixOfConcat
<1>4. CASE HasEnded(d)
  <2>1. IsPrefix(g \o o, m) /\ IsPrefix(m, l)
    BY <1>1, <1>4 DEF MeasuredOK, Forwarded
  <2> QED
    BY <1>1, <1>2, <1>3, <2>1, PrefixTransitive
<1>5. CASE ~HasEnded(d)
  <2>1. l = Cat(g, Cat(Cat(o, c), i))
    BY <1>1, <1>5 DEF DirectionOK, HasEnded, InFlight, Cat
  <2>2. l = (g \o o) \o (c \o i) /\ l = ((g \o o) \o c) \o i
    <3>1. l = Cat(Cat(g, o), Cat(c, i)) /\ l = Cat(Cat(Cat(g, o), c), i)
      BY <2>1, CatAssociative, CatClosed
    <3> QED
      BY <3>1 DEF Cat
  <2>3. m = g \o o \/ m = (g \o o) \o c
    BY <1>1, <1>5 DEF MeasuredOK, Forwarded
  <2>4. PICK x \in Seq(Payloads), y \in Seq(Payloads), z \in Seq(Payloads) :
           x = g \o o /\ y = c \o i /\ z = x \o c
    BY <1>2
  <2>5. IsPrefix(x, x \o y) /\ IsPrefix(z, z \o i) /\ IsPrefix(x, x \o c)
    BY PrefixOfConcat
  <2>6. IsPrefix(g, z)
    BY <1>3, <2>4, <2>5, PrefixTransitive
  <2> QED
    BY <1>1, <1>3, <2>2, <2>3, <2>4, <2>5, <2>6
<1> QED
  BY <1>4, <1>5

(* The observer is gone before the main thread goes past its answer.       *)
AckOK == pc["s2c"] \in {"join", "exited"} \/ ack # "none" => obs = "gone"

PhasesOK == EofOK /\ AckOK

(* Shutdown is in the channel exactly while it is being waited for; no     *)
(* line of the child is behind it, and every line the child has read is    *)
(* before it.                                                              *)
Split(a, b) ==
    /\ chan = (a \o <<Shutdown>>) \o b
    /\ PayloadsOf("s2c", b) = <<>>
    /\ IsPrefix(got["c2s"], PayloadsOf("c2s", trace) \o PayloadsOf("c2s", a))

ChannelOK ==
    obs = "up" =>
      /\ pc["s2c"] \notin {"ack", "killed"} => chan \in Seq(Frame)
      /\ pc["s2c"] = "ack" => \E a, b \in Seq(Frame) : Split(a, b)

(* After Shutdown was handled nothing is missing.                          *)
Complete ==
    /\ ~srcOpen["s2c"] /\ ~sinkOpen["c2s"]
    /\ PayloadsOf("s2c", trace) = log["s2c"]
    /\ IsPrefix(got["c2s"], PayloadsOf("c2s", trace))
    /\ IsPrefix(PayloadsOf("c2s", trace), log["c2s"])

EndOK == PhasesOK /\ ChannelOK /\ (obs = "gone" => Complete)

LEMMA StepKeepsPhases ==
    ASSUME "panic" \notin Faults, TypeOK, [Next]_vars, PhasesOK
    PROVE  PhasesOK'
<1> USE DEF TypeOK, Directions
<1>1. ASSUME Peers \/ UNCHANGED vars PROVE AckOK'
  BY <1>1 DEF Peers, Emit, Consume, CloseSource, CloseSink, ChildExit, AckOK,
     PhasesOK, vars, relayVars, obsVars
<1>2. ASSUME NEW e \in Directions, Relay(e) PROVE AckOK'
  <2>1. /\ UNCHANGED obsVars
        /\ \E l \in {"send", "write", "read", "done", "wait", "failed", "aborted"} :
              Goto(e, l)
    <3>1. CASE ReadLine(e) \/ WriteLine(e)
      BY <3>1 DEF ReadLine, WriteLine
    <3>2. CASE ReadEof(e) \/ WriteError(e)
      BY <3>2 DEF ReadEof, WriteError
    <3>3. CASE SendFrame(e)
      BY <3>3 DEF SendFrame
    <3> QED
      BY <1>2, <3>1, <3>2, <3>3 DEF Relay
  <2> QED
    BY <2>1 DEF Goto, AckOK, PhasesOK, obsVars
<1>3. ASSUME WaitChild \/ ReapClient \/ RecvAck \/ JoinObserver \/ Kill PROVE AckOK'
  BY <1>3 DEF WaitChild, ReapClient, RecvAck, JoinObserver, Kill, Goto, AckOK,
     PhasesOK, obsVars
<1>4. ASSUME SendShutdown PROVE AckOK'
  <2>1. CASE obs = "up"
    BY <1>4, <2>1 DEF SendShutdown, Goto, AckOK, PhasesOK, obsVars
  <2>2. CASE obs # "up"
    BY <1>4, <2>2 DEF SendShutdown, Goto, AckOK, PhasesOK, obsVars
  <2> QED
    BY <2>1, <2>2
<1>5. ASSUME Observe PROVE AckOK'
  BY <1>5 DEF Observe, ObserveFrame, ObserveShutdown, ObserverPanic, AckOK,
     PhasesOK, relayVars
<1>6. AckOK'
  BY <1>1, <1>2, <1>3, <1>4, <1>5 DEF Next, ClientThread, MainThread, WindDown, Over
<1> QED
  BY <1>6, StepKeepsEof DEF PhasesOK

LEMMA FramesAreMessages ==
    /\ Seq(Frame) \subseteq Seq(Messages)
    /\ Lines(Frame)
    /\ Shutdown \notin Frame
<1>1. Frame \subseteq Messages
  BY DEF Messages
<1>2. Shutdown \notin Frame
  <2> SUFFICES ASSUME Shutdown \in Frame PROVE FALSE
    OBVIOUS
  <2>1. Shutdown.dir \in Directions
    BY DEF Frame
  <2> QED
    BY <2>1 DEF Shutdown, Directions
<1> QED
  BY <1>1, <1>2, SeqMonotonic, MessagesAreLines DEF Lines

(* Steps of the relays and the peers, seen from the channel.               *)
LEMMA ChannelQuiet ==
    ASSUME ChannelOK, UNCHANGED <<chan, obs, trace>>,
           \/ pc'["s2c"] = pc["s2c"] /\ (pc["s2c"] = "ack" => UNCHANGED got["c2s"])
           \/ pc["s2c"] \notin {"ack", "killed"} /\ pc'["s2c"] # "ack"
           \/ obs = "gone"
           \/ pc'["s2c"] = "killed"
    PROVE  ChannelOK'
  BY DEF ChannelOK, Split

LEMMA SendKeepsChannel ==
    ASSUME TypeOK, ChannelOK, NEW d \in Directions, SendFrame(d)
    PROVE  ChannelOK'
<1>1. /\ pc[d] = "send" /\ UNCHANGED <<got, obs, trace>>
      /\ Goto(d, "write")
      /\ obs = "up" => chan' = Append(chan, held[d])
  BY DEF SendFrame, peerVars, obsVars
<1>2. /\ d = "s2c" => pc'["s2c"] = "write" /\ pc["s2c"] = "send"
      /\ d # "s2c" => pc'["s2c"] = pc["s2c"]
  BY <1>1, GotoEffect DEF Directions
<1>3. PICK f \in Frame : f = held[d] /\ f.dir = d
  BY <1>1 DEF TypeOK
<1> SUFFICES ASSUME obs = "up" PROVE ChannelOK'
  BY <1>1 DEF ChannelOK
<1>4. CASE pc["s2c"] \notin {"ack", "killed"}
  <2>1. chan' \in Seq(Frame)
    BY <1>1, <1>3, <1>4, AppendProperties DEF ChannelOK
  <2> QED
    BY <1>2, <1>4, <2>1 DEF ChannelOK
<1>5. CASE pc["s2c"] = "ack"
  <2>1. f.dir = "c2s" /\ pc'["s2c"] = "ack"
    BY <1>2, <1>3, <1>5 DEF Directions
  <2>2. PICK a \in Seq(Frame), b \in Seq(Frame) : Split(a, b)
    BY <1>5 DEF ChannelOK
  <2>3. Append(b, f) \in Seq(Frame)
    BY AppendProperties
  <2>4. chan' = (a \o <<Shutdown>>) \o Append(b, f)
    <3>1. PICK x \in Seq(Messages), y \in Seq(Messages), l \in Seq(Messages) :
             x = Cat(a, <<Shutdown>>) /\ y = b /\ l = <<f>>
      <4>1. /\ a \in Seq(Messages) /\ b \in Seq(Messages) /\ <<f>> \in Seq(Messages)
            /\ <<Shutdown>> \in Seq(Messages)
        BY FramesAreMessages DEF Messages
      <4> QED
        BY <4>1, CatClosed
    <3>2. chan' = Cat(chan, l) /\ Append(b, f) = Cat(y, l)
      <4>1. /\ chan \in Seq(Messages) /\ f \in Messages /\ b \in Seq(Messages)
            /\ chan' = Append(chan, f)
        BY <1>1, <1>3, FramesAreMessages DEF TypeOK, Messages
      <4>2. Append(chan, f) = Cat(chan, <<f>>) /\ Append(b, f) = Cat(b, <<f>>)
        BY <4>1, AppendIsCat
      <4> QED
        BY <3>1, <4>1, <4>2
    <3>3. chan = Cat(x, y)
      BY <2>2, <3>1 DEF Split, Cat
    <3>4. Cat(Cat(x, y), l) = Cat(x, Cat(y, l))
      BY CatAssociative
    <3> QED
      BY <3>1, <3>2, <3>3, <3>4 DEF Cat
  <2>5. PayloadsOf("s2c", Append(b, f)) = <<>>
    BY <2>1, <2>2, PayloadsAppend DEF Split, AddPayload
  <2>6. Split(a, Append(b, f))'
    BY <1>1, <2>2, <2>4, <2>5 DEF Split
  <2> QED
    BY <2>1, <2>3, <2>6 DEF ChannelOK
<1>6. CASE pc["s2c"] = "killed"
  BY <1>2, <1>6 DEF ChannelOK
<1> QED
  BY <1>4, <1>5, <1>6

LEMMA ShutdownKeepsChannel ==
    ASSUME TypeOK, TraceTyped, ChannelOK, DirectionOK("c2s"), MeasuredOK("c2s"),
           SendShutdown
    PROVE  ChannelOK'
<1>1. /\ pc["s2c"] = "shutdown" /\ UNCHANGED <<got, obs, trace>>
      /\ obs = "up" => chan' = Append(chan, Shutdown) /\ Goto("s2c", "ack")
  BY DEF SendShutdown, peerVars, obsVars
<1> SUFFICES ASSUME obs = "up" PROVE ChannelOK'
  BY <1>1 DEF ChannelOK
<1>2. pc'["s2c"] = "ack" /\ "c2s" \in Directions
  BY <1>1, GotoEffect DEF Directions
<1>3. chan \in Seq(Frame) /\ <<>> \in Seq(Frame)
  BY <1>1 DEF ChannelOK
<1>4. chan' = (chan \o <<Shutdown>>) \o <<>>
  <2>1. PICK x \in Seq(Messages), g \in Messages : x = chan /\ g = Shutdown
    BY <1>3, FramesAreMessages DEF Messages
  <2>2. Append(x, g) = x \o <<g>> /\ (x \o <<g>>) \o <<>> = x \o <<g>>
    BY AppendIsConcat, ConcatEmptySeq, ConcatProperties
  <2> QED
    BY <1>1, <2>1, <2>2
<1>5. IsPrefix(got["c2s"], PayloadsOf("c2s", trace) \o PayloadsOf("c2s", chan))
  BY <1>2, MeasuredBetween DEF Measured
<1>6. \E a, b \in Seq(Frame) :
         /\ chan' = (a \o <<Shutdown>>) \o b
         /\ PayloadsOf("s2c", b) = <<>>
         /\ IsPrefix(got["c2s"], PayloadsOf("c2s", trace) \o PayloadsOf("c2s", a))
  BY <1>3, <1>4, <1>5, PayloadsEmpty
<1> QED
  BY <1>1, <1>2, <1>6 DEF ChannelOK, Split

(* A split channel begins with the first frame before Shutdown, if any.    *)
LEMMA SplitHead ==
    ASSUME NEW a \in Seq(Frame), NEW b \in Seq(Frame), Split(a, b)
    PROVE  /\ a = <<>> => Head(chan) = Shutdown
           /\ a # <<>> => /\ Head(chan) = Head(a) /\ Head(a) \in Frame
                         /\ Tail(a) \in Seq(Frame)
                         /\ Tail(chan) = (Tail(a) \o <<Shutdown>>) \o b
<1>1. /\ a \in Seq(Messages) /\ b \in Seq(Messages) /\ Shutdown \in Messages
      /\ <<Shutdown>> \in Seq(Messages)
  BY FramesAreMessages DEF Messages
<1>2. CASE a = <<>>
  BY <1>1, <1>2 DEF Split
<1>3. CASE a # <<>>
  <2>1. Head(a) \in Frame /\ Tail(a) \in Seq(Frame)
    BY <1>3, HeadTailProperties
  <2>2. /\ Head(a \o <<Shutdown>>) = Head(a)
        /\ Tail(a \o <<Shutdown>>) = Tail(a) \o <<Shutdown>>
        /\ a \o <<Shutdown>> \in Seq(Messages) /\ a \o <<Shutdown>> # <<>>
    BY <1>1, <1>3
  <2>3. PICK x \in Seq(Messages) : x = a \o <<Shutdown>> /\ x # <<>>
    BY <2>2
  <2>4. Head(x \o b) = Head(x) /\ Tail(x \o b) = Tail(x) \o b
    BY <1>1, <2>3
  <2> QED
    BY <1>3, <2>1, <2>2, <2>3, <2>4 DEF Split
<1> QED
  BY <1>2, <1>3

LEMMA ObserveKeepsChannel ==
    ASSUME "write" \notin Faults, TypeOK, TraceTyped, ChannelOK, ObserveFrame
    PROVE  ChannelOK'
<1>1. /\ obs = "up" /\ chan # <<>> /\ Head(chan) # Shutdown /\ chan' = Tail(chan)
      /\ pc["s2c"] # "killed" /\ UNCHANGED <<pc, got, obs>>
  BY DEF ObserveFrame, Running, peerVars, relayVars
<1>2. PICK f \in Frame : f = Head(chan)
  BY <1>1, HeadTailProperties DEF TypeOK
<1>3. PICK e : /\ e.dir = f.dir /\ e.payload = f.payload
               /\ trace' = Append(trace, e)
  BY <1>2, EventOfFrame DEF ObserveFrame
<1>4. CASE pc["s2c"] # "ack"
  <2>1. chan' \in Seq(Frame)
    BY <1>1, <1>4, HeadTailProperties DEF ChannelOK
  <2> QED
    BY <1>1, <1>4, <2>1 DEF ChannelOK
<1>5. CASE pc["s2c"] = "ack"
  <2>1. PICK a \in Seq(Frame), b \in Seq(Frame) : Split(a, b)
    BY <1>1, <1>5 DEF ChannelOK
  <2>2. /\ a # <<>> /\ Head(a) = f /\ Tail(a) \in Seq(Frame)
        /\ chan' = (Tail(a) \o <<Shutdown>>) \o b
    BY <1>1, <1>2, <2>1, SplitHead
  <2>3. PICK S : trace \in Seq(S) /\ Lines(S)
    BY DEF TraceTyped
  <2> DEFINE U == (S \cup {e}) \cup Frame
  <2>4. Lines(U) /\ e \in U
    BY <1>3, <2>3, FramesAreMessages DEF Lines, Frame
  <2>5. trace \in Seq(U) /\ a \in Seq(U)
    BY <2>3, SeqMonotonic
  <2>6. e.dir = Head(a).dir /\ e.payload = Head(a).payload
    BY <1>3, <2>2
  <2> HIDE DEF U
  <2>7. PayloadsOf("c2s", Append(trace, e)) \o PayloadsOf("c2s", Tail(a))
          = PayloadsOf("c2s", trace) \o PayloadsOf("c2s", a)
    <3>1. "c2s" \in Directions
      BY DEF Directions
    <3> QED
      BY <2>2, <2>4, <2>5, <2>6, <3>1, PayloadsMoved
  <2>8. Split(Tail(a), b)'
    BY <1>1, <1>3, <2>1, <2>2, <2>7 DEF Split
  <2> QED
    BY <1>1, <1>5, <2>2, <2>8 DEF ChannelOK
<1> QED
  BY <1>4, <1>5

LEMMA StepKeepsChannel ==
    ASSUME "write" \notin Faults, "panic" \notin Faults,
           TypeOK, TraceTyped, PhasesOK, ChannelOK, [Next]_vars,
           DirectionOK("c2s"), MeasuredOK("c2s")
    PROVE  ChannelOK'
<1>1. ASSUME NEW e \in Directions, NEW p \in Payloads, Emit(e, p) PROVE ChannelOK'
  BY <1>1, ChannelQuiet DEF Emit, obsVars
<1>2. ASSUME NEW e \in Directions, Consume(e) PROVE ChannelOK'
  <2>1. /\ UNCHANGED <<chan, obs, trace, pc>>
        /\ e # "c2s" => UNCHANGED got["c2s"]
        /\ pc["s2c"] = "ack" => e # "c2s"
    BY <1>2 DEF Consume, obsVars, TypeOK, PhasesOK, EofOK, AckOK,
       AfterWait, AfterEof, Directions
  <2> QED
    BY <2>1, ChannelQuiet
<1>3. ASSUME ChildExit \/ \E e \in Directions : CloseSource(e) \/ CloseSink(e)
      PROVE  ChannelOK'
  BY <1>3, ChannelQuiet DEF ChildExit, CloseSource, CloseSink, relayVars, obsVars
<1>4. ASSUME NEW e \in Directions,
             ReadLine(e) \/ ReadEof(e) \/ WriteLine(e) \/ WriteError(e)
      PROVE  ChannelOK'
  <2>1. /\ UNCHANGED <<got, chan, obs, trace>> /\ pc[e] \in {"read", "write"}
        /\ \E l \in {"send", "done", "wait", "read", "failed", "aborted"} : Goto(e, l)
    BY <1>4 DEF ReadLine, ReadEof, WriteLine, WriteError, peerVars, obsVars
  <2>2. \/ pc'["s2c"] = pc["s2c"]
        \/ pc["s2c"] \in {"read", "write"} /\ pc'["s2c"] # "ack"
    BY <2>1, GotoEffect DEF Directions
  <2> QED
    BY <2>1, <2>2, ChannelQuiet
<1>5. ASSUME WaitChild \/ ReapClient \/ JoinObserver PROVE ChannelOK'
  <2>1. /\ UNCHANGED <<got, chan, obs, trace>>
        /\ pc["s2c"] \in {"wait", "reap", "join"}
        /\ \E l \in {"reap", "shutdown", "exited"} : Goto("s2c", l)
    BY <1>5 DEF WaitChild, ReapClient, JoinObserver, peerVars, obsVars
  <2>2. pc'["s2c"] # "ack"
    BY <2>1, GotoEffect DEF Directions
  <2> QED
    BY <2>1, <2>2, ChannelQuiet
<1>6. ASSUME RecvAck PROVE ChannelOK'
  BY <1>6, ChannelQuiet DEF RecvAck, PhasesOK, EofOK, AckOK, obsVars
<1>7. ASSUME Kill PROVE ChannelOK'
  <2>1. UNCHANGED <<chan, obs, trace>> /\ Goto("s2c", "killed")
    BY <1>7 DEF Kill, obsVars
  <2>2. pc'["s2c"] = "killed"
    BY <2>1, GotoEffect DEF Directions
  <2> QED
    BY <2>1, <2>2, ChannelQuiet
<1>8. ASSUME ObserveShutdown \/ ObserverPanic PROVE ChannelOK'
  BY <1>8 DEF ObserveShutdown, ObserverPanic, ChannelOK
<1>9. ASSUME UNCHANGED vars PROVE ChannelOK'
  BY <1>9, ChannelQuiet DEF vars, peerVars, relayVars, obsVars
<1>10. "c2s" \in Directions /\ "s2c" \in Directions
  BY DEF Directions
<1>11. ASSUME NEW e \in Directions, Relay(e) PROVE ChannelOK'
  BY <1>4, <1>11, SendKeepsChannel DEF Relay
<1> QED
  BY <1>1, <1>2, <1>3, <1>5, <1>6, <1>7, <1>8, <1>9, <1>10, <1>11,
     ShutdownKeepsChannel, ObserveKeepsChannel
     DEF Next, ClientThread, MainThread, WindDown, Observe, Peers, Over

(* Shutdown is handled: nothing of what the child wrote is missing.        *)
LEMMA ShutdownCompletes ==
    ASSUME TypeOK, TraceTyped, PhasesOK, ChannelOK, ObserveShutdown,
           \A d \in Directions : DirectionOK(d) /\ MeasuredOK(d)
    PROVE  Complete'
<1>1. /\ obs = "up" /\ chan # <<>> /\ Head(chan) = Shutdown
      /\ pc["s2c"] \notin {"exited", "aborted", "killed"}
      /\ UNCHANGED <<log, got, srcOpen, sinkOpen, trace>>
  BY DEF ObserveShutdown, Running, peerVars
<1>2. pc["s2c"] = "ack"
  <2> SUFFICES ASSUME pc["s2c"] # "ack" PROVE FALSE
    OBVIOUS
  <2>1. Head(chan) \in Frame
    BY <1>1, HeadTailProperties DEF ChannelOK
  <2> QED
    BY <1>1, <2>1, FramesAreMessages
<1>3. /\ ~childUp /\ ~srcOpen["s2c"] /\ ~sinkOpen["c2s"]
      /\ inn["s2c"] = <<>> /\ held["s2c"] = None
  BY <1>2 DEF PhasesOK, EofOK, AckOK, AfterWait, AfterEof
<1>4. PICK b \in Seq(Frame) : Split(<<>>, b)
  <2>1. PICK a \in Seq(Frame), b \in Seq(Frame) : Split(a, b)
    BY <1>1, <1>2 DEF ChannelOK
  <2>2. a = <<>>
    BY <1>1, <2>1, SplitHead, FramesAreMessages
  <2> QED
    BY <2>1, <2>2
<1>5. chan = <<Shutdown>> \o b /\ PayloadsOf("s2c", b) = <<>>
  <2>1. <<Shutdown>> \in Seq(Messages)
    BY DEF Messages
  <2>2. <<>> \o <<Shutdown>> = <<Shutdown>>
    BY <2>1, ConcatEmptySeq
  <2> QED
    BY <1>4, <2>2 DEF Split
<1>6. PayloadsOf("s2c", chan) = <<>>
  <2>1. /\ "s2c" \in Directions /\ <<Shutdown>> \in Seq(Messages)
        /\ b \in Seq(Messages) /\ Shutdown \in Messages
    BY FramesAreMessages DEF Messages, Directions
  <2>2. PayloadsOf("s2c", <<Shutdown>>) = <<>>
    <3>1. PayloadsOf("s2c", <<Shutdown>>) = AddPayload("s2c", <<>>, Shutdown)
      BY <2>1, PayloadsOne
    <3> QED
      BY <3>1 DEF AddPayload, Shutdown
  <2>3. PayloadsOf("s2c", <<Shutdown>> \o b)
          = PayloadsOf("s2c", <<Shutdown>>) \o PayloadsOf("s2c", b)
    BY <2>1, MessagesAreLines, PayloadsConcat
  <2>4. <<>> \o <<>> = <<>>
    OBVIOUS
  <2> QED
    BY <1>5, <2>2, <2>3, <2>4
<1>7. PayloadsOf("s2c", trace) = log["s2c"]
  <2>1. "s2c" \in Directions
    BY DEF Directions
  <2>2. /\ Measured("s2c") = Forwarded("s2c")
        /\ log["s2c"] = got["s2c"] \o ((out["s2c"] \o <<>>) \o <<>>)
    BY <1>1, <1>2, <1>3, <2>1
       DEF MeasuredOK, DirectionOK, HasEnded, InFlight, Carried
  <2>3. /\ out["s2c"] \o <<>> = out["s2c"]
        /\ PayloadsOf("s2c", trace) \o <<>> = PayloadsOf("s2c", trace)
    BY <2>1, ConcatEmptySeq, SegmentTypes, ObservedTypes
  <2> QED
    BY <1>6, <2>2, <2>3 DEF Measured, Forwarded
<1>8. IsPrefix(got["c2s"], PayloadsOf("c2s", trace))
  <2>1. "c2s" \in Directions
    BY DEF Directions
  <2>2. PayloadsOf("c2s", trace) \o <<>> = PayloadsOf("c2s", trace)
    BY <2>1, ConcatEmptySeq, ObservedTypes
  <2> QED
    BY <1>4, <2>2, PayloadsEmpty DEF Split
<1>9. IsPrefix(PayloadsOf("c2s", trace), log["c2s"])
  <2>1. "c2s" \in Directions
    BY DEF Directions
  <2>2. PICK x \in Seq(Payloads), y \in Seq(Payloads), l \in Seq(Payloads) :
           /\ x = PayloadsOf("c2s", trace) /\ y = PayloadsOf("c2s", chan)
           /\ l = log["c2s"]
    BY <2>1, SegmentTypes, ObservedTypes
  <2>3. IsPrefix(x \o y, l) /\ x \o y \in Seq(Payloads)
    BY <1>1, <2>1, <2>2, MeasuredBetween, ObservedTypes DEF Measured
  <2>4. IsPrefix(x, x \o y)
    BY PrefixOfConcat
  <2> QED
    BY <2>2, <2>3, <2>4, PrefixTransitive
<1> QED
  BY <1>1, <1>3, <1>7, <1>8, <1>9 DEF Complete

(* It stays so: the child is gone, and the client only writes on.          *)
LEMMA StaysComplete ==
    ASSUME TypeOK, TraceTyped, obs = "gone", Complete, [Next]_vars
    PROVE  Complete'
<1>1. ASSUME NEW e \in Directions, NEW p \in Payloads, Emit(e, p) PROVE Complete'
  <2>1. /\ e = "c2s" /\ log' = [log EXCEPT !["c2s"] = Append(@, p)]
        /\ UNCHANGED <<got, srcOpen, sinkOpen, trace>>
    BY <1>1 DEF Emit, Complete, Directions, obsVars
  <2>2. log'["c2s"] = Append(log["c2s"], p) /\ log'["s2c"] = log["s2c"]
    BY <2>1 DEF TypeOK, Directions
  <2>3. PICK x \in Seq(Payloads), l \in Seq(Payloads) :
           x = PayloadsOf("c2s", trace) /\ l = log["c2s"]
    BY <2>1, SegmentTypes, ObservedTypes DEF Directions
  <2>4. IsPrefix(x, Append(l, p))
    BY <2>3, PrefixOfAppend DEF Complete
  <2> QED
    BY <2>1, <2>2, <2>3, <2>4 DEF Complete
<1>2. ASSUME NEW e \in Directions, Consume(e) PROVE Complete'
  <2>1. /\ e = "s2c" /\ got' = [got EXCEPT !["s2c"] = Append(@, Head(out["s2c"]))]
        /\ UNCHANGED <<log, srcOpen, sinkOpen, trace>>
    BY <1>2 DEF Consume, Complete, Directions, obsVars
  <2>2. got'["c2s"] = got["c2s"]
    BY <2>1 DEF TypeOK, Directions
  <2> QED
    BY <2>1, <2>2 DEF Complete
<1>3. ASSUME ChildExit \/ \E e \in Directions : CloseSource(e) \/ CloseSink(e)
      PROVE  Complete'
  BY <1>3 DEF ChildExit, CloseSource, CloseSink, obsVars, Complete, TypeOK, Directions
<1>4. CASE UNCHANGED <<peerVars, trace>>
  BY <1>4 DEF Complete, peerVars
<1>5. ~Observe
  BY DEF Observe, ObserveFrame, ObserveShutdown, ObserverPanic
<1> QED
  BY <1>1, <1>2, <1>3, <1>4, <1>5 DEF Next, ClientThread, MainThread, Relay,
     WindDown, Peers, Over, ReadLine, ReadEof, SendFrame, WriteLine, WriteError,
     WaitChild, ReapClient, SendShutdown, RecvAck, JoinObserver, Kill, vars, obsVars

(* A run whose observer does not fail and that ends in the normal way has  *)
(* recorded everything: all that the child wrote, and all that it read.    *)
THEOREM NothingMissing ==
    ASSUME "write" \notin Faults, "panic" \notin Faults
    PROVE  Spec => []RecordedAtExit
<1> DEFINE Inv == /\ TraceTyped /\ EndOK
                  /\ \A d \in Directions : DirectionOK(d) /\ MeasuredOK(d)
<1>1. Init => Inv
  <2> SUFFICES ASSUME Init PROVE Inv
    OBVIOUS
  <2>1. TraceTyped /\ \A d \in Directions : DirectionOK(d) /\ MeasuredOK(d)
    BY ObservedInitially
  <2>2. chan \in Seq(Frame) /\ pc["s2c"] = "read"
    BY EmptySeq DEF Init, Directions
  <2>3. EndOK
    BY <2>2 DEF Init, EndOK, PhasesOK, EofOK, AckOK, ChannelOK, AfterEof, AfterWait
  <2> QED
    BY <2>1, <2>3
<1>2. TypeOK /\ TypeOK' /\ Inv /\ [Next]_vars => Inv'
  <2> SUFFICES ASSUME TypeOK, TypeOK', Inv, [Next]_vars PROVE Inv'
    OBVIOUS
  <2>1. TraceTyped' /\ \A d \in Directions : DirectionOK(d)' /\ MeasuredOK(d)'
    BY StepKeepsOrder, StepKeepsMeasured, TraceStaysTyped
  <2>2. DirectionOK("c2s") /\ MeasuredOK("c2s")
    BY DEF Directions
  <2>3. PhasesOK' /\ ChannelOK'
    BY <2>2, StepKeepsPhases, StepKeepsChannel DEF EndOK
  <2>4. ASSUME obs' = "gone" PROVE Complete'
    <3>1. CASE obs = "gone"
      BY <3>1, StaysComplete DEF EndOK
    <3>2. CASE obs # "gone"
      <4>1. ObserveShutdown
        BY <2>4, <3>2 DEF Next, ClientThread, MainThread, Relay, WindDown, Peers,
           Over, ReadLine, ReadEof, SendFrame, WriteLine, WriteError, WaitChild,
           ReapClient, SendShutdown, RecvAck, JoinObserver, Kill, vars, obsVars,
           Emit, Consume, CloseSource, CloseSink, ChildExit, Observe,
           ObserveFrame, ObserverPanic
      <4> QED
        BY <4>1, ShutdownCompletes DEF EndOK
    <3> QED
      BY <3>1, <3>2
  <2> QED
    BY <2>1, <2>3, <2>4 DEF EndOK
<1>3. Inv => RecordedAtExit
  BY DEF RecordedAtExit, EndOK, PhasesOK, EofOK, AckOK, Complete
<1> QED
  BY <1>1, <1>2, <1>3, TypeCorrect, PTL DEF Spec
====
