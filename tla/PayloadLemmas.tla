--------------------------- MODULE PayloadLemmas ---------------------------
(***************************************************************************)
(* What the observer and the parser return, for every payload and stream:  *)
(* facts for the proofs about the modules that call them.  Each of these   *)
(* functions is a fold, so each part names the step of its fold and takes  *)
(* the facts of SequenceLemmas for it.                                     *)
(***************************************************************************)
EXTENDS Observer, SseParser, SequenceLemmas, FiniteSetTheorems

(***************************************************************************)
(* The observer.                                                           *)
(***************************************************************************)
(* The step of Inspected; p is the direction and the time.                 *)
InspectStep(p, seen, item) == InspectValue(seen, item, p[1], p[2])

Items == INSTANCE SequenceLemmas WITH op <- InspectStep

AnyFacts ==
    [methods : Seq(Methods), tools : Seq(Tools), requests : Nat, responses : Nat,
     notifications : Nat, calls : Nat, exposed : Nat \cup {Absent},
     schema : Nat \cup {Absent}, latencies : Seq(Nat), ok : BOOLEAN]

Inspection == [facts : AnyFacts, pending : PendingMap]

LEMMA AppendSomeType ==
    ASSUME NEW s \in Seq(Tools), NEW x \in Tools \cup {None}
    PROVE  AppendSome(s, x) \in Seq(Tools)
  BY DEF AppendSome

LEMMA AddToType ==
    ASSUME NEW t \in Nat \cup {Absent}, NEW n \in Nat
    PROVE  AddTo(t, n) \in Nat
  BY DEF AddTo, Absent

LEMMA ElapsedType ==
    ASSUME NEW f \in Nat, NEW t \in Nat
    PROVE  Elapsed(f, t) \in Nat
  BY DEF Elapsed

LEMMA NoFactsType == NoFacts \in AnyFacts
<1>1. <<>> \in Seq(Methods) /\ <<>> \in Seq(Tools) /\ <<>> \in Seq(Nat)
  BY EmptySeq
<1> QED
  BY <1>1 DEF NoFacts, AnyFacts, Absent

LEMMA CallType ==
    ASSUME NEW seen \in Inspection, NEW item \in AnyItem, NEW dir, NEW at \in Nat,
           item.method # None
    PROVE  InspectCall(seen, item, dir, at) \in Inspection
<1> DEFINE tool == IF item.method = "tools/call" THEN item.name ELSE None
           facts == [seen.facts EXCEPT
                       !.methods = Append(@, item.method),
                       !.tools = AppendSome(@, tool),
                       !.calls = IF tool = None THEN @ ELSE @ + 1,
                       !.requests = IF item.id = None THEN @ ELSE @ + 1,
                       !.notifications = IF item.id = None THEN @ + 1 ELSE @]
<1>1. item.method \in Methods /\ tool \in Tools \cup {None} /\ item.id \in Ids \cup {None}
  BY DEF AnyItem
<1>2. seen.facts \in AnyFacts /\ seen.pending \in PendingMap
  BY DEF Inspection
<1>3. AppendSome(seen.facts.tools, tool) \in Seq(Tools)
  BY <1>1, <1>2, AppendSomeType DEF AnyFacts
<1>4. Append(seen.facts.methods, item.method) \in Seq(Methods)
  BY <1>1, <1>2, AppendProperties DEF AnyFacts
<1>5. facts \in AnyFacts
  <2>1. PICK f \in AnyFacts, m \in Seq(Methods), t \in Seq(Tools) :
           /\ f = seen.facts /\ m = Append(f.methods, item.method)
           /\ t = AppendSome(f.tools, tool)
    BY <1>2, <1>3, <1>4
  <2>2. PICK c \in Nat, r \in Nat, n \in Nat :
           /\ c = IF tool = None THEN f.calls ELSE f.calls + 1
           /\ r = IF item.id = None THEN f.requests ELSE f.requests + 1
           /\ n = IF item.id = None THEN f.notifications + 1 ELSE f.notifications
    <3>1. f.calls \in Nat /\ f.requests \in Nat /\ f.notifications \in Nat
      BY DEF AnyFacts
    <3>2. /\ (IF tool = None THEN f.calls ELSE f.calls + 1) \in Nat
          /\ (IF item.id = None THEN f.requests ELSE f.requests + 1) \in Nat
          /\ (IF item.id = None THEN f.notifications + 1 ELSE f.notifications) \in Nat
      BY <3>1
    <3> QED
      BY <3>2
  <2>3. [f EXCEPT !.methods = m, !.tools = t, !.calls = c, !.requests = r,
                  !.notifications = n] \in AnyFacts
    BY DEF AnyFacts
  <2> QED
    BY <2>1, <2>2, <2>3
<1>6. [method |-> item.method, tool |-> tool, at |-> at] \in Request
  BY <1>1 DEF Request
<1>7. item.id # None => [seen.pending EXCEPT ![item.id] =
        [method |-> item.method, tool |-> tool, at |-> at]] \in PendingMap
  BY <1>1, <1>2, <1>6 DEF PendingMap
<1> QED
  BY <1>2, <1>5, <1>7 DEF InspectCall, Inspection

LEMMA CorrelateType ==
    ASSUME NEW f \in AnyFacts, NEW request \in Request, NEW item \in AnyItem,
           NEW at \in Nat
    PROVE  Correlate(f, request, item, at) \in AnyFacts
<1> DEFINE list == request.method = "tools/list"
           exposed == IF list /\ item.tools # Absent
                      THEN AddTo(f.exposed, item.tools) ELSE f.exposed
           schema == IF list /\ item.schema # Absent
                     THEN AddTo(f.schema, item.schema) ELSE f.schema
<1>1. /\ request.method \in Methods /\ request.tool \in Tools \cup {None}
      /\ request.at \in Nat
  BY DEF Request
<1>2. /\ f.methods \in Seq(Methods) /\ f.tools \in Seq(Tools)
      /\ f.latencies \in Seq(Nat)
      /\ f.exposed \in Nat \cup {Absent} /\ f.schema \in Nat \cup {Absent}
  BY DEF AnyFacts
<1>3. item.tools \in Nat \cup {Absent} /\ item.schema \in Nat \cup {Absent}
  BY DEF AnyItem
<1>4. exposed \in Nat \cup {Absent} /\ schema \in Nat \cup {Absent}
  BY <1>2, <1>3, AddToType
<1>5. Append(f.methods, request.method) \in Seq(Methods)
  BY <1>1, <1>2, AppendProperties
<1>6. AppendSome(f.tools, request.tool) \in Seq(Tools)
  BY <1>1, <1>2, AppendSomeType
<1>7. Append(f.latencies, Elapsed(request.at, at)) \in Seq(Nat)
  BY <1>1, <1>2, ElapsedType, AppendProperties
<1> QED
  BY <1>4, <1>5, <1>6, <1>7 DEF Correlate, AnyFacts

LEMMA ResponseType ==
    ASSUME NEW seen \in Inspection, NEW item \in AnyItem, NEW dir, NEW at \in Nat,
           item.id # None
    PROVE  InspectResponse(seen, item, dir, at) \in Inspection
<1> DEFINE facts == [seen.facts EXCEPT !.responses = @ + 1,
                                       !.ok = @ /\ "error" \notin item.body]
           request == seen.pending[item.id]
<1>1. item.id \in Ids
  BY DEF AnyItem
<1>2. seen.facts \in AnyFacts /\ seen.pending \in PendingMap
  BY DEF Inspection
<1>3. facts \in AnyFacts
  <2>1. PICK f \in AnyFacts, b \in BOOLEAN :
           f = seen.facts /\ b = (f.ok /\ "error" \notin item.body)
    BY <1>2
  <2>2. PICK r \in Nat : r = f.responses + 1
    BY DEF AnyFacts
  <2>3. [f EXCEPT !.responses = r, !.ok = b] \in AnyFacts
    BY DEF AnyFacts
  <2> QED
    BY <2>1, <2>2, <2>3
<1>4. request \in Request \cup {None}
  BY <1>1, <1>2 DEF PendingMap
<1>5. [seen.pending EXCEPT ![item.id] = None] \in PendingMap
  BY <1>2 DEF PendingMap
<1>6. request # None => Correlate(facts, request, item, at) \in AnyFacts
  BY <1>3, <1>4, CorrelateType
<1>7. [seen EXCEPT !.facts = facts] \in Inspection
  BY <1>3 DEF Inspection
<1> QED
  BY <1>2, <1>5, <1>6, <1>7 DEF InspectResponse, Inspection

LEMMA InspectType ==
    ASSUME NEW seen \in Inspection, NEW item \in AnyItem, NEW dir, NEW at \in Nat
    PROVE  InspectValue(seen, item, dir, at) \in Inspection
<1>1. [seen EXCEPT !.facts.ok = FALSE] \in Inspection
  BY DEF Inspection, AnyFacts
<1> QED
  BY <1>1, CallType, ResponseType DEF InspectValue

(* Inspected is a fold of InspectStep.                                     *)
LEMMA InspectedFolds ==
    ASSUME NEW payload, NEW dir, NEW pending, NEW at, payload.json = TRUE
    PROVE  Inspected(payload, dir, pending, at)
              = Items!Fold(<<dir, at>>, [facts |-> NoFacts, pending |-> pending],
                           payload.items)
  BY DEF Inspected, InspectStep, Items!Fold, FoldLeft, Items!FoldLeft,
         MapThenFoldSet, Items!MapThenFoldSet, Max, Items!Max

LEMMA InspectedType ==
    ASSUME NEW payload \in AnyPayload, NEW dir, NEW pending \in PendingMap, NEW at \in Nat
    PROVE  Inspected(payload, dir, pending, at) \in Inspection
<1> DEFINE start == [facts |-> NoFacts, pending |-> pending]
<1>1. start \in Inspection
  BY NoFactsType DEF Inspection
<1>2. payload.json \in BOOLEAN /\ payload.items \in Seq(AnyItem)
  BY DEF AnyPayload
<1>3. CASE payload.json = TRUE
  <2>1. \A seen \in Inspection, item \in AnyItem :
           InspectStep(<<dir, at>>, seen, item) \in Inspection
    BY InspectType DEF InspectStep
  <2> HIDE DEF start
  <2>2. \A s \in Seq(AnyItem) : Items!Fold(<<dir, at>>, start, s) \in Inspection
    BY <1>1, <2>1, Items!FoldType
  <2> QED
    BY <1>2, <1>3, <2>2, InspectedFolds DEF start
<1>4. CASE payload.json = FALSE
  <2>1. [start EXCEPT !.facts.ok = FALSE] \in Inspection
    BY <1>1 DEF Inspection, AnyFacts
  <2> QED
    BY <1>4, <2>1 DEF Inspected
<1> QED
  BY <1>2, <1>3, <1>4

Kinds ==
    {"malformed", "batch", "tools_list_request", "tools_call_request", "request",
     "tools_list_response", "tools_call_response", "response", "notification",
     "message"}

AnyEvent ==
    [dir : Directions, at : Nat, payload : AnyPayload, tokens : Nat, kind : Kinds,
     facts : AnyFacts]

LEMMA ObservedType ==
    ASSUME NEW p \in AnyPayload, NEW dir \in Directions, NEW pending \in PendingMap,
           NEW at \in Nat
    PROVE  LET o == ObservePayloadAt(p, dir, pending, at) IN
           /\ o.event \in AnyEvent /\ o.event.dir = dir /\ o.event.at = at
           /\ o.event.payload = p
           /\ o.pending \in PendingMap
<1> DEFINE seen == Inspected(p, dir, pending, at)
<1>1. seen \in Inspection
  BY InspectedType
<1>2. seen.facts \in AnyFacts /\ seen.pending \in PendingMap
  BY <1>1 DEF Inspection
<1>3. ClassifyKind(p, seen.facts) \in Kinds
  <2> HIDE DEF seen
  <2>1. \A facts : ClassifyKind(p, facts) \in Kinds
    BY DEF ClassifyKind, Kinds
  <2> QED
    BY <2>1
<1>4. p.tokens \in Nat
  BY DEF AnyPayload
<1> HIDE DEF seen
<1> QED
  BY <1>2, <1>3, <1>4 DEF ObservePayloadAt, AnyEvent, seen

(* What is known at the start of a payload, and after some of its items.    *)
Start(map) == [facts |-> NoFacts, pending |-> map]

After(dir, at, map, s) == Items!Fold(<<dir, at>>, Start(map), s)

LEMMA StartType ==
    ASSUME NEW map \in PendingMap
    PROVE  Start(map) \in Inspection
  BY NoFactsType DEF Start, Inspection

LEMMA AfterType ==
    ASSUME NEW dir, NEW at \in Nat, NEW map \in PendingMap
    PROVE  \A s \in Seq(AnyItem) : After(dir, at, map, s) \in Inspection
<1>1. \A seen \in Inspection, item \in AnyItem :
         InspectStep(<<dir, at>>, seen, item) \in Inspection
  BY InspectType DEF InspectStep
<1> QED
  BY <1>1, StartType, Items!FoldType DEF After

LEMMA AfterEmpty ==
    ASSUME NEW dir, NEW at, NEW map
    PROVE  After(dir, at, map, <<>>) = Start(map)
  BY Items!FoldEmpty DEF After

LEMMA AfterAppend ==
    ASSUME NEW dir, NEW at, NEW map, NEW s \in Seq(AnyItem), NEW item \in AnyItem
    PROVE  After(dir, at, map, Append(s, item))
              = InspectValue(After(dir, at, map, s), item, dir, at)
<1>1. After(dir, at, map, Append(s, item))
         = InspectStep(<<dir, at>>, After(dir, at, map, s), item)
  BY Items!FoldAppend DEF After
<1> QED
  BY <1>1 DEF InspectStep

LEMMA InspectedAfter ==
    ASSUME NEW p \in AnyPayload, NEW dir, NEW at, NEW map
    PROVE  /\ p.json => Inspected(p, dir, map, at) = After(dir, at, map, p.items)
           /\ ~p.json => Inspected(p, dir, map, at) = [Start(map) EXCEPT !.facts.ok = FALSE]
<1>1. CASE p.json = TRUE
  BY <1>1, InspectedFolds DEF After, Start
<1>2. CASE p.json = FALSE
  BY <1>2 DEF Inspected, Start
<1>3. p.json \in BOOLEAN
  BY DEF AnyPayload
<1> QED
  BY <1>1, <1>2, <1>3

(***************************************************************************)
(* The parser, over any set B of bytes that has the newline.  KeepsOK is    *)
(* KeepsWithinLimit of SseStream for one parser.                           *)
(***************************************************************************)
AnyParser(B) ==
    [line : Seq(B), data : Seq(Seq(B)), bytes : Nat, overflowed : BOOLEAN,
     events : Seq(Seq(B))]

KeepsOK(p) ==
    /\ Len(Joined(p.data)) = p.bytes
    /\ p.bytes <= MaxEventBytes
    /\ p.overflowed => p.data = <<>>

GoodParser(B) == {p \in AnyParser(B) : KeepsOK(p)}

TakeByteStep(q, p, byte) == TakeByte(p, byte)

BytesOf == INSTANCE SequenceLemmas WITH op <- TakeByteStep

(* The lines of an event with a newline before all but the first.          *)
Separated(lines) ==
    [i \in DOMAIN lines |-> IF i = 1 THEN lines[i] ELSE <<LF>> \o lines[i]]

LEMMA SeparatedType ==
    ASSUME NEW B, LF \in B, NEW d \in Seq(Seq(B))
    PROVE  Separated(d) \in Seq(Seq(B))
<1>1. /\ Len(d) \in Nat /\ DOMAIN d = 1..Len(d)
      /\ \A i \in 1..Len(d) : d[i] \in Seq(B)
  BY LenProperties, ElementOfSeq
<1>2. <<LF>> \in Seq(B)
  OBVIOUS
<1>3. \A i \in 1..Len(d) : (IF i = 1 THEN d[i] ELSE <<LF>> \o d[i]) \in Seq(B)
  BY <1>1, <1>2, ConcatProperties
<1> QED
  BY <1>1, <1>3, IsASeq DEF Separated

LEMMA SeparatedAppend ==
    ASSUME NEW B, LF \in B, NEW d \in Seq(Seq(B)), NEW v \in Seq(B)
    PROVE  Separated(Append(d, v))
              = Append(Separated(d), IF d = <<>> THEN v ELSE Cat(<<LF>>, v))
<1>1. PICK n \in Nat : n = Len(d) /\ DOMAIN d = 1..n
  BY LenProperties
<1>2. PICK w \in Seq(B) : w = IF d = <<>> THEN v ELSE Cat(<<LF>>, v)
  <2>1. Cat(<<LF>>, v) \in Seq(B)
    BY AppendIsCat, CatClosed
  <2> QED
    BY <2>1
<1>3. PICK t \in Seq(Seq(B)) : /\ t = Append(d, v) /\ Len(t) = n + 1
                               /\ DOMAIN t = 1..(n + 1) /\ t[n + 1] = v
                               /\ \A i \in 1..n : t[i] = d[i]
  <2>1. PICK S : S = Seq(B)
    OBVIOUS
  <2>2. /\ Append(d, v) \in Seq(S) /\ Len(Append(d, v)) = n + 1
        /\ Append(d, v)[n + 1] = v /\ \A i \in 1..n : Append(d, v)[i] = d[i]
    BY <1>1, <2>1, AppendProperties
  <2>3. DOMAIN Append(d, v) = 1..(n + 1)
    BY <2>2, LenProperties
  <2> QED
    BY <2>1, <2>2, <2>3
<1>4. /\ Separated(d) \in Seq(Seq(B)) /\ Separated(t) \in Seq(Seq(B))
      /\ Len(Separated(d)) = n /\ Len(Separated(t)) = n + 1
  <2>1. DOMAIN Separated(d) = 1..n /\ DOMAIN Separated(t) = 1..(n + 1)
    BY <1>1, <1>3 DEF Separated
  <2> QED
    BY <1>1, <2>1, SeparatedType, LenProperties
<1>5. PICK s \in Seq(Seq(B)) : s = Separated(d) /\ Len(s) = n
  BY <1>4
<1>6. /\ Append(s, w) \in Seq(Seq(B)) /\ Len(Append(s, w)) = n + 1
      /\ Append(s, w)[n + 1] = w /\ \A i \in 1..n : Append(s, w)[i] = s[i]
  <2>1. PICK S : S = Seq(B)
    OBVIOUS
  <2> QED
    BY <1>5, <2>1, AppendProperties
<1>7. \A i \in 1..(n + 1) : Separated(t)[i] = Append(s, w)[i]
  <2>1. \A i \in 1..n : Separated(t)[i] = s[i]
    BY <1>1, <1>3, <1>5 DEF Separated
  <2>2. Separated(t)[n + 1] = w
    <3>1. d = <<>> <=> n = 0
      BY <1>1, EmptySeq
    <3>2. Separated(t)[n + 1] = IF n + 1 = 1 THEN v ELSE Cat(<<LF>>, v)
      BY <1>3 DEF Separated, Cat
    <3> QED
      BY <1>2, <3>1, <3>2
  <2>3. \A i \in 1..(n + 1) : i \in 1..n \/ i = n + 1
    OBVIOUS
  <2> QED
    BY <1>6, <2>1, <2>2, <2>3
<1>8. Separated(t) = Append(s, w)
  <2>1. PICK S : S = Seq(B)
    OBVIOUS
  <2> QED
    BY <1>4, <1>6, <1>7, <2>1, SeqEqual
<1> QED
  BY <1>2, <1>3, <1>5, <1>8

LEMMA JoinedType ==
    ASSUME NEW B, LF \in B, NEW d \in Seq(Seq(B))
    PROVE  Joined(d) \in Seq(B)
<1>1. Joined(d) = FlattenSeq(Separated(d))
  BY DEF Joined, Separated
<1> QED
  BY <1>1, SeparatedType, FlattenType

LEMMA JoinedEmpty == Joined(<<>>) = <<>>
<1>1. Separated(<<>>) = <<>>
  BY DEF Separated
<1>2. Joined(<<>>) = FlattenSeq(Separated(<<>>))
  BY DEF Joined, Separated
<1> QED
  BY <1>1, <1>2, FlattenEmpty

LEMMA JoinedLen ==
    ASSUME NEW B, LF \in B, NEW d \in Seq(Seq(B)), NEW v \in Seq(B)
    PROVE  Len(Joined(Append(d, v)))
              = Len(Joined(d)) + (IF d = <<>> THEN 0 ELSE 1) + Len(v)
<1>1. PICK w \in Seq(B) : /\ w = IF d = <<>> THEN v ELSE Cat(<<LF>>, v)
                          /\ Len(w) = (IF d = <<>> THEN 0 ELSE 1) + Len(v)
  <2>1. PICK l \in Seq(B) : l = <<LF>> /\ Len(l) = 1
    <3>1. <<LF>> \in Seq(B)
      OBVIOUS
    <3>2. Len(<<LF>>) = 1
      OBVIOUS
    <3> QED
      BY <3>1, <3>2
  <2>2. Cat(l, v) \in Seq(B) /\ Len(Cat(l, v)) = 1 + Len(v)
    BY <2>1, ConcatProperties DEF Cat
  <2> QED
    BY <2>1, <2>2
<1>2. PICK s \in Seq(Seq(B)) : s = Separated(d)
  BY SeparatedType
<1>3. FlattenSeq(Append(s, w)) = Cat(FlattenSeq(s), w)
  BY FlattenAppend
<1>4. Joined(Append(d, v)) = FlattenSeq(Append(s, w)) /\ Joined(d) = FlattenSeq(s)
  <2>1. Joined(Append(d, v)) = FlattenSeq(Separated(Append(d, v)))
    BY DEF Joined, Separated
  <2>2. Joined(d) = FlattenSeq(Separated(d))
    BY DEF Joined, Separated
  <2> QED
    BY <1>1, <1>2, <2>1, <2>2, SeparatedAppend
<1>5. PICK j \in Seq(B) : j = FlattenSeq(s)
  BY FlattenType
<1>6. Len(Cat(j, w)) = Len(j) + Len(w)
  BY ConcatProperties DEF Cat
<1>7. Len(j) \in Nat /\ Len(v) \in Nat
  BY LenProperties
<1> QED
  BY <1>1, <1>3, <1>4, <1>5, <1>6, <1>7

LEMMA TrimCrType ==
    ASSUME NEW B, NEW line \in Seq(B)
    PROVE  TrimCr(line) \in Seq(B)
<1>1. line # <<>> => Front(line) \in Seq(B)
  BY LenProperties, ElementOfSeq, SubSeqProperties DEF Front
<1> QED
  BY <1>1 DEF TrimCr

LEMMA ValueType ==
    ASSUME NEW B, NEW line \in Seq(B)
    PROVE  Value(line) \in Seq(B)
<1> DEFINE rest == IF Colons(line) = {} THEN <<>>
                   ELSE SubSeq(line, Min(Colons(line)) + 1, Len(line))
<1>1. rest \in Seq(B)
  <2>1. CASE Colons(line) = {}
    BY <2>1, EmptySeq
  <2>2. CASE Colons(line) # {}
    <3>1. Colons(line) \subseteq 1..Len(line) /\ Len(line) \in Nat
      BY LenProperties DEF Colons
    <3>2. PICK m \in Colons(line) : \A k \in Colons(line) : m <= k
      <4>1. Colons(line) \subseteq Nat
        BY <3>1
      <4> QED
        BY <2>2, <4>1, LeastNatural
    <3>3. Min(Colons(line)) \in Colons(line)
      BY <3>2 DEF Min
    <3>4. PICK k \in 1..Len(line) : k = Min(Colons(line))
      BY <3>1, <3>3
    <3>5. SubSeq(line, k + 1, Len(line)) \in Seq(B)
      BY <3>1, ElementOfSeq, SubSeqProperties
    <3> QED
      BY <2>2, <3>4, <3>5
  <2> QED
    BY <2>1, <2>2
<1>2. rest # <<>> => Tail(rest) \in Seq(B)
  BY <1>1, HeadTailProperties
<1>3. Value(line) = IF rest # <<>> /\ Head(rest) = Space THEN Tail(rest) ELSE rest
  BY DEF Value
<1> QED
  BY <1>1, <1>2, <1>3

LEMMA NewParserGood ==
    ASSUME NEW B
    PROVE  NewParser \in GoodParser(B)
<1>1. <<>> \in Seq(B) /\ <<>> \in Seq(Seq(B)) /\ Len(<<>>) = 0
  BY EmptySeq
<1> QED
  BY <1>1, JoinedEmpty, SseParserAssumption
  DEF NewParser, GoodParser, AnyParser, KeepsOK

(* What the parser returns and the line it is in do not matter to what it  *)
(* keeps.                                                                  *)
LEMMA LineGood ==
    ASSUME NEW B, NEW p \in GoodParser(B), NEW l \in Seq(B)
    PROVE  [p EXCEPT !.line = l] \in GoodParser(B)
  BY DEF GoodParser, AnyParser, KeepsOK

LEMMA EventsGood ==
    ASSUME NEW B, NEW p \in GoodParser(B), NEW es \in Seq(Seq(B))
    PROVE  [p EXCEPT !.events = es] \in GoodParser(B)
  BY DEF GoodParser, AnyParser, KeepsOK

LEMMA NoData ==
    ASSUME NEW B
    PROVE  \E d \in Seq(Seq(B)), n \in Nat :
              d = <<>> /\ n = 0 /\ Len(Joined(d)) = n /\ n <= MaxEventBytes
<1>1. <<>> \in Seq(Seq(B)) /\ Len(Joined(<<>>)) = 0 /\ 0 <= MaxEventBytes
  BY EmptySeq, JoinedEmpty, SseParserAssumption
<1> WITNESS <<>> \in Seq(Seq(B)), 0 \in Nat
<1> QED
  BY <1>1

LEMMA ResetGood ==
    ASSUME NEW B, NEW p \in GoodParser(B)
    PROVE  ResetEvent(p) \in GoodParser(B)
<1>1. PICK d \in Seq(Seq(B)), n \in Nat :
         d = <<>> /\ n = 0 /\ Len(Joined(d)) = n /\ n <= MaxEventBytes
  BY NoData
<1>2. [p EXCEPT !.data = d, !.bytes = n, !.overflowed = FALSE] \in GoodParser(B)
  BY <1>1 DEF GoodParser, AnyParser, KeepsOK
<1> QED
  BY <1>1, <1>2 DEF ResetEvent

LEMMA DispatchGood ==
    ASSUME NEW B, LF \in B, NEW p \in GoodParser(B)
    PROVE  Dispatch(p) \in GoodParser(B)
<1>1. Joined(p.data) \in Seq(B)
  BY JoinedType DEF GoodParser, AnyParser
<1>2. Append(p.events, Joined(p.data)) \in Seq(Seq(B))
  BY <1>1, AppendProperties DEF GoodParser, AnyParser
<1>3. [p EXCEPT !.events = Append(@, Joined(p.data))] \in GoodParser(B)
  BY <1>2, EventsGood
<1> QED
  BY <1>3, ResetGood DEF Dispatch

(* A value that fits makes the event longer by itself and its newline.     *)
LEMMA AddDataGood ==
    ASSUME NEW B, LF \in B, NEW p \in GoodParser(B), NEW v \in Seq(B)
    PROVE  AddData(p, v) \in GoodParser(B)
<1>1. p \in AnyParser(B) /\ KeepsOK(p) /\ p.data \in Seq(Seq(B)) /\ p.bytes \in Nat
  BY DEF GoodParser, AnyParser
<1>2. CASE NextSize(p, v) > MaxEventBytes
  <2>1. PICK d \in Seq(Seq(B)), n \in Nat :
           d = <<>> /\ n = 0 /\ Len(Joined(d)) = n /\ n <= MaxEventBytes
    BY NoData
  <2>2. [p EXCEPT !.overflowed = TRUE, !.data = d, !.bytes = n] \in GoodParser(B)
    BY <1>1, <2>1 DEF GoodParser, AnyParser, KeepsOK
  <2> QED
    BY <1>2, <2>1, <2>2 DEF AddData
<1>3. CASE ~(NextSize(p, v) > MaxEventBytes) /\ p.overflowed
  BY <1>3 DEF AddData
<1>4. CASE ~(NextSize(p, v) > MaxEventBytes) /\ ~p.overflowed
  <2>1. PICK d \in Seq(Seq(B)) : d = Append(p.data, v)
    BY <1>1, AppendProperties
  <2>2. PICK n \in Nat : n = NextSize(p, v)
    BY <1>1, LenProperties DEF NextSize
  <2>3. Len(Joined(d)) = n
    BY <1>1, <2>1, <2>2, JoinedLen DEF NextSize, KeepsOK
  <2>4. n <= MaxEventBytes
    BY <1>4, <2>2, SseParserAssumption
  <2>5. [p EXCEPT !.data = d, !.bytes = n] \in GoodParser(B)
    BY <1>1, <1>4, <2>3, <2>4 DEF GoodParser, AnyParser, KeepsOK
  <2> QED
    BY <1>4, <2>1, <2>2, <2>5 DEF AddData
<1> QED
  BY <1>2, <1>3, <1>4

LEMMA ProcessLineGood ==
    ASSUME NEW B, LF \in B, NEW p \in GoodParser(B), NEW line \in Seq(B)
    PROVE  ProcessLine(p, line) \in GoodParser(B)
  BY DispatchGood, AddDataGood, ValueType DEF ProcessLine

LEMMA TakeByteGood ==
    ASSUME NEW B, LF \in B, NEW p \in GoodParser(B), NEW byte \in B
    PROVE  TakeByte(p, byte) \in GoodParser(B)
<1>1. p.line \in Seq(B)
  BY DEF GoodParser, AnyParser
<1>2. [p EXCEPT !.line = <<>>] \in GoodParser(B)
  BY LineGood, EmptySeq
<1>3. ProcessLine([p EXCEPT !.line = <<>>], TrimCr(p.line)) \in GoodParser(B)
  BY <1>1, <1>2, TrimCrType, ProcessLineGood
<1>4. Append(p.line, byte) \in Seq(B)
  BY <1>1, AppendProperties
<1>5. [p EXCEPT !.line = Append(@, byte)] \in GoodParser(B)
  BY <1>4, LineGood
<1> QED
  BY <1>3, <1>5 DEF TakeByte

LEMMA PushGood ==
    ASSUME NEW B, LF \in B, NEW p \in GoodParser(B), NEW chunk \in Seq(B)
    PROVE  Push(p, chunk) \in GoodParser(B)
<1> DEFINE start == [p EXCEPT !.events = <<>>]
<1>1. start \in GoodParser(B)
  BY EventsGood, EmptySeq
<1>2. Push(p, chunk) = BytesOf!Fold(0, start, chunk)
  BY DEF Push, TakeByteStep, BytesOf!Fold, FoldLeft, BytesOf!FoldLeft,
         MapThenFoldSet, BytesOf!MapThenFoldSet, Max, BytesOf!Max
<1>3. \A q \in GoodParser(B), byte \in B : TakeByteStep(0, q, byte) \in GoodParser(B)
  BY TakeByteGood DEF TakeByteStep
<1> HIDE DEF start
<1>4. \A s \in Seq(B) : BytesOf!Fold(0, start, s) \in GoodParser(B)
  BY <1>1, <1>3, BytesOf!FoldType
<1> QED
  BY <1>2, <1>4

LEMMA FinishGood ==
    ASSUME NEW B, LF \in B, NEW p \in GoodParser(B)
    PROVE  Finish(p) \in GoodParser(B)
<1> DEFINE q == [p EXCEPT !.events = <<>>, !.line = <<>>]
<1>1. q \in GoodParser(B)
  <2>1. [p EXCEPT !.events = <<>>] \in GoodParser(B)
    BY EventsGood, EmptySeq
  <2>2. PICK r \in GoodParser(B) : r = [p EXCEPT !.events = <<>>]
    BY <2>1
  <2>3. [r EXCEPT !.line = <<>>] \in GoodParser(B)
    BY LineGood, EmptySeq
  <2>4. q = [r EXCEPT !.line = <<>>]
    BY <2>2 DEF GoodParser, AnyParser
  <2> QED
    BY <2>3, <2>4
<1>2. TrimCr(p.line) \in Seq(B)
  BY TrimCrType DEF GoodParser, AnyParser
<1>3. ProcessLine(q, TrimCr(p.line)) \in GoodParser(B)
  BY <1>1, <1>2, ProcessLineGood
<1>4. Finish(p) = Dispatch(IF p.line = <<>> THEN q ELSE ProcessLine(q, TrimCr(p.line)))
  BY DEF Finish
<1> HIDE DEF q
<1> QED
  BY <1>1, <1>3, <1>4, DispatchGood

(***************************************************************************)
(* The parser against the events of a stream.                              *)
(***************************************************************************)
(* The places of a set in their order, when a later one is added.          *)
Below(S, e) == Cardinality({d \in S : d < e})

AtRank(S, i) == CHOOSE e \in S : Below(S, e) = i - 1

LEMMA BelowAll ==
    ASSUME NEW n \in Nat, NEW S, S \subseteq 1..n
    PROVE  /\ IsFiniteSet(S) /\ Cardinality(S) \in Nat
           /\ Cardinality(S \cup {n + 1}) = Cardinality(S) + 1
           /\ Below(S \cup {n + 1}, n + 1) = Cardinality(S)
           /\ \A e \in S : /\ Below(S \cup {n + 1}, e) = Below(S, e)
                           /\ Below(S, e) \in Nat /\ Below(S, e) < Cardinality(S)
<1>1. IsFiniteSet(S) /\ Cardinality(S) \in Nat
  <2>1. IsFiniteSet(1..n)
    BY FS_Interval
  <2> QED
    BY <2>1, FS_Subset, FS_CardinalityType
<1>2. n + 1 \notin S /\ \A d \in S : d \in Nat /\ d < n + 1
  OBVIOUS
<1>3. Cardinality(S \cup {n + 1}) = Cardinality(S) + 1
  BY <1>1, <1>2, FS_AddElement
<1>4. {d \in S \cup {n + 1} : d < n + 1} = S
  <2>1. ~(n + 1 < n + 1)
    OBVIOUS
  <2> QED
    BY <1>2, <2>1, Zenon
<1>5. ASSUME NEW e \in S
      PROVE  /\ Below(S \cup {n + 1}, e) = Below(S, e)
             /\ Below(S, e) \in Nat /\ Below(S, e) < Cardinality(S)
  <2>1. {d \in S \cup {n + 1} : d < e} = {d \in S : d < e}
    <3>1. ~(n + 1 < e)
      BY <1>2
    <3> QED
      BY <3>1, Zenon
  <2>2. PICK D : D = {d \in S : d < e} /\ D \subseteq S /\ e \notin D
    <3>1. ~(e < e)
      BY <1>2
    <3>2. {d \in S : d < e} \subseteq S /\ e \notin {d \in S : d < e}
      BY <3>1, Zenon
    <3> QED
      BY <3>2, Zenon
  <2>3. IsFiniteSet(D) /\ Cardinality(D) <= Cardinality(S)
        /\ (Cardinality(D) = Cardinality(S) => D = S)
    BY <1>1, <2>2, FS_Subset
  <2>4. Cardinality(D) \in Nat /\ Cardinality(D) # Cardinality(S)
    BY <2>2, <2>3, FS_CardinalityType
  <2>5. Cardinality(D) < Cardinality(S)
    BY <1>1, <2>3, <2>4
  <2> QED
    BY <2>1, <2>2, <2>4, <2>5 DEF Below
<1> QED
  BY <1>1, <1>3, <1>4, <1>5 DEF Below

LEMMA InOrderAdds ==
    ASSUME NEW n \in Nat, NEW S, S \subseteq 1..n, NEW T, InOrder(S) \in Seq(T), n + 1 \in T
    PROVE  InOrder(S \cup {n + 1}) = Append(InOrder(S), n + 1)
<1>1. PICK U : U = S \cup {n + 1}
  OBVIOUS
<1>2. PICK k \in Nat : k = Cardinality(S) /\ Cardinality(U) = k + 1
  BY <1>1, BelowAll, Zenon
<1>0. /\ Below(U, n + 1) = k /\ n + 1 \notin S
      /\ \A e \in S : Below(U, e) = Below(S, e) /\ Below(S, e) \in Nat /\ Below(S, e) < k
  <2>1. n + 1 \notin S
    OBVIOUS
  <2> QED
    BY <1>1, <1>2, <2>1, BelowAll, Zenon
<1>3. /\ \A i : AtRank(U, i) = CHOOSE e : e \in U /\ Below(U, e) = i - 1
      /\ \A i : AtRank(S, i) = CHOOSE e : e \in S /\ Below(S, e) = i - 1
  BY DEF AtRank
<1>4. ASSUME NEW i \in 1..k PROVE AtRank(U, i) = AtRank(S, i)
  <2>1. \A e : (e \in U /\ Below(U, e) = i - 1) <=> (e \in S /\ Below(S, e) = i - 1)
    <3> TAKE e
    <3>1. CASE e = n + 1
      <4>1. Below(U, e) = k /\ e \notin S
        BY <1>0, <3>1
      <4> QED
        BY <4>1
    <3>2. CASE e # n + 1
      BY <1>0, <1>1, <3>2, Zenon
    <3> QED
      BY <3>1, <3>2
  <2> QED
    BY <2>1 DEF AtRank
<1>5. AtRank(U, k + 1) = n + 1
  <2>1. ASSUME NEW e PROVE (e \in U /\ Below(U, e) = k) <=> e = n + 1
    <3>1. CASE e = n + 1
      BY <1>0, <1>1, <3>1, Zenon
    <3>2. CASE e \in S
      <4>1. Below(U, e) < k /\ Below(U, e) \in Nat /\ e # n + 1
        BY <1>0, <3>2
      <4> QED
        BY <4>1
    <3> QED
      BY <1>1, <3>1, <3>2
  <2>2. (k + 1) - 1 = k
    OBVIOUS
  <2> QED
    BY <2>1, <2>2 DEF AtRank
<1>6. InOrder(S) = [i \in 1..k |-> AtRank(S, i)] /\ InOrder(U) = [i \in 1..(k + 1) |-> AtRank(U, i)]
  BY <1>2 DEF InOrder, AtRank, Below
<1>7. PICK s \in Seq(T) : s = InOrder(S) /\ Len(s) = k /\ \A i \in 1..k : s[i] = AtRank(S, i)
  BY <1>6
<1>8. PICK t \in Seq(T) : t = Append(s, n + 1) /\ Len(t) = k + 1 /\ t[k + 1] = n + 1
                          /\ \A i \in 1..k : t[i] = s[i]
  <2>1. /\ Append(s, n + 1) \in Seq(T) /\ Len(Append(s, n + 1)) = k + 1
        /\ Append(s, n + 1)[k + 1] = n + 1 /\ \A i \in 1..k : Append(s, n + 1)[i] = s[i]
    BY <1>7, AppendProperties
  <2> QED
    BY <2>1
<1>9. \A i \in 1..(k + 1) : t[i] = AtRank(U, i)
  <2> TAKE i \in 1..(k + 1)
  <2>1. i \in 1..k \/ i = k + 1
    OBVIOUS
  <2> QED
    BY <1>4, <1>5, <1>7, <1>8, <2>1
<1>10. t = [i \in 1..(k + 1) |-> AtRank(U, i)]
  <2>1. t = [i \in 1..(k + 1) |-> t[i]]
    BY <1>8, LenProperties
  <2> QED
    BY <1>9, <2>1
<1> QED
  BY <1>1, <1>6, <1>7, <1>8, <1>10

LEMMA InOrderEmpty == InOrder({}) = <<>>
<1>1. Cardinality({}) = 0 /\ 1..0 = {}
  BY FS_EmptySet
<1> QED
  BY <1>1 DEF InOrder

LEMMA InOrderType ==
    ASSUME NEW n \in Nat, NEW S, S \subseteq 1..n
    PROVE  InOrder(S) \in Seq(S)
<1> DEFINE Bad == {k \in Nat : \E R \in SUBSET (1..k) : InOrder(R) \notin Seq(R)}
<1> SUFFICES ASSUME Bad # {} PROVE FALSE
  BY Zenon
<1>1. PICK k \in Bad : \A m \in Bad : k <= m
  <2>1. Bad \subseteq Nat
    BY Zenon
  <2> HIDE DEF Bad
  <2> QED
    BY <2>1, LeastNatural
<1>2. PICK R \in SUBSET (1..k) : InOrder(R) \notin Seq(R)
  BY <1>1, Zenon
<1>3. k # 0
  <2>1. SUFFICES ASSUME k = 0 PROVE FALSE
    OBVIOUS
  <2>2. R = {}
    BY <2>1
  <2> QED
    BY <1>2, <2>2, InOrderEmpty, EmptySeq
<1>4. PICK m \in Nat : k = m + 1 /\ m \notin Bad
  <2>1. k \in Nat /\ k - 1 \in Nat /\ k = (k - 1) + 1 /\ ~(k <= k - 1)
    BY <1>1, <1>3
  <2>2. k - 1 \notin Bad
    BY <1>1, <2>1
  <2> QED
    BY <2>1, <2>2
<1>5. \A Q \in SUBSET (1..m) : InOrder(Q) \in Seq(Q)
  BY <1>4, Zenon
<1> HIDE DEF Bad
<1>6. CASE k \notin R
  <2>1. R \in SUBSET (1..m)
    BY <1>4, <1>6
  <2> QED
    BY <1>2, <1>5, <2>1
<1>7. CASE k \in R
  <2>1. PICK Q \in SUBSET (1..m) : R = Q \cup {m + 1}
    <3>1. R \ {k} \in SUBSET (1..m) /\ R = (R \ {k}) \cup {m + 1}
      BY <1>4, <1>7
    <3> QED
      BY <3>1
  <2>2. InOrder(Q) \in Seq(R)
    <3>1. Q \subseteq R /\ InOrder(Q) \in Seq(Q)
      BY <1>5, <2>1
    <3> QED
      BY <3>1, SeqMonotonic
  <2>3. Q \subseteq 1..m /\ m + 1 \in R
    BY <2>1
  <2>4. InOrder(R) = Append(InOrder(Q), m + 1)
    BY <2>1, <2>2, <2>3, InOrderAdds
  <2> QED
    BY <1>2, <2>2, <2>3, <2>4, AppendProperties
<1> QED
  BY <1>6, <1>7

(* What g has for the places of S, in their order.                         *)
Picked(g, S) == Images(g, InOrder(S))

LEMMA PickedNone ==
    ASSUME NEW g
    PROVE  Picked(g, {}) = <<>>
  BY InOrderEmpty DEF Picked, Images

(* The values are of T, and there is one for each place.                   *)
PicksAll(g, S, T) ==
    /\ Picked(g, S) \in Seq(T)
    /\ Len(Picked(g, S)) = Len(InOrder(S))
    /\ \A k \in 1..Len(InOrder(S)) : Picked(g, S)[k] = g[InOrder(S)[k]]
    /\ Picked(g, S) = <<>> => S = {}

LEMMA PickedType ==
    ASSUME NEW n \in Nat, NEW T, NEW I, I = 1..n, NEW g \in [I -> T], NEW S \in SUBSET I
    PROVE  PicksAll(g, S, T)
<1>1. PICK s \in Seq(I), m \in Nat : s = InOrder(S) /\ m = Len(s) /\ DOMAIN s = 1..m
  <2>1. InOrder(S) \in Seq(I)
    BY InOrderType, SeqMonotonic
  <2> QED
    BY <2>1, LenProperties
<1>2. \A k \in 1..m : s[k] \in I
  BY <1>1, ElementOfSeq
<1>3. \A k \in 1..m : g[s[k]] \in T
  BY <1>2
<1>4. Images(g, s) = [k \in 1..m |-> g[s[k]]]
  BY <1>1 DEF Images
<1>5. Images(g, s) \in Seq(T)
  BY <1>3, <1>4, IsASeq
<1>6. Len(Images(g, s)) = m /\ \A k \in 1..m : Images(g, s)[k] = g[s[k]]
  BY <1>1, <1>4, <1>5, LenProperties
<1>7. Cardinality(S) \in Nat /\ IsFiniteSet(S)
  BY BelowAll
<1>8. m = Cardinality(S)
  <2>1. DOMAIN s = 1..Cardinality(S)
    BY <1>1 DEF InOrder
  <2> QED
    BY <1>1, <1>7, <2>1, LenProperties
<1>9. Images(g, s) = <<>> => S = {}
  <2>1. Images(g, s) = <<>> => m = 0
    BY <1>6
  <2> QED
    BY <1>7, <1>8, <2>1, FS_EmptySet
<1> QED
  BY <1>1, <1>5, <1>6, <1>9 DEF Picked, PicksAll

(* h goes on from g with one place more.                                   *)
PicksOn(g, h, S, k) ==
    /\ Picked(h, S) = Picked(g, S)
    /\ Picked(h, S \cup {k}) = Append(Picked(g, S), h[k])

LEMMA PickedGrows ==
    ASSUME NEW n \in Nat, NEW T, NEW I, I = 1..n, NEW J, J = 1..(n + 1),
           NEW g \in [I -> T], NEW h \in [J -> T],
           \A e \in I : h[e] = g[e], NEW S \in SUBSET I
    PROVE  PicksOn(g, h, S, n + 1)
<1>1. I \subseteq J /\ n + 1 \in J /\ S \subseteq 1..n
  OBVIOUS
<1>2. PICK s \in Seq(I), m \in Nat : /\ s = InOrder(S) /\ m = Len(s) /\ DOMAIN s = 1..m
                                     /\ \A k \in 1..m : s[k] \in I
  <2>1. InOrder(S) \in Seq(I)
    BY InOrderType, SeqMonotonic
  <2> QED
    BY <2>1, LenProperties, ElementOfSeq
<1>3. PICK t \in Seq(J) : /\ t = InOrder(S \cup {n + 1}) /\ Len(t) = m + 1
                          /\ t[m + 1] = n + 1 /\ \A k \in 1..m : t[k] = s[k]
  <2>1. s \in Seq(J)
    BY <1>1, SeqMonotonic
  <2>2. InOrder(S \cup {n + 1}) = Append(s, n + 1)
    BY <1>1, <1>2, <2>1, InOrderAdds
  <2>3. /\ Append(s, n + 1) \in Seq(J) /\ Len(Append(s, n + 1)) = m + 1
        /\ Append(s, n + 1)[m + 1] = n + 1 /\ \A k \in 1..m : Append(s, n + 1)[k] = s[k]
    BY <1>1, <1>2, <2>1, AppendProperties
  <2> QED
    BY <2>2, <2>3
<1>4. PICK x \in Seq(T) : /\ x = Picked(g, S) /\ Len(x) = m
                          /\ \A k \in 1..m : x[k] = g[s[k]]
  <2>1. PicksAll(g, S, T)
    BY PickedType
  <2> QED
    BY <1>2, <2>1 DEF PicksAll
<1>5. PICK y \in Seq(T) : /\ y = Picked(h, S \cup {n + 1}) /\ Len(y) = m + 1
                          /\ \A k \in 1..(m + 1) : y[k] = h[t[k]]
  <2>1. S \cup {n + 1} \in SUBSET J /\ n + 1 \in Nat
    BY <1>1
  <2>2. PicksAll(h, S \cup {n + 1}, T)
    BY <2>1, PickedType
  <2> QED
    BY <1>3, <2>2 DEF PicksAll
<1>6. Picked(h, S) = x
  <2>1. \A k \in DOMAIN s : h[s[k]] = g[s[k]]
    BY <1>2
  <2> QED
    BY <1>2, <1>4, <2>1 DEF Picked, Images
<1>7. PICK v \in T : v = h[n + 1]
  BY <1>1
<1>8. /\ Append(x, v) \in Seq(T) /\ Len(Append(x, v)) = m + 1
      /\ Append(x, v)[m + 1] = v /\ \A k \in 1..m : Append(x, v)[k] = x[k]
  BY <1>4, AppendProperties
<1>9. \A k \in 1..(m + 1) : y[k] = Append(x, v)[k]
  <2>1. \A k \in 1..m : y[k] = x[k]
    <3> TAKE k \in 1..m
    <3>1. k \in 1..(m + 1)
      OBVIOUS
    <3>2. y[k] = h[t[k]] /\ t[k] = s[k] /\ s[k] \in I /\ x[k] = g[s[k]]
      BY <1>2, <1>3, <1>4, <1>5, <3>1
    <3> QED
      BY <3>2
  <2>2. y[m + 1] = v
    <3>1. m + 1 \in 1..(m + 1)
      OBVIOUS
    <3> QED
      BY <1>3, <1>5, <1>7, <3>1
  <2>3. \A k \in 1..(m + 1) : k \in 1..m \/ k = m + 1
    OBVIOUS
  <2> QED
    BY <1>8, <2>1, <2>2, <2>3
<1>10. y = Append(x, v)
  BY <1>5, <1>8, <1>9, SeqEqual
<1> QED
  BY <1>4, <1>5, <1>6, <1>7, <1>10 DEF PicksOn

LEMMA SubSeqOfAppend ==
    ASSUME NEW S, NEW s \in Seq(S), NEW b \in S, NEW a \in 1..(Len(s) + 1)
    PROVE  /\ \A c \in 0..Len(s) : /\ SubSeq(Append(s, b), a, c) = SubSeq(s, a, c)
                                   /\ SubSeq(s, a, c) \in Seq(S)
           /\ SubSeq(Append(s, b), a, Len(s) + 1) = Append(SubSeq(s, a, Len(s)), b)
<1>1. PICK n \in Nat : n = Len(s) /\ \A i \in 1..n : s[i] \in S
  BY LenProperties, ElementOfSeq
<1>2. PICK t \in Seq(S) : /\ t = Append(s, b) /\ Len(t) = n + 1 /\ t[n + 1] = b
                          /\ \A i \in 1..n : t[i] = s[i]
  <2>1. /\ Append(s, b) \in Seq(S) /\ Len(Append(s, b)) = n + 1
        /\ Append(s, b)[n + 1] = b /\ \A i \in 1..n : Append(s, b)[i] = s[i]
    BY <1>1, AppendProperties
  <2> QED
    BY <2>1
<1>3. a \in Int /\ a >= 1 /\ a <= n + 1
  BY <1>1
<1>4. ASSUME NEW c \in 0..n
      PROVE  SubSeq(t, a, c) = SubSeq(s, a, c) /\ SubSeq(s, a, c) \in Seq(S)
  <2>1. \A i \in a..c : i \in 1..n /\ t[i] = s[i]
    BY <1>2, <1>3
  <2>2. SubSeq(s, a, c) \in Seq(S)
    BY <1>1, <1>3, <2>1, SubSeqProperties
  <2>3. SubSeq(t, a, c) = SubSeq(s, a, c)
    BY <1>2, <1>3, <2>1
  <2> QED
    BY <2>2, <2>3
<1>5. SubSeq(t, a, n + 1) = Append(SubSeq(s, a, n), b)
  <2>1. PICK x \in Seq(S) : /\ x = SubSeq(s, a, n) /\ Len(x) = n - a + 1
                            /\ \A i \in 1..(n - a + 1) : x[i] = s[a + i - 1]
    <3>1. \A i \in a..n : s[i] \in S
      BY <1>1, <1>3
    <3>2. /\ SubSeq(s, a, n) \in Seq(S)
          /\ Len(SubSeq(s, a, n)) = IF a <= n THEN n - a + 1 ELSE 0
          /\ \A i \in 1..(n - a + 1) : SubSeq(s, a, n)[i] = s[a + i - 1]
      BY <1>3, <3>1, SubSeqProperties
    <3>3. (IF a <= n THEN n - a + 1 ELSE 0) = n - a + 1
      BY <1>3
    <3> QED
      BY <3>2, <3>3
  <2>2. PICK y \in Seq(S) : /\ y = SubSeq(t, a, n + 1) /\ Len(y) = n - a + 2
                            /\ \A i \in 1..(n - a + 2) : y[i] = t[a + i - 1]
    <3>1. \A i \in a..(n + 1) : t[i] \in S
      BY <1>2, <1>3, ElementOfSeq
    <3>2. /\ SubSeq(t, a, n + 1) \in Seq(S)
          /\ Len(SubSeq(t, a, n + 1)) = IF a <= n + 1 THEN n + 1 - a + 1 ELSE 0
          /\ \A i \in 1..(n + 1 - a + 1) : SubSeq(t, a, n + 1)[i] = t[a + i - 1]
      BY <1>3, <3>1, SubSeqProperties
    <3>3. (IF a <= n + 1 THEN n + 1 - a + 1 ELSE 0) = n - a + 2 /\ n + 1 - a + 1 = n - a + 2
      BY <1>3
    <3> QED
      BY <3>2, <3>3
  <2>3. PICK m \in Nat : m = n - a + 1
    BY <1>3
  <2>4. /\ Append(x, b) \in Seq(S) /\ Len(Append(x, b)) = m + 1
        /\ Append(x, b)[m + 1] = b /\ \A i \in 1..m : Append(x, b)[i] = x[i]
    BY <2>1, <2>3, AppendProperties
  <2>5. \A i \in 1..(m + 1) : y[i] = Append(x, b)[i]
    <3> TAKE i \in 1..(m + 1)
    <3>1. i \in 1..m \/ i = m + 1
      OBVIOUS
    <3>2. CASE i \in 1..m
      <4>1. i \in 1..(n - a + 1) /\ i \in 1..(n - a + 2) /\ a + i - 1 \in 1..n
        BY <1>3, <2>3, <3>2
      <4> QED
        BY <1>2, <2>1, <2>2, <2>4, <3>2, <4>1
    <3>3. CASE i = m + 1
      <4>1. i \in 1..(n - a + 2) /\ a + i - 1 = n + 1
        BY <1>3, <2>3, <3>3
      <4> QED
        BY <1>2, <2>2, <2>4, <3>3, <4>1
    <3> QED
      BY <3>1, <3>2, <3>3
  <2>6. Len(y) = m + 1
    BY <1>3, <2>2, <2>3
  <2>7. y = Append(x, b)
    BY <2>4, <2>5, <2>6, SeqEqual
  <2> QED
    BY <2>1, <2>2, <2>7
<1> QED
  BY <1>1, <1>2, <1>4, <1>5

(* What is open at the end of a stream: the line that has no newline yet,  *)
(* and the data lines of the event that has no blank line yet.             *)
LastEnd(s) == Max({0} \cup Ends(s))

OpenLine(s) == SubSeq(s, LastEnd(s) + 1, Len(s))

OpenLines(s) ==
    {e \in Ends(s) : /\ ~ \E c \in Blanks(s) : e <= c
                     /\ Field(LineAt(s, e)) = <<DataField>>}

LEMMA LastOf ==
    ASSUME NEW n \in Nat, NEW S, S \subseteq 1..n
    PROVE  /\ Max({0} \cup S) \in 0..n
           /\ Max({0} \cup S \cup {n + 1}) = n + 1
<1> DEFINE Top(T, m) == m \in T /\ \A k \in T : k <= m
<1>1. \A T, m : (T \subseteq Nat /\ Top(T, m)) => Max(T) = m
  <2> TAKE T, m
  <2> HAVE T \subseteq Nat /\ Top(T, m)
  <2>1. Top(T, Max(T))
    BY DEF Max
  <2>2. m \in Nat /\ Max(T) \in Nat /\ m <= Max(T) /\ Max(T) <= m
    BY <2>1
  <2> QED
    BY <2>2
<1>2. \E m \in 0..n : Top({0} \cup S, m)
  <2>1. CASE S = {}
    BY <2>1
  <2>2. CASE S # {}
    <3>1. Max(S) \in S /\ \A k \in S : k <= Max(S)
      BY <2>2, MaxOfSet
    <3>2. PICK m \in 0..n : m = Max(S)
      <4>1. \A m \in S : m \in 0..n
        OBVIOUS
      <4> QED
        BY <3>1, <4>1, Zenon
    <3>3. \A k \in {0} \cup S : k <= m
      BY <3>1, <3>2
    <3> QED
      BY <3>1, <3>2, <3>3
  <2> QED
    BY <2>1, <2>2
<1>3. Top({0} \cup S \cup {n + 1}, n + 1)
  OBVIOUS
<1>4. {0} \cup S \subseteq Nat /\ {0} \cup S \cup {n + 1} \subseteq Nat
  OBVIOUS
<1> HIDE DEF Top
<1> QED
  BY <1>1, <1>2, <1>3, <1>4

(* A line is where it was, and as it was, when the stream goes on.         *)
LinesStay(s, t, n) ==
    /\ Ends(s) \subseteq 1..n
    /\ \A e \in 1..n : LineAt(t, e) = LineAt(s, e)
    /\ LineAt(t, n + 1) = TrimCr(OpenLine(s))

Goes(B, s, b, t, n) ==
    /\ LinesStay(s, t, n)
    /\ Ends(t) = IF b = LF THEN Ends(s) \cup {n + 1} ELSE Ends(s)
    /\ OpenLine(t) = IF b = LF THEN <<>> ELSE Append(OpenLine(s), b)
    /\ OpenLine(s) \in Seq(B)
    /\ \A e \in 1..n : LineAt(s, e) \in Seq(B)

LEMMA StreamGrows ==
    ASSUME NEW B, NEW s \in Seq(B), NEW b \in B, NEW n \in Nat, n = Len(s)
    PROVE  Goes(B, s, b, Append(s, b), n)
<1>1. PICK t \in Seq(B) : /\ t = Append(s, b) /\ Len(t) = n + 1 /\ t[n + 1] = b
                          /\ \A i \in 1..n : t[i] = s[i]
  <2>1. /\ Append(s, b) \in Seq(B) /\ Len(Append(s, b)) = n + 1
        /\ Append(s, b)[n + 1] = b /\ \A i \in 1..n : Append(s, b)[i] = s[i]
    BY AppendProperties
  <2> QED
    BY <2>1
<1>2. DOMAIN s = 1..n /\ DOMAIN t = 1..n \cup {n + 1} /\ n + 1 \notin 1..n
  <2>1. DOMAIN s = 1..n /\ DOMAIN t = 1..(n + 1)
    BY <1>1, LenProperties
  <2>2. 1..(n + 1) = 1..n \cup {n + 1} /\ n + 1 \notin 1..n
    OBVIOUS
  <2> QED
    BY <2>1, <2>2
<1>3. Ends(s) \subseteq 1..n
  BY <1>2 DEF Ends
<1>4. Ends(t) = IF b = LF THEN Ends(s) \cup {n + 1} ELSE Ends(s)
  BY <1>1, <1>2, Zenon DEF Ends
<1>5. \A a \in 1..(n + 1), c \in 0..n : SubSeq(t, a, c) = SubSeq(s, a, c) /\ SubSeq(s, a, c) \in Seq(B)
  BY <1>1, SubSeqOfAppend
<1>6. ASSUME NEW e \in 1..n
      PROVE  LineAt(t, e) = LineAt(s, e) /\ LineAt(s, e) \in Seq(B)
  <2>1. {i \in Ends(t) : i < e} = {i \in Ends(s) : i < e}
    <3>1. ~(n + 1 < e)
      OBVIOUS
    <3> QED
      BY <1>4, <3>1, Zenon
  <2>2. PICK m \in 0..n : m = Max({0} \cup {i \in Ends(s) : i < e})
    <3>1. {i \in Ends(s) : i < e} \subseteq 1..n
      BY <1>3
    <3> QED
      BY <3>1, LastOf
  <2>3. m + 1 \in 1..(n + 1) /\ e - 1 \in 0..n
    OBVIOUS
  <2>4. PICK l \in Seq(B) : l = SubSeq(s, m + 1, e - 1) /\ SubSeq(t, m + 1, e - 1) = l
    BY <1>5, <2>3
  <2>5. LineAt(t, e) = TrimCr(l) /\ LineAt(s, e) = TrimCr(l)
    BY <2>1, <2>2, <2>4 DEF LineAt
  <2> QED
    BY <2>5, TrimCrType
<1>7. PICK m \in 0..n : m = LastEnd(s)
  BY <1>3, LastOf DEF LastEnd
<1>8. m + 1 \in 1..(n + 1) /\ n \in 0..n
  OBVIOUS
<1>9. OpenLine(s) = SubSeq(s, m + 1, n) /\ OpenLine(s) \in Seq(B) /\ SubSeq(t, m + 1, n) = SubSeq(s, m + 1, n)
  BY <1>5, <1>7, <1>8 DEF OpenLine
<1>10. LineAt(t, n + 1) = TrimCr(OpenLine(s))
  <2>1. {i \in Ends(t) : i < n + 1} = Ends(s)
    <3>1. ~(n + 1 < n + 1) /\ \A i \in Ends(s) : i < n + 1
      BY <1>3
    <3> QED
      BY <1>4, <3>1, Zenon
  <2>2. (n + 1) - 1 = n
    OBVIOUS
  <2>3. LineAt(t, n + 1) = TrimCr(SubSeq(t, m + 1, n))
    BY <1>7, <2>1, <2>2 DEF LineAt, LastEnd
  <2> QED
    BY <1>9, <2>3
<1>11. OpenLine(t) = IF b = LF THEN <<>> ELSE Append(OpenLine(s), b)
  <2>1. CASE b = LF
    <3>1. LastEnd(t) = n + 1
      <4>1. {0} \cup Ends(t) = {0} \cup Ends(s) \cup {n + 1}
        BY <1>4, <2>1
      <4> QED
        BY <1>3, <4>1, LastOf DEF LastEnd
    <3>2. OpenLine(t) = SubSeq(t, n + 2, n + 1)
      BY <1>1, <3>1 DEF OpenLine
    <3> QED
      BY <2>1, <3>2, SubSeqEmpty
  <2>2. CASE b # LF
    <3>1. LastEnd(t) = m
      BY <1>4, <1>7, <2>2 DEF LastEnd
    <3>2. OpenLine(t) = SubSeq(t, m + 1, n + 1)
      BY <1>1, <3>1 DEF OpenLine
    <3>3. SubSeq(t, m + 1, n + 1) = Append(SubSeq(s, m + 1, n), b)
      <4>1. PICK a \in 1..(Len(s) + 1) : a = m + 1
        BY <1>8
      <4>2. SubSeq(Append(s, b), a, Len(s) + 1) = Append(SubSeq(s, a, Len(s)), b)
        BY SubSeqOfAppend
      <4> QED
        BY <1>1, <4>1, <4>2
    <3> QED
      BY <1>9, <2>2, <3>2, <3>3
  <2> QED
    BY <2>1, <2>2
<1> QED
  <2>1. LinesStay(s, t, n)
    BY <1>3, <1>6, <1>10 DEF LinesStay
  <2>2. \A e \in 1..n : LineAt(s, e) \in Seq(B)
    BY <1>6
  <2>3. Goes(B, s, b, t, n)
    BY <1>4, <1>9, <1>11, <2>1, <2>2 DEF Goes
  <2> QED
    BY <1>1, <2>3

(* The line that ends with the next newline, and what it does to the lines *)
(* that are open.                                                          *)
NextLine(s) == TrimCr(OpenLine(s))

BlanksAfter(s, b) ==
    IF b = LF /\ NextLine(s) = <<>> THEN Blanks(s) \cup {Len(s) + 1} ELSE Blanks(s)

OpenAfter(s, b) ==
    IF b # LF THEN OpenLines(s)
    ELSE IF NextLine(s) = <<>> THEN {}
    ELSE IF Field(NextLine(s)) = <<DataField>> THEN OpenLines(s) \cup {Len(s) + 1}
    ELSE OpenLines(s)

PlacesOK(s, t, b, n) ==
    /\ Blanks(t) = BlanksAfter(s, b)
    /\ \A c \in 1..n : DataLines(t, c) = DataLines(s, c)
    /\ DataLines(t, n + 1) = OpenLines(s)
    /\ OpenLines(t) = OpenAfter(s, b)

LEMMA PlacesStay ==
    ASSUME NEW B, NEW s \in Seq(B), NEW b \in B, NEW n \in Nat, n = Len(s), NEW t,
           t = Append(s, b)
    PROVE  PlacesOK(s, t, b, n)
<1>1. /\ LinesStay(s, t, n)
      /\ Ends(t) = IF b = LF THEN Ends(s) \cup {n + 1} ELSE Ends(s)
  <2>1. Goes(B, s, b, t, n)
    BY StreamGrows
  <2> QED
    BY <2>1 DEF Goes
<1>2. /\ \A e \in Ends(s) : /\ LineAt(t, e) = LineAt(s, e)
                            /\ e < n + 1 /\ e <= n + 1 /\ ~(n + 1 <= e) /\ e # n + 1
      /\ LineAt(t, n + 1) = NextLine(s)
      /\ ~(n + 1 < n + 1) /\ n + 1 <= n + 1
      /\ \A c \in 1..n : ~(n + 1 < c)
  BY <1>1 DEF LinesStay, NextLine
<1>3. Blanks(s) \subseteq Ends(s)
  BY DEF Blanks
<1>4. Blanks(t) = BlanksAfter(s, b)
  <2>1. CASE b = LF
    BY <1>1, <1>2, <2>1, Zenon DEF Blanks, BlanksAfter
  <2>2. CASE b # LF
    BY <1>1, <1>2, <2>2, Zenon DEF Blanks, BlanksAfter
  <2> QED
    BY <2>1, <2>2
<1>5. /\ \A d \in Blanks(t) : d \in Blanks(s) \/ d = n + 1
      /\ Blanks(s) \subseteq Blanks(t)
      /\ \A e \in Ends(t) : e \in Ends(s) \/ e = n + 1
      /\ Ends(s) \subseteq Ends(t)
  BY <1>1, <1>4, Zenon DEF BlanksAfter
<1>6. ASSUME NEW c \in 1..n PROVE DataLines(t, c) = DataLines(s, c)
  <2>1. \A e \in Ends(s) :
           (\E d \in Blanks(t) : e <= d /\ d < c) <=> (\E d \in Blanks(s) : e <= d /\ d < c)
    BY <1>2, <1>5, Zenon
  <2>2. \A e : e \in DataLines(t, c) <=> e \in DataLines(s, c)
    BY <1>2, <1>5, <2>1, Zenon DEF DataLines
  <2>3. DataLines(t, c) \subseteq Ends(t) /\ DataLines(s, c) \subseteq Ends(s)
    BY DEF DataLines
  <2> QED
    BY <2>2, Zenon
<1>7. DataLines(t, n + 1) = OpenLines(s)
  <2>1. \A e \in Ends(s) :
           (\E d \in Blanks(t) : e <= d /\ d < n + 1) <=> (\E d \in Blanks(s) : e <= d)
    BY <1>2, <1>3, <1>5, Zenon
  <2>2. \A e : e \in DataLines(t, n + 1) <=> e \in OpenLines(s)
    BY <1>2, <1>5, <2>1, Zenon DEF DataLines, OpenLines
  <2> QED
    BY <2>2, Zenon
<1>8. CASE b = LF /\ NextLine(s) = <<>>
  <2>1. n + 1 \in Blanks(t)
    BY <1>4, <1>8 DEF BlanksAfter
  <2>2. \A e \in Ends(t) : e <= n + 1
    BY <1>2, <1>5, Zenon
  <2>3. OpenLines(t) = {}
    BY <2>1, <2>2, Zenon DEF OpenLines
  <2> QED
    <3>1. OpenAfter(s, b) = {}
      BY <1>8 DEF OpenAfter
    <3> QED
      BY <1>4, <1>6, <1>7, <2>3, <3>1 DEF PlacesOK
<1>9. CASE ~(b = LF /\ NextLine(s) = <<>>)
  <2>1. Blanks(t) = Blanks(s)
    BY <1>4, <1>9, Zenon DEF BlanksAfter
  <2>2. \A e \in Ends(s) : e \in OpenLines(t) <=> e \in OpenLines(s)
    BY <1>2, <1>5, <2>1, Zenon DEF OpenLines
  <2>3. OpenLines(t) \subseteq Ends(t) /\ OpenLines(s) \subseteq Ends(s)
    BY DEF OpenLines
  <2>4. n + 1 \in OpenLines(t) <=> b = LF /\ Field(NextLine(s)) = <<DataField>>
    <3>1. ~ \E d \in Blanks(t) : n + 1 <= d
      BY <1>2, <1>3, <2>1, Zenon
    <3>2. n + 1 \in Ends(t) <=> b = LF
      BY <1>1, <1>2, Zenon
    <3> QED
      BY <1>2, <3>1, <3>2, Zenon DEF OpenLines
  <2>5. \A e : e \in OpenLines(t) <=> \/ e \in OpenLines(s)
                                      \/ e = n + 1 /\ b = LF /\ Field(NextLine(s)) = <<DataField>>
    BY <1>5, <2>2, <2>3, <2>4, Zenon
  <2>6. OpenLines(t) = OpenAfter(s, b)
    <3>1. CASE b = LF /\ Field(NextLine(s)) = <<DataField>>
      <4>1. OpenLines(t) = OpenLines(s) \cup {n + 1}
        BY <2>5, <3>1, Zenon
      <4> QED
        BY <1>9, <3>1, <4>1, Zenon DEF OpenAfter
    <3>2. CASE ~(b = LF /\ Field(NextLine(s)) = <<DataField>>)
      <4>1. OpenLines(t) = OpenLines(s)
        BY <2>5, <3>2, Zenon
      <4> QED
        BY <1>9, <3>2, <4>1, Zenon DEF OpenAfter
    <3> QED
      BY <3>1, <3>2
  <2> QED
    BY <1>4, <1>6, <1>7, <2>6 DEF PlacesOK
<1> QED
  BY <1>8, <1>9

(* The values of the lines of a stream and its events, by their places.    *)
Values(s) == [e \in 1..Len(s) |-> Value(LineAt(s, e))]

EventsAt(s) == [c \in 1..Len(s) |-> EventAt(s, c)]

OpenValues(s) == Picked(Values(s), OpenLines(s))

KeptPlaces(s) ==
    {c \in Blanks(s) : DataLines(s, c) # {} /\ Len(EventAt(s, c)) <= MaxEventBytes}

LEMMA ValuesType ==
    ASSUME NEW B, NEW s \in Seq(B)
    PROVE  /\ Values(s) \in [1..Len(s) -> Seq(B)]
           /\ OpenLines(s) \subseteq 1..Len(s) /\ Blanks(s) \subseteq 1..Len(s)
           /\ \A c : DataLines(s, c) \subseteq 1..Len(s)
<1>1. Ends(s) \subseteq 1..Len(s)
  BY LenProperties DEF Ends
<1>2. \A e \in 1..Len(s) : LineAt(s, e) \in Seq(B)
  <2>1. CASE s = <<>>
    BY <2>1
  <2>2. CASE s # <<>>
    <3>1. PICK n \in Nat : n = Len(s)
      BY LenProperties
    <3>2. PICK b \in B : b = s[1]
      BY <2>2, ElementOfSeq, LenProperties, EmptySeq
    <3> QED
      BY <3>1, StreamGrows DEF Goes
  <2> QED
    BY <2>1, <2>2
<1>3. \A e \in 1..Len(s) : Value(LineAt(s, e)) \in Seq(B)
  BY <1>2, ValueType
<1> QED
  BY <1>1, <1>3 DEF Values, OpenLines, Blanks, DataLines

LEMMA EventIs ==
    ASSUME NEW B, NEW s \in Seq(B), NEW c
    PROVE  EventAt(s, c) = Joined(Picked(Values(s), DataLines(s, c)))
<1>1. PICK n \in Nat : n = Len(s)
  BY LenProperties
<1>2. PICK lines \in Seq(1..n) : lines = InOrder(DataLines(s, c))
  <2>1. DataLines(s, c) \subseteq 1..n
    BY <1>1, ValuesType
  <2> QED
    BY <2>1, InOrderType, SeqMonotonic
<1>3. \A k \in DOMAIN lines : lines[k] \in 1..n
  BY LenProperties, ElementOfSeq
<1>4. Images(Values(s), lines) = [i \in DOMAIN lines |-> Value(LineAt(s, lines[i]))]
  BY <1>1, <1>3 DEF Images, Values
<1> QED
  BY <1>2, <1>4 DEF EventAt, Picked

LEMMA EventType ==
    ASSUME NEW B, LF \in B, NEW s \in Seq(B)
    PROVE  /\ OpenValues(s) \in Seq(Seq(B))
           /\ OpenValues(s) = <<>> <=> OpenLines(s) = {}
           /\ EventsAt(s) \in [1..Len(s) -> Seq(B)]
<1>1. PICK n \in Nat : n = Len(s)
  BY LenProperties
<1>2. PICK T : T = Seq(B)
  OBVIOUS
<1>3. PICK g \in [1..n -> T] : g = Values(s)
  BY <1>1, <1>2, ValuesType
<1>4. \A S \in SUBSET (1..n) : Picked(g, S) \in Seq(T) /\ (Picked(g, S) = <<>> => S = {})
  <2>1. PICK I : I = 1..n
    OBVIOUS
  <2>2. g \in [I -> T]
    BY <2>1
  <2>3. \A S \in SUBSET I : PicksAll(g, S, T)
    BY <2>1, <2>2, PickedType
  <2> QED
    BY <2>1, <2>3 DEF PicksAll
<1>5. OpenLines(s) \in SUBSET (1..n) /\ \A c : DataLines(s, c) \in SUBSET (1..n)
  BY <1>1, ValuesType
<1>6. \A c : EventAt(s, c) \in Seq(B)
  <2> TAKE c
  <2>1. PICK d \in Seq(T) : d = Picked(g, DataLines(s, c))
    BY <1>4, <1>5
  <2>2. Joined(d) \in Seq(B)
    BY <1>2, JoinedType
  <2> QED
    BY <1>3, <2>1, <2>2, EventIs
<1>7. EventsAt(s) \in [1..Len(s) -> Seq(B)]
  BY <1>6 DEF EventsAt
<1> QED
  BY <1>2, <1>3, <1>4, <1>5, <1>7, PickedNone DEF OpenValues

LEMMA StreamEventsPicked ==
    ASSUME NEW B, NEW s \in Seq(B)
    PROVE  /\ StreamEvents(s) = Picked(EventsAt(s), KeptPlaces(s))
           /\ KeptPlaces(s) \subseteq 1..Len(s)
<1>1. PICK n \in Nat : n = Len(s)
  BY LenProperties
<1>2. KeptPlaces(s) \subseteq 1..n
  BY <1>1, ValuesType DEF KeptPlaces
<1>3. PICK places \in Seq(1..n) : places = InOrder(KeptPlaces(s))
  BY <1>2, InOrderType, SeqMonotonic
<1>4. \A k \in DOMAIN places : places[k] \in 1..n
  BY LenProperties, ElementOfSeq
<1>5. Images(EventsAt(s), places) = [i \in DOMAIN places |-> EventAt(s, places[i])]
  BY <1>1, <1>4 DEF Images, EventsAt
<1>6. StreamEvents(s) = [i \in DOMAIN places |-> EventAt(s, places[i])]
  BY <1>3 DEF StreamEvents, KeptPlaces
<1> QED
  BY <1>1, <1>2, <1>3, <1>5, <1>6 DEF Picked

(* What a byte adds to the values that are open and to the events.         *)
ValuesAfter(s, b) ==
    IF b # LF THEN OpenValues(s)
    ELSE IF NextLine(s) = <<>> THEN <<>>
    ELSE IF Field(NextLine(s)) = <<DataField>>
         THEN Append(OpenValues(s), Value(NextLine(s)))
    ELSE OpenValues(s)

EventsAfter(s, b) ==
    IF /\ b = LF /\ NextLine(s) = <<>>
       /\ OpenValues(s) # <<>> /\ Len(Joined(OpenValues(s))) <= MaxEventBytes
    THEN Append(StreamEvents(s), Joined(OpenValues(s)))
    ELSE StreamEvents(s)

LEMMA EventsStay ==
    ASSUME NEW B, LF \in B, NEW s \in Seq(B), NEW b \in B
    PROVE  /\ OpenValues(Append(s, b)) = ValuesAfter(s, b)
           /\ StreamEvents(Append(s, b)) = EventsAfter(s, b)
<1>1. PICK n \in Nat : n = Len(s)
  BY LenProperties
<1>2. PICK t \in Seq(B) : t = Append(s, b) /\ Len(t) = n + 1
  BY <1>1, AppendProperties
<1>3. PICK T : T = Seq(B)
  OBVIOUS
<1>4. PICK g \in [1..n -> T], h \in [1..(n + 1) -> T] : g = Values(s) /\ h = Values(t)
  BY <1>1, <1>2, <1>3, ValuesType
<1>5. /\ Blanks(t) = BlanksAfter(s, b)
      /\ \A c \in 1..n : DataLines(t, c) = DataLines(s, c)
      /\ DataLines(t, n + 1) = OpenLines(s)
      /\ OpenLines(t) = OpenAfter(s, b)
  <2>1. PlacesOK(s, t, b, n)
    BY <1>1, <1>2, PlacesStay
  <2> QED
    BY <2>1 DEF PlacesOK
<1>6. /\ \A e \in 1..n : LineAt(t, e) = LineAt(s, e)
      /\ LineAt(t, n + 1) = NextLine(s)
  <2>1. Goes(B, s, b, t, n)
    BY <1>1, <1>2, StreamGrows
  <2> QED
    BY <2>1 DEF Goes, LinesStay, NextLine
<1>7. \A e \in 1..n : h[e] = g[e]
  <2>1. \A e \in 1..n : e \in 1..(n + 1)
    OBVIOUS
  <2> QED
    BY <1>1, <1>2, <1>4, <1>6, <2>1, Zenon DEF Values
<1>8. h[n + 1] = Value(NextLine(s))
  <2>1. n + 1 \in 1..(n + 1)
    OBVIOUS
  <2> QED
    BY <1>2, <1>4, <1>6, <2>1, Zenon DEF Values
<1>9. \A S \in SUBSET (1..n) : /\ Picked(h, S) = Picked(g, S)
                               /\ Picked(h, S \cup {n + 1}) = Append(Picked(g, S), h[n + 1])
  <2>1. PICK I, J : I = 1..n /\ J = 1..(n + 1)
    OBVIOUS
  <2>2. g \in [I -> T] /\ h \in [J -> T] /\ \A e \in I : h[e] = g[e]
    BY <1>7, <2>1
  <2>3. \A S \in SUBSET I : PicksOn(g, h, S, n + 1)
    BY <2>1, <2>2, PickedGrows
  <2> QED
    BY <2>1, <2>3 DEF PicksOn
<1>10. OpenLines(s) \in SUBSET (1..n) /\ \A c : DataLines(s, c) \in SUBSET (1..n)
  BY <1>1, ValuesType
<1>11. OpenValues(t) = ValuesAfter(s, b)
  <2>1. /\ OpenValues(s) = Picked(g, OpenLines(s))
        /\ Picked(h, OpenLines(s)) = OpenValues(s)
        /\ Picked(h, OpenLines(s) \cup {n + 1}) = Append(OpenValues(s), Value(NextLine(s)))
        /\ Picked(h, {}) = <<>>
    BY <1>4, <1>8, <1>9, <1>10, PickedNone DEF OpenValues
  <2>2. OpenValues(t) = Picked(h, OpenAfter(s, b))
    BY <1>4, <1>5 DEF OpenValues
  <2> QED
    BY <1>1, <2>1, <2>2, Zenon DEF OpenAfter, ValuesAfter
<1>12. /\ \A c \in 1..n : EventAt(t, c) = EventAt(s, c)
       /\ EventAt(t, n + 1) = Joined(OpenValues(s))
  <2>1. \A c : /\ EventAt(t, c) = Joined(Picked(h, DataLines(t, c)))
               /\ EventAt(s, c) = Joined(Picked(g, DataLines(s, c)))
    BY <1>4, EventIs
  <2>2. ASSUME NEW c \in 1..n PROVE EventAt(t, c) = EventAt(s, c)
    BY <1>5, <1>9, <1>10, <2>1
  <2>3. EventAt(t, n + 1) = Joined(OpenValues(s))
    <3>1. Picked(h, OpenLines(s)) = OpenValues(s)
      BY <1>4, <1>9, <1>10 DEF OpenValues
    <3> QED
      BY <1>5, <2>1, <3>1
  <2> QED
    BY <2>2, <2>3
<1>13. PICK x \in [1..n -> T], y \in [1..(n + 1) -> T] :
          x = EventsAt(s) /\ y = EventsAt(t)
  BY <1>1, <1>2, <1>3, EventType
<1>14. (\A c \in 1..n : y[c] = x[c]) /\ y[n + 1] = Joined(OpenValues(s))
  <2>1. n + 1 \in 1..(n + 1) /\ \A c \in 1..n : c \in 1..(n + 1)
    OBVIOUS
  <2> QED
    BY <1>1, <1>2, <1>12, <1>13, <2>1, Zenon DEF EventsAt
<1>15. /\ StreamEvents(t) = Picked(y, KeptPlaces(t))
       /\ StreamEvents(s) = Picked(x, KeptPlaces(s))
       /\ KeptPlaces(s) \subseteq 1..n
  BY <1>1, <1>2, <1>13, StreamEventsPicked
<1>16. /\ Picked(y, KeptPlaces(s)) = StreamEvents(s)
       /\ Picked(y, KeptPlaces(s) \cup {n + 1}) = Append(StreamEvents(s), Joined(OpenValues(s)))
  <2>1. PICK I, J : I = 1..n /\ J = 1..(n + 1)
    OBVIOUS
  <2>2. x \in [I -> T] /\ y \in [J -> T] /\ \A c \in I : y[c] = x[c]
    BY <1>14, <2>1
  <2>3. \A S \in SUBSET I : PicksOn(x, y, S, n + 1)
    BY <2>1, <2>2, PickedGrows
  <2>4. PicksOn(x, y, KeptPlaces(s), n + 1)
    BY <1>15, <2>1, <2>3
  <2> QED
    BY <1>14, <1>15, <2>4 DEF PicksOn
<1>17. n + 1 \notin Blanks(s) /\ Blanks(s) \subseteq 1..n
  <2>1. Blanks(s) \subseteq 1..n
    BY <1>1, ValuesType
  <2> QED
    BY <2>1
<1>18. OpenValues(s) # <<>> <=> OpenLines(s) # {}
  BY EventType
<1>19. \A c : c \in KeptPlaces(t) <=>
          \/ c \in KeptPlaces(s)
          \/ /\ c = n + 1 /\ b = LF /\ NextLine(s) = <<>>
             /\ OpenLines(s) # {} /\ Len(Joined(OpenValues(s))) <= MaxEventBytes
  <2> TAKE c
  <2>1. CASE c \in Blanks(s)
    <3>1. c \in 1..n /\ c # n + 1 /\ c \in Blanks(t)
      BY <1>5, <1>17, <2>1, Zenon DEF BlanksAfter
    <3>2. DataLines(t, c) = DataLines(s, c) /\ EventAt(t, c) = EventAt(s, c)
      BY <1>5, <1>12, <3>1
    <3> QED
      BY <2>1, <3>1, <3>2, Zenon DEF KeptPlaces
  <2>2. CASE c = n + 1
    <3>1. c \in Blanks(t) <=> b = LF /\ NextLine(s) = <<>>
      BY <1>1, <1>5, <1>17, <2>2, Zenon DEF BlanksAfter
    <3>2. c \notin KeptPlaces(s)
      BY <1>17, <2>2 DEF KeptPlaces
    <3> QED
      BY <1>5, <1>12, <2>2, <3>1, <3>2, Zenon DEF KeptPlaces
  <2>3. CASE c \notin Blanks(s) /\ c # n + 1
    BY <1>1, <1>5, <2>3, Zenon DEF KeptPlaces, BlanksAfter
  <2> QED
    BY <2>1, <2>2, <2>3
<1>20. StreamEvents(t) = EventsAfter(s, b)
  <2>1. CASE /\ b = LF /\ NextLine(s) = <<>>
             /\ OpenLines(s) # {} /\ Len(Joined(OpenValues(s))) <= MaxEventBytes
    <3>1. KeptPlaces(t) = KeptPlaces(s) \cup {n + 1}
      BY <1>19, <2>1, Zenon
    <3> QED
      BY <1>15, <1>16, <1>18, <2>1, <3>1, Zenon DEF EventsAfter
  <2>2. CASE ~(/\ b = LF /\ NextLine(s) = <<>>
               /\ OpenLines(s) # {} /\ Len(Joined(OpenValues(s))) <= MaxEventBytes)
    <3>1. KeptPlaces(t) = KeptPlaces(s)
      BY <1>19, <2>2, Zenon
    <3> QED
      BY <1>15, <1>16, <1>18, <2>2, <3>1, Zenon DEF EventsAfter
  <2> QED
    BY <2>1, <2>2
<1> QED
  BY <1>2, <1>11, <1>20

(* A parser that has been given s: it has the line that is open, and the   *)
(* values of the event that is open unless they are too large.             *)
Keeps(p, s) ==
    /\ p.line = OpenLine(s)
    /\ IF Len(Joined(OpenValues(s))) <= MaxEventBytes
       THEN ~p.overflowed /\ p.data = OpenValues(s)
       ELSE p.overflowed

(* And what its last call has returned are the events that came after      *)
(* those before.                                                           *)
Tracks(p, s, before) ==
    /\ Keeps(p, s)
    /\ StreamEvents(s) = Cat(before, p.events)

LEMMA StreamEventsType ==
    ASSUME NEW B, LF \in B, NEW s \in Seq(B)
    PROVE  StreamEvents(s) \in Seq(Seq(B))
<1>1. PICK n \in Nat : n = Len(s)
  BY LenProperties
<1>2. PICK T : T = Seq(B)
  OBVIOUS
<1>3. PICK x \in [1..n -> T] : x = EventsAt(s)
  BY <1>1, <1>2, EventType
<1>4. Picked(x, KeptPlaces(s)) \in Seq(T)
  <2>1. PICK I : I = 1..n
    OBVIOUS
  <2>2. x \in [I -> T] /\ KeptPlaces(s) \in SUBSET I
    BY <1>1, <2>1, StreamEventsPicked
  <2>3. PicksAll(x, KeptPlaces(s), T)
    BY <2>1, <2>2, PickedType
  <2> QED
    BY <2>3 DEF PicksAll
<1> QED
  BY <1>2, <1>3, <1>4, StreamEventsPicked

LEMMA NewParserKeeps == Keeps(NewParser, <<>>) /\ StreamEvents(<<>>) = <<>>
<1>1. Ends(<<>>) = {}
  BY DEF Ends
<1>2. Blanks(<<>>) = {} /\ OpenLines(<<>>) = {} /\ KeptPlaces(<<>>) = {}
  BY <1>1 DEF Blanks, OpenLines, KeptPlaces
<1>3. OpenValues(<<>>) = <<>> /\ Picked(EventsAt(<<>>), KeptPlaces(<<>>)) = <<>>
  BY <1>2, PickedNone DEF OpenValues
<1>4. <<>> \in Seq({LF}) /\ Len(<<>>) = 0
  BY EmptySeq
<1>5. StreamEvents(<<>>) = <<>>
  BY <1>3, <1>4, StreamEventsPicked
<1>6. LastEnd(<<>>) \in 0..0
  BY <1>1, LastOf DEF LastEnd
<1>7. OpenLine(<<>>) = <<>>
  BY <1>4, <1>6, SubSeqEmpty DEF OpenLine
<1>8. Len(Joined(<<>>)) <= MaxEventBytes
  BY <1>4, JoinedEmpty, SseParserAssumption
<1> QED
  BY <1>3, <1>5, <1>7, <1>8 DEF Keeps, NewParser

(* A line that ends: p is the parser without it.                           *)
LineEnds(p, q, s, t, before) ==
    /\ q.line = <<>>
    /\ IF Len(Joined(OpenValues(t))) <= MaxEventBytes
       THEN ~q.overflowed /\ q.data = OpenValues(t)
       ELSE q.overflowed
    /\ StreamEvents(t) = Cat(before, q.events)

LEMMA BlankLineTracks ==
    ASSUME NEW B, LF \in B, NEW s \in Seq(B), NEW p \in GoodParser(B),
           NEW before \in Seq(Seq(B)), Tracks([p EXCEPT !.line = OpenLine(s)], s, before),
           p.line = <<>>, NextLine(s) = <<>>
    PROVE  LineEnds(p, Dispatch(p), s, Append(s, LF), before)
<1>1. p \in AnyParser(B)
  BY DEF GoodParser
<1>2. PICK d \in Seq(Seq(B)), m \in Nat : d = OpenValues(s) /\ m = Len(Joined(d))
  <2>1. OpenValues(s) \in Seq(Seq(B))
    BY EventType
  <2>2. Len(Joined(OpenValues(s))) \in Nat
    BY <2>1, JoinedType, LenProperties
  <2> QED
    BY <2>1, <2>2
<1>3. /\ IF m <= MaxEventBytes THEN ~p.overflowed /\ p.data = d ELSE p.overflowed
      /\ StreamEvents(s) = Cat(before, p.events)
  BY <1>1, <1>2 DEF Tracks, Keeps, AnyParser
<1>4. OpenValues(Append(s, LF)) = <<>> /\ Len(Joined(<<>>)) <= MaxEventBytes
  <2>1. OpenValues(Append(s, LF)) = ValuesAfter(s, LF)
    BY EventsStay
  <2>2. ValuesAfter(s, LF) = <<>>
    BY DEF ValuesAfter
  <2>3. Len(<<>>) = 0
    OBVIOUS
  <2> QED
    BY <2>1, <2>2, <2>3, JoinedEmpty, SseParserAssumption
<1>5. StreamEvents(Append(s, LF))
         = IF d # <<>> /\ m <= MaxEventBytes
           THEN Append(StreamEvents(s), Joined(d)) ELSE StreamEvents(s)
  <2>1. StreamEvents(Append(s, LF)) = EventsAfter(s, LF)
    BY EventsStay
  <2> QED
    BY <1>2, <2>1 DEF EventsAfter
<1>6. PICK x \in Seq(Seq(B)) : x = p.events
  BY <1>1 DEF AnyParser
<1>7. Append(Cat(before, x), Joined(d)) = Cat(before, Append(x, Joined(d)))
  <2>1. PICK U : U = Seq(B)
    OBVIOUS
  <2>2. PICK y \in Seq(U), z \in Seq(U), j \in U : y = before /\ z = x /\ j = Joined(d)
    BY <2>1, JoinedType
  <2>3. PICK l \in Seq(U), c \in Seq(U) :
           /\ l = <<j>> /\ c = Cat(y, z)
           /\ Append(c, j) = Cat(c, l) /\ Append(z, j) = Cat(z, l)
    BY AppendIsCat, CatClosed
  <2>4. Cat(Cat(y, z), l) = Cat(y, Cat(z, l))
    BY CatAssociative
  <2> QED
    BY <2>2, <2>3, <2>4
<1>8. CASE p.overflowed
  <2>2. ~(m <= MaxEventBytes)
    BY <1>3, <1>8
  <2>3. /\ Dispatch(p).line = <<>> /\ Dispatch(p).data = <<>> /\ ~Dispatch(p).overflowed
        /\ Dispatch(p).events = p.events
    BY <1>1, <1>8 DEF Dispatch, ResetEvent, AnyParser
  <2> QED
    BY <1>3, <1>4, <1>5, <2>2, <2>3 DEF LineEnds
<1>9. CASE ~p.overflowed /\ p.data = <<>>
  <2>1. Dispatch(p) = p
    BY <1>9 DEF Dispatch
  <2>2. StreamEvents(Append(s, LF)) = StreamEvents(s)
    BY <1>3, <1>5, <1>9
  <2> QED
    BY <1>3, <1>4, <1>9, <2>1, <2>2 DEF LineEnds
<1>10. CASE ~p.overflowed /\ p.data # <<>>
  <2>1. m <= MaxEventBytes /\ p.data = d
    BY <1>3, <1>10
  <2>2. /\ Dispatch(p).line = <<>> /\ Dispatch(p).data = <<>> /\ ~Dispatch(p).overflowed
        /\ Dispatch(p).events = Append(p.events, Joined(p.data))
    BY <1>1, <1>10 DEF Dispatch, ResetEvent, AnyParser
  <2>3. StreamEvents(Append(s, LF)) = Append(Cat(before, x), Joined(d))
    BY <1>3, <1>5, <1>6, <1>10, <2>1
  <2> QED
    BY <1>4, <1>6, <1>7, <2>1, <2>2, <2>3 DEF LineEnds
<1> QED
  BY <1>8, <1>9, <1>10

LEMMA DataLineTracks ==
    ASSUME NEW B, LF \in B, NEW s \in Seq(B), NEW p \in GoodParser(B),
           NEW before \in Seq(Seq(B)), Tracks([p EXCEPT !.line = OpenLine(s)], s, before),
           p.line = <<>>, NextLine(s) # <<>>, Field(NextLine(s)) = <<DataField>>
    PROVE  LineEnds(p, AddData(p, Value(NextLine(s))), s, Append(s, LF), before)
<1>1. p \in AnyParser(B) /\ KeepsOK(p)
  BY DEF GoodParser
<1>2. PICK d \in Seq(Seq(B)), m \in Nat : d = OpenValues(s) /\ m = Len(Joined(d))
  <2>1. OpenValues(s) \in Seq(Seq(B))
    BY EventType
  <2>2. Len(Joined(OpenValues(s))) \in Nat
    BY <2>1, JoinedType, LenProperties
  <2> QED
    BY <2>1, <2>2
<1>3. PICK v \in Seq(B), k \in Nat : v = Value(NextLine(s)) /\ k = Len(v)
  <2>1. OpenLine(s) \in Seq(B)
    <3>1. PICK n \in Nat : n = Len(s)
      BY LenProperties
    <3> QED
      BY <3>1, StreamGrows DEF Goes
  <2>2. Value(NextLine(s)) \in Seq(B)
    BY <2>1, TrimCrType, ValueType DEF NextLine
  <2> QED
    BY <2>2, LenProperties
<1>4. /\ IF m <= MaxEventBytes THEN ~p.overflowed /\ p.data = d ELSE p.overflowed
      /\ StreamEvents(s) = Cat(before, p.events)
  BY <1>1, <1>2 DEF Tracks, Keeps, AnyParser
<1>5. OpenValues(Append(s, LF)) = Append(d, v)
  <2>1. OpenValues(Append(s, LF)) = ValuesAfter(s, LF)
    BY EventsStay
  <2> QED
    BY <1>2, <1>3, <2>1 DEF ValuesAfter
<1>6. StreamEvents(Append(s, LF)) = StreamEvents(s)
  <2>1. StreamEvents(Append(s, LF)) = EventsAfter(s, LF)
    BY EventsStay
  <2> QED
    BY <2>1 DEF EventsAfter
<1>7. PICK N \in Nat : /\ N = Len(Joined(Append(d, v)))
                       /\ N = m + (IF d = <<>> THEN 0 ELSE 1) + k
  <2>1. Len(Joined(Append(d, v))) = m + (IF d = <<>> THEN 0 ELSE 1) + k
    BY <1>2, <1>3, JoinedLen
  <2>2. m + (IF d = <<>> THEN 0 ELSE 1) + k \in Nat
    OBVIOUS
  <2> QED
    BY <2>1, <2>2
<1>8. PICK q : q = AddData(p, v)
  OBVIOUS
<1>9. /\ q.line = <<>> /\ q.events = p.events
      /\ IF N <= MaxEventBytes THEN ~q.overflowed /\ q.data = Append(d, v) ELSE q.overflowed
  <2>1. CASE m <= MaxEventBytes
    <3>1. ~p.overflowed /\ p.data = d /\ NextSize(p, v) = N
      BY <1>1, <1>2, <1>3, <1>4, <1>7, <2>1 DEF NextSize, KeepsOK
    <3>2. CASE N > MaxEventBytes
      <4>1. q = [p EXCEPT !.overflowed = TRUE, !.data = <<>>, !.bytes = 0]
        BY <1>8, <3>1, <3>2 DEF AddData
      <4>2. ~(N <= MaxEventBytes)
        BY <3>2, SseParserAssumption
      <4> QED
        BY <1>1, <4>1, <4>2 DEF AnyParser
    <3>3. CASE ~(N > MaxEventBytes)
      <4>1. q = [p EXCEPT !.data = Append(@, v), !.bytes = NextSize(p, v)]
        BY <1>8, <3>1, <3>3 DEF AddData
      <4>2. N <= MaxEventBytes
        BY <3>3, SseParserAssumption
      <4> QED
        BY <1>1, <3>1, <4>1, <4>2 DEF AnyParser
    <3> QED
      BY <3>2, <3>3
  <2>2. CASE ~(m <= MaxEventBytes)
    <3>1. ~(N <= MaxEventBytes)
      BY <1>7, <2>2, SseParserAssumption
    <3>2. p.overflowed
      BY <1>4, <2>2
    <3>3. q = p \/ q = [p EXCEPT !.overflowed = TRUE, !.data = <<>>, !.bytes = 0]
      BY <1>8, <3>2 DEF AddData
    <3>4. q.line = <<>> /\ q.events = p.events /\ q.overflowed
      BY <1>1, <3>2, <3>3 DEF AnyParser
    <3> QED
      BY <3>1, <3>4
  <2> QED
    BY <2>1, <2>2
<1> QED
  BY <1>3, <1>4, <1>5, <1>6, <1>7, <1>8, <1>9 DEF LineEnds

LEMMA BlankIsNoData == Field(<<>>) # <<DataField>> /\ TrimCr(<<>>) = <<>>
<1>1. Colons(<<>>) = {}
  BY DEF Colons
<1>2. <<>> # <<DataField>>
  OBVIOUS
<1> QED
  BY <1>1, <1>2 DEF Field, TrimCr

LEMMA TakeByteTracks ==
    ASSUME NEW B, LF \in B, NEW s \in Seq(B), NEW p \in GoodParser(B), NEW b \in B,
           NEW before \in Seq(Seq(B)), Tracks(p, s, before)
    PROVE  Tracks(TakeByte(p, b), Append(s, b), before)
<1> DEFINE bare == [p EXCEPT !.line = <<>>]
<1>1. p \in AnyParser(B) /\ p.line = OpenLine(s)
  BY DEF GoodParser, Tracks, Keeps
<1>2. PICK n \in Nat : n = Len(s)
  BY LenProperties
<1>3. OpenLine(Append(s, b)) = IF b = LF THEN <<>> ELSE Append(OpenLine(s), b)
  BY <1>2, StreamGrows DEF Goes
<1>4. CASE b # LF
  <2>1. TakeByte(p, b) = [p EXCEPT !.line = Append(@, b)]
    BY <1>4 DEF TakeByte
  <2>2. OpenValues(Append(s, b)) = OpenValues(s) /\ StreamEvents(Append(s, b)) = StreamEvents(s)
    <3>1. ValuesAfter(s, b) = OpenValues(s) /\ EventsAfter(s, b) = StreamEvents(s)
      BY <1>4 DEF ValuesAfter, EventsAfter
    <3> QED
      BY <3>1, EventsStay
  <2>3. PICK q : q = TakeByte(p, b)
    OBVIOUS
  <2>4. /\ q.line = Append(OpenLine(s), b) /\ q.data = p.data /\ q.overflowed = p.overflowed
        /\ q.events = p.events
    BY <1>1, <2>1, <2>3 DEF AnyParser
  <2> QED
    BY <1>3, <1>4, <2>2, <2>3, <2>4 DEF Tracks, Keeps
<1>5. CASE b = LF
  <2>1. bare \in GoodParser(B) /\ bare.line = <<>>
    BY <1>1, LineGood, EmptySeq DEF AnyParser
  <2>2. Tracks([bare EXCEPT !.line = OpenLine(s)], s, before)
    <3>1. /\ [bare EXCEPT !.line = OpenLine(s)].line = p.line
          /\ [bare EXCEPT !.line = OpenLine(s)].data = p.data
          /\ [bare EXCEPT !.line = OpenLine(s)].overflowed = p.overflowed
          /\ [bare EXCEPT !.line = OpenLine(s)].events = p.events
      BY <1>1 DEF AnyParser
    <3> HIDE DEF bare
    <3> QED
      BY <3>1 DEF Tracks, Keeps
  <2>3. TakeByte(p, b) = ProcessLine(bare, NextLine(s))
    BY <1>1, <1>5 DEF TakeByte, NextLine
  <2> HIDE DEF bare
  <2>4. CASE NextLine(s) = <<>>
    <3>1. TakeByte(p, b) = Dispatch(bare)
      BY <2>3, <2>4, BlankIsNoData DEF ProcessLine
    <3>2. LineEnds(bare, Dispatch(bare), s, Append(s, LF), before)
      BY <2>1, <2>2, <2>4, BlankLineTracks
    <3> QED
      BY <1>3, <1>5, <3>1, <3>2 DEF LineEnds, Tracks, Keeps
  <2>5. CASE NextLine(s) # <<>> /\ Field(NextLine(s)) = <<DataField>>
    <3>1. TakeByte(p, b) = AddData(bare, Value(NextLine(s)))
      BY <2>3, <2>5 DEF ProcessLine
    <3>2. LineEnds(bare, AddData(bare, Value(NextLine(s))), s, Append(s, LF), before)
      BY <2>1, <2>2, <2>5, DataLineTracks
    <3> QED
      BY <1>3, <1>5, <3>1, <3>2 DEF LineEnds, Tracks, Keeps
  <2>6. CASE NextLine(s) # <<>> /\ Field(NextLine(s)) # <<DataField>>
    <3>1. TakeByte(p, b) = bare
      BY <2>3, <2>6 DEF ProcessLine
    <3>2. OpenValues(Append(s, b)) = OpenValues(s) /\ StreamEvents(Append(s, b)) = StreamEvents(s)
      <4>1. ValuesAfter(s, b) = OpenValues(s) /\ EventsAfter(s, b) = StreamEvents(s)
        BY <2>6 DEF ValuesAfter, EventsAfter
      <4> QED
        BY <4>1, EventsStay
    <3>3. /\ bare.line = <<>> /\ bare.data = p.data /\ bare.overflowed = p.overflowed
          /\ bare.events = p.events
      BY <1>1 DEF AnyParser, bare
    <3> QED
      BY <1>3, <1>5, <3>1, <3>2, <3>3 DEF Tracks, Keeps
  <2> QED
    BY <2>4, <2>5, <2>6
<1> QED
  BY <1>4, <1>5

(* A call starts with nothing returned.                                    *)
LEMMA CallStarts ==
    ASSUME NEW B, LF \in B, NEW s \in Seq(B), NEW p \in GoodParser(B), Keeps(p, s)
    PROVE  /\ [p EXCEPT !.events = <<>>] \in GoodParser(B)
           /\ Tracks([p EXCEPT !.events = <<>>], s, StreamEvents(s))
<1>1. p \in AnyParser(B)
  BY DEF GoodParser
<1>2. [p EXCEPT !.events = <<>>] \in GoodParser(B)
  BY EventsGood, EmptySeq
<1>3. PICK q : q = [p EXCEPT !.events = <<>>]
  OBVIOUS
<1>4. /\ q.line = p.line /\ q.data = p.data /\ q.overflowed = p.overflowed
      /\ q.events = <<>>
  BY <1>1, <1>3 DEF AnyParser
<1>5. Cat(StreamEvents(s), <<>>) = StreamEvents(s)
  BY StreamEventsType, ConcatEmptySeq DEF Cat
<1> QED
  BY <1>2, <1>3, <1>4, <1>5 DEF Tracks, Keeps

(* However a stream goes on, the parser that has what came before returns  *)
(* the events that the rest adds.                                          *)
LEMMA PushTracks ==
    ASSUME NEW B, LF \in B, NEW s \in Seq(B), NEW p \in GoodParser(B), Keeps(p, s),
           NEW chunk \in Seq(B)
    PROVE  Tracks(Push(p, chunk), Cat(s, chunk), StreamEvents(s))
<1> DEFINE start == [p EXCEPT !.events = <<>>]
           Q == {c \in Seq(B) : /\ BytesOf!Fold(0, start, c) \in GoodParser(B)
                                /\ Tracks(BytesOf!Fold(0, start, c), Cat(s, c), StreamEvents(s))}
<1>1. start \in GoodParser(B) /\ Tracks(start, s, StreamEvents(s))
  BY CallStarts
<1>2. Push(p, chunk) = BytesOf!Fold(0, start, chunk)
  BY DEF Push, TakeByteStep, BytesOf!Fold, FoldLeft, BytesOf!FoldLeft,
         MapThenFoldSet, BytesOf!MapThenFoldSet, Max, BytesOf!Max
<1>3. PICK before \in Seq(Seq(B)) : before = StreamEvents(s)
  BY StreamEventsType
<1> HIDE DEF start
<1>4. <<>> \in Q
  <2>1. BytesOf!Fold(0, start, <<>>) = start
    BY BytesOf!FoldEmpty
  <2>2. Cat(s, <<>>) = s /\ <<>> \in Seq(B)
    BY ConcatEmptySeq, EmptySeq DEF Cat
  <2> QED
    BY <1>1, <2>1, <2>2
<1>5. ASSUME NEW c \in Seq(B), NEW b \in B, c \in Q
      PROVE  Append(c, b) \in Q
  <2>1. PICK q \in GoodParser(B), t \in Seq(B) :
           q = BytesOf!Fold(0, start, c) /\ t = Cat(s, c) /\ Tracks(q, t, before)
    BY <1>3, <1>5, CatClosed
  <2>2. BytesOf!Fold(0, start, Append(c, b)) = TakeByte(q, b)
    <3>1. BytesOf!Fold(0, start, Append(c, b)) = TakeByteStep(0, BytesOf!Fold(0, start, c), b)
      BY BytesOf!FoldAppend
    <3> QED
      BY <2>1, <3>1 DEF TakeByteStep
  <2>3. Cat(s, Append(c, b)) = Append(t, b)
    <3>1. PICK l \in Seq(B) : l = <<b>> /\ Append(c, b) = Cat(c, l) /\ Append(t, b) = Cat(t, l)
      BY AppendIsCat
    <3>2. Cat(s, Cat(c, l)) = Cat(Cat(s, c), l)
      BY CatAssociative
    <3> QED
      BY <2>1, <3>1, <3>2
  <2>4. Tracks(TakeByte(q, b), Append(t, b), before)
    BY <2>1, TakeByteTracks
  <2>5. TakeByte(q, b) \in GoodParser(B)
    BY TakeByteGood
  <2>6. Append(c, b) \in Seq(B)
    BY AppendProperties
  <2> QED
    BY <1>3, <2>2, <2>3, <2>4, <2>5, <2>6
<1> HIDE DEF Q
<1>6. chunk \in Q
  BY <1>4, <1>5, SequenceInduction
<1> QED
  BY <1>2, <1>6 DEF Q

(* Finish is an empty line that follows what is there.                     *)
LEMMA FinishIsTwoBytes ==
    ASSUME NEW B, LF \in B, NEW p \in GoodParser(B)
    PROVE  Finish(p).events = TakeByte(TakeByte([p EXCEPT !.events = <<>>], LF), LF).events
<1>1. p \in AnyParser(B)
  BY DEF GoodParser
<1>2. PICK q \in AnyParser(B) : q = [p EXCEPT !.events = <<>>, !.line = <<>>]
  <2>1. [p EXCEPT !.events = <<>>, !.line = <<>>] \in AnyParser(B)
    BY <1>1, EmptySeq DEF AnyParser
  <2> QED
    BY <2>1
<1>3. q.line = <<>> /\ q.events = <<>>
  BY <1>1, <1>2 DEF AnyParser
<1>4. TakeByte([p EXCEPT !.events = <<>>], LF) = ProcessLine(q, TrimCr(p.line))
  <2>1. /\ [p EXCEPT !.events = <<>>].line = p.line
        /\ [[p EXCEPT !.events = <<>>] EXCEPT !.line = <<>>] = q
    BY <1>1, <1>2 DEF AnyParser
  <2> QED
    BY <2>1 DEF TakeByte
<1>5. PICK r : r = ProcessLine(q, TrimCr(p.line))
  OBVIOUS
<1>6. TrimCr(<<>>) = <<>> /\ Field(<<>>) # <<DataField>>
  BY BlankIsNoData
<1>7. r.line = <<>> /\ [r EXCEPT !.line = <<>>] = r
  <2>1. Dispatch(q).line = <<>> /\ [Dispatch(q) EXCEPT !.line = <<>>] = Dispatch(q)
    BY <1>1, <1>2, <1>3 DEF Dispatch, ResetEvent, AnyParser
  <2>2. \A v : AddData(q, v).line = <<>> /\ [AddData(q, v) EXCEPT !.line = <<>>] = AddData(q, v)
    BY <1>1, <1>2, <1>3 DEF AddData, AnyParser
  <2>3. [q EXCEPT !.line = <<>>] = q
    BY <1>2, <1>3 DEF AnyParser
  <2>4. r = Dispatch(q) \/ r = q \/ \E v : r = AddData(q, v)
    BY <1>5 DEF ProcessLine
  <2> QED
    BY <1>3, <2>1, <2>2, <2>3, <2>4
<1>8. TakeByte(r, LF) = Dispatch(r)
  BY <1>6, <1>7 DEF TakeByte, ProcessLine
<1>9. CASE p.line = <<>>
  <2>1. r = Dispatch(q)
    BY <1>5, <1>6, <1>9 DEF ProcessLine
  <2>2. Dispatch(r).events = r.events
    <3>1. ~r.overflowed /\ r.data = <<>>
      BY <1>2, <2>1 DEF Dispatch, ResetEvent, AnyParser
    <3> QED
      BY <3>1 DEF Dispatch
  <2>3. Finish(p) = Dispatch(q)
    BY <1>2, <1>9 DEF Finish
  <2> QED
    BY <1>4, <1>5, <1>8, <2>1, <2>2, <2>3
<1>10. CASE p.line # <<>>
  <2>1. Finish(p) = Dispatch(r)
    BY <1>2, <1>5, <1>10 DEF Finish
  <2> QED
    BY <1>4, <1>5, <1>8, <2>1
<1> QED
  BY <1>9, <1>10

LEMMA FinishTracks ==
    ASSUME NEW B, LF \in B, NEW s \in Seq(B), NEW p \in GoodParser(B), Keeps(p, s)
    PROVE  StreamEvents(Ended(s)) = Cat(StreamEvents(s), Finish(p).events)
<1>1. PICK q \in GoodParser(B), before \in Seq(Seq(B)) :
         /\ q = [p EXCEPT !.events = <<>>] /\ before = StreamEvents(s)
         /\ Tracks(q, s, before)
  BY CallStarts, StreamEventsType
<1>2. PICK t \in Seq(B), r \in GoodParser(B) :
         t = Append(s, LF) /\ r = TakeByte(q, LF) /\ Tracks(r, t, before)
  <2>1. Append(s, LF) \in Seq(B)
    BY AppendProperties
  <2>2. TakeByte(q, LF) \in GoodParser(B)
    BY TakeByteGood
  <2>3. Tracks(TakeByte(q, LF), Append(s, LF), before)
    BY <1>1, TakeByteTracks
  <2> QED
    BY <2>1, <2>2, <2>3
<1>3. Tracks(TakeByte(r, LF), Append(t, LF), before)
  BY <1>2, TakeByteTracks
<1>4. Ended(s) = Append(t, LF)
  <2>1. PICK l \in Seq(B) : l = <<LF>> /\ t = Cat(s, l) /\ Append(t, LF) = Cat(t, l)
                            /\ Append(l, LF) = Cat(l, l)
    <3>1. \A x \in Seq(B) : Append(x, LF) = Cat(x, <<LF>>) /\ <<LF>> \in Seq(B)
      BY AppendIsCat
    <3> QED
      BY <1>2, <3>1
  <2>2. Cat(Cat(s, l), l) = Cat(s, Cat(l, l))
    BY CatAssociative
  <2>3. Cat(l, l) = <<LF, LF>>
    <3>1. PICK x \in Seq(B) : x = <<LF, LF>> /\ Len(x) = 2 /\ x[1] = LF /\ x[2] = LF
      <4>1. <<LF, LF>> \in Seq(B) /\ Len(<<LF, LF>>) = 2
            /\ <<LF, LF>>[1] = LF /\ <<LF, LF>>[2] = LF
        OBVIOUS
      <4> QED
        BY <4>1
    <3>2. Len(l) = 1 /\ l[1] = LF
      BY <2>1
    <3>3. /\ Append(l, LF) \in Seq(B) /\ Len(Append(l, LF)) = 2
          /\ Append(l, LF)[1] = LF /\ Append(l, LF)[2] = LF
      <4>1. PICK m \in Nat : m = Len(l)
        BY LenProperties
      <4>2. /\ Append(l, LF) \in Seq(B) /\ Len(Append(l, LF)) = m + 1
            /\ Append(l, LF)[m + 1] = LF /\ \A i \in 1..m : Append(l, LF)[i] = l[i]
        BY <4>1, AppendProperties
      <4>3. m + 1 = 2 /\ 1 \in 1..m
        BY <3>2, <4>1
      <4> QED
        BY <3>2, <4>2, <4>3
    <3>4. \A i \in 1..2 : Append(l, LF)[i] = x[i]
      <4>1. \A i \in 1..2 : i = 1 \/ i = 2
        OBVIOUS
      <4> QED
        BY <3>1, <3>3, <4>1
    <3>5. Append(l, LF) = x
      BY <3>1, <3>3, <3>4, SeqEqual
    <3> QED
      BY <2>1, <3>1, <3>5
  <2> QED
    BY <2>1, <2>2, <2>3 DEF Ended, Cat
<1>5. Finish(p).events = TakeByte(r, LF).events
  BY <1>1, <1>2, FinishIsTwoBytes
<1> QED
  BY <1>1, <1>3, <1>4, <1>5 DEF Tracks
=============================================================================
