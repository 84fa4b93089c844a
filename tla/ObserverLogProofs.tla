------------------------- MODULE ObserverLogProofs -------------------------
(***************************************************************************)
(* What is proved of the observer, for all ids, tools and payloads from    *)
(* either side, in any order and number.                                   *)
(***************************************************************************)
EXTENDS ObserverLog, PayloadLemmas, FiniteSetTheorems

-----------------------------------------------------------------------------
(* What one item does to the facts.                                        *)
Bad(item) ==
    \/ ~item.object
    \/ item.method = None /\ item.id # None /\ "error" \in item.body

LEMMA InspectOk ==
    ASSUME NEW seen \in Inspection, NEW item \in AnyItem, NEW dir, NEW at \in Nat
    PROVE  InspectValue(seen, item, dir, at).facts.ok
              <=> seen.facts.ok /\ ~Bad(item)
<1> DEFINE f == seen.facts
<1>1. f \in AnyFacts /\ seen.pending \in PendingMap
  BY DEF Inspection
<1>2. CASE ~item.object
  <2>1. [seen EXCEPT !.facts.ok = FALSE].facts.ok = FALSE
    BY DEF Inspection, AnyFacts
  <2> QED
    BY <1>2, <2>1 DEF InspectValue, Bad
<1>3. CASE item.object /\ item.method # None
  <2>1. InspectCall(seen, item, dir, at).facts.ok = f.ok
    BY <1>1 DEF InspectCall, AnyFacts
  <2> QED
    BY <1>3, <2>1 DEF InspectValue, Bad
<1>4. CASE item.object /\ item.method = None /\ item.id # None /\ item.body # {}
  <2>1. (f.ok /\ "error" \notin item.body) \in BOOLEAN
    OBVIOUS
  <2>a. PICK b \in BOOLEAN : b = (f.ok /\ "error" \notin item.body)
    BY <2>1
  <2>b. PICK r \in Nat : r = f.responses + 1
    BY <1>1 DEF AnyFacts
  <2>2. PICK g \in AnyFacts : g = [f EXCEPT !.responses = r, !.ok = b] /\ g.ok = b
    <3>1. [f EXCEPT !.responses = r, !.ok = b] \in AnyFacts
      BY <1>1 DEF AnyFacts
    <3>2. [f EXCEPT !.responses = r, !.ok = b].ok = b
      BY <1>1 DEF AnyFacts
    <3> QED
      BY <3>1, <3>2
  <2>3. \A request : Correlate(g, request, item, at).ok = b
    BY <2>2 DEF Correlate, AnyFacts
  <2>4. [seen EXCEPT !.facts = g].facts = g
    BY DEF Inspection
  <2>5. InspectResponse(seen, item, dir, at).facts.ok = b
    BY <2>a, <2>b, <2>2, <2>3, <2>4 DEF InspectResponse
  <2>6. item.method = None /\ item.id # None
    BY <1>4
  <2> QED
    BY <1>4, <2>a, <2>5, <2>6 DEF InspectValue, Bad
<1>5. CASE item.object /\ item.method = None /\ (item.id = None \/ item.body = {})
  <2>1. InspectValue(seen, item, dir, at) = seen
    BY <1>5 DEF InspectValue
  <2>2. ~Bad(item)
    BY <1>5 DEF Bad
  <2> QED
    BY <2>1, <2>2
<1> QED
  BY <1>2, <1>3, <1>4, <1>5

LEMMA AfterOk ==
    ASSUME NEW dir, NEW at \in Nat, NEW map \in PendingMap
    PROVE  \A s \in Seq(AnyItem) :
              After(dir, at, map, s).facts.ok <=> ~ \E item \in ToSet(s) : Bad(item)
<1> DEFINE Q == {s \in Seq(AnyItem) :
                   After(dir, at, map, s).facts.ok <=> ~ \E item \in ToSet(s) : Bad(item)}
<1>1. <<>> \in Q
  <2>1. After(dir, at, map, <<>>).facts.ok = TRUE
    BY AfterEmpty DEF Start, NoFacts
  <2>2. ToSet(<<>>) = {}
    BY DEF ToSet
  <2>3. <<>> \in Seq(AnyItem)
    BY EmptySeq
  <2> QED
    BY <2>1, <2>2, <2>3
<1>2. ASSUME NEW s \in Seq(AnyItem), NEW item \in AnyItem, s \in Q
      PROVE  Append(s, item) \in Q
  <2>1. ToSet(Append(s, item)) = ToSet(s) \cup {item}
    BY ToSetAppend
  <2>2. Append(s, item) \in Seq(AnyItem)
    BY AppendProperties
  <2>3. After(dir, at, map, s) \in Inspection
    BY AfterType
  <2>4. After(dir, at, map, Append(s, item)).facts.ok
           <=> After(dir, at, map, s).facts.ok /\ ~Bad(item)
    BY <2>3, AfterAppend, InspectOk
  <2> QED
    BY <1>2, <2>1, <2>2, <2>4
<1> HIDE DEF Q
<1>3. \A s \in Seq(AnyItem) : s \in Q
  BY <1>1, <1>2, SequenceInduction
<1> QED
  BY <1>3 DEF Q

(* A payload that is no batch, and so one item at most.                    *)
LEMMA OneItem ==
    ASSUME NEW item \in AnyItem, NEW dir \in Directions, NEW at \in Nat,
           NEW map \in PendingMap,
           NEW f, f = InspectValue(Start(map), item, dir, at).facts
    PROVE  /\ f.responses = 1 /\ f.methods # <<>> => dir = "s2c" /\ Len(f.latencies) = 1
           /\ f.requests = 1 \/ f.responses = 1 \/ f.responses = 0
<1> DEFINE request == map[item.id]
<1>1. /\ Start(map).facts = NoFacts /\ Start(map).pending = map
      /\ NoFacts.responses = 0 /\ NoFacts.methods = <<>> /\ NoFacts.latencies = <<>>
  BY DEF Start, NoFacts
<1>2. NoFacts \in AnyFacts
  BY NoFactsType
<1>3. CASE ~item.object
  <2>1. f = [NoFacts EXCEPT !.ok = FALSE]
    BY <1>3 DEF InspectValue, Start
  <2> QED
    BY <2>1 DEF NoFacts
<1>4. CASE item.object /\ item.method # None
  <2>1. f = InspectCall(Start(map), item, dir, at).facts
    BY <1>4 DEF InspectValue
  <2>2. f.responses = 0
    BY <2>1 DEF InspectCall, Start, NoFacts
  <2> QED
    BY <2>2
<1>5. CASE item.object /\ item.method = None /\ item.id # None /\ item.body # {}
  <2>1. f = InspectResponse(Start(map), item, dir, at).facts
    BY <1>5 DEF InspectValue
  <2>2. \E b : b = (TRUE /\ "error" \notin item.body)
    OBVIOUS
  <2>3. PICK b : b = (TRUE /\ "error" \notin item.body)
    BY <2>2
  <2>4. PICK g : g = [NoFacts EXCEPT !.responses = 1, !.ok = b]
    OBVIOUS
  <2>5. CASE dir = "s2c" /\ request # None
    <3>1. f = Correlate([NoFacts EXCEPT !.responses = 0 + 1,
                           !.ok = TRUE /\ "error" \notin item.body], request, item, at)
      BY <2>1, <2>5 DEF InspectResponse, Start, NoFacts
    <3>2. f.latencies = Append(<<>>, Elapsed(request.at, at))
      BY <3>1 DEF Correlate, NoFacts
    <3>3. Len(Append(<<>>, Elapsed(request.at, at))) = 1
      OBVIOUS
    <3>4. f.responses = 1
      BY <3>1 DEF Correlate, NoFacts
    <3> QED
      BY <2>5, <3>2, <3>3, <3>4
  <2>6. CASE ~(dir = "s2c" /\ request # None)
    <3>1. f = [NoFacts EXCEPT !.responses = 0 + 1, !.ok = TRUE /\ "error" \notin item.body]
      BY <2>1, <2>6 DEF InspectResponse, Start, NoFacts
    <3> QED
      BY <3>1 DEF NoFacts
  <2> QED
    BY <2>5, <2>6
<1>6. CASE item.object /\ item.method = None /\ (item.id = None \/ item.body = {})
  <2>1. f = NoFacts
    BY <1>1, <1>6 DEF InspectValue
  <2> QED
    BY <1>1, <2>1
<1> QED
  BY <1>3, <1>4, <1>5, <1>6

(* An event tells the truth of its payload.                                *)
Truth(e) ==
    /\ e.kind \in {"tools_call_response", "tools_list_response"} =>
          e.dir = "s2c" /\ Len(e.facts.latencies) = 1
    /\ e.facts.ok <=> (e.payload.json /\ ~ \E item \in ToSet(e.payload.items) : Bad(item))

LEMMA ObservedTruth ==
    ASSUME NEW p \in Payloads, NEW dir \in Directions, NEW at \in Nat,
           NEW map \in PendingMap
    PROVE  Truth(ObservePayloadAt(p, dir, map, at).event)
<1> DEFINE e == ObservePayloadAt(p, dir, map, at).event
           f == Inspected(p, dir, map, at).facts
<1>1. /\ p \in AnyPayload /\ p.json \in BOOLEAN /\ p.batch \in BOOLEAN
      /\ p.items \in Seq(AnyItem)
      /\ p.json /\ ~p.batch => Len(p.items) = 1
  BY ObserverLogAssumption DEF AnyPayload
<1>2. e.dir = dir /\ e.facts = f /\ e.kind = ClassifyKind(p, f) /\ e.payload = p
  BY DEF ObservePayloadAt
<1>3. /\ p.json => f = After(dir, at, map, p.items).facts
      /\ ~p.json => f = [Start(map) EXCEPT !.facts.ok = FALSE].facts
  <2>1. /\ p.json => Inspected(p, dir, map, at) = After(dir, at, map, p.items)
        /\ ~p.json => Inspected(p, dir, map, at) = [Start(map) EXCEPT !.facts.ok = FALSE]
    BY <1>1, InspectedAfter
  <2> QED
    BY <2>1
<1>4. f.ok <=> (p.json /\ ~ \E item \in ToSet(p.items) : Bad(item))
  <2>1. CASE p.json
    BY <1>1, <1>3, <2>1, AfterOk
  <2>2. CASE ~p.json
    <3>1. f.ok = FALSE
      BY <1>3, <2>2 DEF Start, NoFacts
    <3> QED
      BY <2>2, <3>1
  <2> QED
    BY <2>1, <2>2
<1>5. ASSUME ClassifyKind(p, f) \in {"tools_call_response", "tools_list_response"}
      PROVE  dir = "s2c" /\ Len(f.latencies) = 1
  <2>1. p.json /\ ~p.batch
    BY <1>1, <1>5 DEF ClassifyKind
  <2>2. /\ f.responses = 1 /\ f.methods # <<>>
    <3> HIDE DEF f
    <3>1. "tools/list" # None /\ "tools/call" # None
      BY NoneAssumption DEF Methods
    <3> QED
      BY <1>5, <2>1, <3>1 DEF ClassifyKind
  <2>3. PICK item \in AnyItem : p.items = <<item>>
    <3>a. Len(p.items) = 1
      BY <2>1, ObserverLogAssumption
    <3>1. Len(p.items) = 1 /\ 1 \in 1..Len(p.items)
      BY <3>a
    <3>2. p.items[1] \in AnyItem
      BY <1>1, <3>1, ElementOfSeq
    <3>3. p.items = <<p.items[1]>>
      BY <1>1, <3>1
    <3> QED
      BY <3>2, <3>3
  <2>4. f = InspectValue(Start(map), item, dir, at).facts
    <3>a. <<>> \in Seq(AnyItem)
      BY EmptySeq
    <3>1. PICK s \in Seq(AnyItem) : s = <<>>
      BY <3>a
    <3>b. <<item>> = Append(s, item)
      BY <3>1
    <3>2. After(dir, at, map, s) = Start(map)
      BY <3>1, AfterEmpty
    <3>3. After(dir, at, map, Append(s, item)) = InspectValue(Start(map), item, dir, at)
      BY <3>2, AfterAppend
    <3>4. After(dir, at, map, <<item>>) = InspectValue(Start(map), item, dir, at)
      BY <3>b, <3>3
    <3> QED
      BY <1>3, <2>1, <2>3, <3>4
  <2> HIDE DEF f
  <2> QED
    BY <2>2, <2>4, OneItem
<1> HIDE DEF e, f
<1> QED
  BY <1>2, <1>4, <1>5 DEF Truth, e

-----------------------------------------------------------------------------
(***************************************************************************)
(* The map of pending requests.  What has been met is a sequence of items, *)
(* each with its direction and time.                                       *)
(***************************************************************************)
Item(dir, at, item) == [dir |-> dir, at |-> at, item |-> item]

AnyMet == [dir : Directions, at : Nat, item : AnyItem]

Tagged(dir, at, s) == [n \in DOMAIN s |-> Item(dir, at, s[n])]

Touches(m, i) == Asks(m, i) \/ Answers(m, i)

Touching(met, i) == {k \in DOMAIN met : Asks(met[k], i) \/ Answers(met[k], i)}

LastTouching(met, i) ==
    CHOOSE k \in Touching(met, i) : \A j \in Touching(met, i) : j <= k

(* What PendingIsLatest says of one id.                                    *)
Latest(met, map, i) ==
    IF Touching(met, i) = {} \/ Answers(met[LastTouching(met, i)], i) THEN map[i] = None
    ELSE /\ map[i] # None
         /\ map[i].at = met[LastTouching(met, i)].at
         /\ map[i].method = met[LastTouching(met, i)].item.method

LatestAll(met, map) == \A i \in Ids : Latest(met, map, i)

LEMMA TouchingAppend ==
    ASSUME NEW met \in Seq(AnyMet), NEW m \in AnyMet, NEW i, NEW n \in Nat, n = Len(met)
    PROVE  /\ Touches(m, i) =>
                 /\ Touching(Append(met, m), i) = Touching(met, i) \cup {n + 1}
                 /\ LastTouching(Append(met, m), i) = n + 1
           /\ ~Touches(m, i) =>
                 /\ Touching(Append(met, m), i) = Touching(met, i)
                 /\ LastTouching(Append(met, m), i) = LastTouching(met, i)
           /\ Touching(met, i) \subseteq 1..n
<1> DEFINE all == Append(met, m)
<1>1. /\ DOMAIN met = 1..n /\ DOMAIN all = 1..(n + 1) /\ all[n + 1] = m
      /\ \A k \in 1..n : all[k] = met[k]
  BY AppendProperties, LenProperties
<1> HIDE DEF all
<1>2. Touching(met, i) \subseteq 1..n
  BY <1>1 DEF Touching
<1>3. CASE Touches(m, i)
  <2>1. Touching(all, i) = Touching(met, i) \cup {n + 1}
    <3>1. \A k : k \in Touching(all, i) <=> k \in Touching(met, i) \/ k = n + 1
      BY <1>1, <1>3 DEF Touching, Touches
    <3> QED
      BY <3>1
  <2>2. \A j \in Touching(all, i) : j <= n + 1
    BY <1>2, <2>1
  <2>3. \A k \in Touching(all, i) :
           (\A j \in Touching(all, i) : j <= k) => k = n + 1
    BY <1>2, <2>1
  <2>4. LastTouching(all, i) = n + 1
    BY <2>1, <2>2, <2>3 DEF LastTouching
  <2> QED
    BY <1>2, <1>3, <2>1, <2>4 DEF all
<1>4. CASE ~Touches(m, i)
  <2>1. Touching(all, i) = Touching(met, i)
    <3>1. \A k : k \in Touching(all, i) <=> k \in Touching(met, i)
      BY <1>1, <1>4 DEF Touching, Touches
    <3> QED
      BY <3>1
  <2>2. LastTouching(all, i) = LastTouching(met, i)
    BY <2>1 DEF LastTouching
  <2> QED
    BY <1>2, <1>4, <2>1, <2>2 DEF all
<1> QED
  BY <1>3, <1>4

LEMMA LastTouchingType ==
    ASSUME NEW met \in Seq(AnyMet), NEW i, Touching(met, i) # {}
    PROVE  /\ LastTouching(met, i) \in Touching(met, i)
           /\ \A j \in Touching(met, i) : j <= LastTouching(met, i)
<1> DEFINE T == Touching(met, i)
<1>1. PICK n \in Nat : n = Len(met) /\ DOMAIN met = 1..n
  BY LenProperties
<1>2. T \subseteq 1..n
  BY <1>1 DEF Touching
<1> HIDE DEF T
<1>3. \E k \in T : \A j \in T : j <= k
  <2> DEFINE Back == {n - k : k \in T}
  <2>1. Back \subseteq Nat /\ Back # {}
    <3>1. \A k \in T : n - k \in Nat
      BY <1>2
    <3>2. T # {}
      BY DEF T
    <3> QED
      BY <3>1, <3>2
  <2>2. PICK b \in Back : \A c \in Back : b <= c
    <3> HIDE DEF Back
    <3> QED
      BY <2>1, LeastNatural
  <2>3. PICK k \in T : b = n - k
    BY <2>2
  <2>4. \A j \in T : j <= k
    <3> SUFFICES ASSUME NEW j \in T
                 PROVE  j <= k
      OBVIOUS
    <3>1. n - k <= n - j
      BY <2>2, <2>3
    <3> QED
      BY <1>2, <3>1
  <2> QED
    BY <2>4
<1> QED
  BY <1>3 DEF LastTouching, T

(* What an item does to the map.                                           *)
LEMMA InspectPending ==
    ASSUME NEW seen \in Inspection, NEW item \in AnyItem, NEW dir \in Directions,
           NEW at \in Nat, NEW i \in Ids,
           NEW m, m = Item(dir, at, item),
           NEW map, map = InspectValue(seen, item, dir, at).pending
    PROVE  /\ ~Touches(m, i) => map[i] = seen.pending[i]
           /\ Answers(m, i) => map[i] = None
           /\ Asks(m, i) => /\ map[i] # None /\ map[i].at = at
                            /\ map[i].method = item.method
           /\ ~(Asks(m, i) /\ Answers(m, i))
<1>1. seen.pending \in [Ids -> Request \cup {None}]
  BY DEF Inspection, PendingMap
<1>2. None \notin Ids /\ None \notin Request
  BY NoneAssumption
<1>3. m.dir = dir /\ m.at = at /\ m.item = item
  BY DEF Item
<1>4. ~(Asks(m, i) /\ Answers(m, i))
  BY DEF Asks, Answers
<1>5. CASE ~item.object
  <2>1. map = seen.pending
    BY <1>5 DEF InspectValue
  <2> QED
    BY <1>3, <1>4, <1>5, <2>1 DEF Touches, Asks, Answers
<1>6. CASE item.object /\ item.method # None
  <2> DEFINE tool == IF item.method = "tools/call" THEN item.name ELSE None
             request == [method |-> item.method, tool |-> tool, at |-> at]
  <2>1. map = IF item.id # None /\ dir = "c2s"
              THEN [seen.pending EXCEPT ![item.id] = request]
              ELSE seen.pending
    BY <1>6 DEF InspectValue, InspectCall
  <2>2. request \in Request
    BY <1>6 DEF AnyItem, Request
  <2>3. request.at = at /\ request.method = item.method /\ request # None
    BY <1>2, <2>2
  <2> HIDE DEF request
  <2>4. CASE Asks(m, i)
    <3>1. map[i] = request
      BY <1>1, <1>2, <1>3, <2>1, <2>4 DEF Asks
    <3> QED
      BY <1>4, <2>3, <2>4, <3>1 DEF Touches
  <2>5. CASE ~Asks(m, i)
    <3>1. map[i] = seen.pending[i]
      BY <1>1, <1>2, <1>3, <1>6, <2>1, <2>5 DEF Asks
    <3>2. ~Answers(m, i)
      BY <1>3, <1>6 DEF Answers
    <3> QED
      BY <2>5, <3>1, <3>2
  <2> QED
    BY <2>4, <2>5
<1>7. CASE item.object /\ item.method = None /\ item.id # None /\ item.body # {}
  <2>1. map = IF dir = "s2c" /\ seen.pending[item.id] # None
              THEN [seen.pending EXCEPT ![item.id] = None] ELSE seen.pending
    <3>1. map = InspectResponse(seen, item, dir, at).pending
      BY <1>7 DEF InspectValue
    <3>2. \A f : [seen EXCEPT !.facts = f].pending = seen.pending
      BY DEF Inspection
    <3> QED
      BY <3>1, <3>2 DEF InspectResponse
  <2>2. ~Asks(m, i)
    BY <1>3, <1>7 DEF Asks
  <2>3. Answers(m, i) <=> dir = "s2c" /\ item.id = i
    BY <1>3, <1>7 DEF Answers
  <2>4. Answers(m, i) => map[i] = None
    BY <1>1, <2>1, <2>3
  <2>5. ~Answers(m, i) => map[i] = seen.pending[i]
    BY <1>1, <2>1, <2>3
  <2> QED
    BY <2>2, <2>4, <2>5 DEF Touches
<1>8. CASE item.object /\ item.method = None /\ (item.id = None \/ item.body = {})
  <2>1. map = seen.pending
    BY <1>8 DEF InspectValue
  <2>2. ~Asks(m, i) /\ ~Answers(m, i)
    BY <1>2, <1>3, <1>8 DEF Asks, Answers
  <2> QED
    BY <2>1, <2>2
<1> QED
  BY <1>5, <1>6, <1>7, <1>8

LEMMA LatestStep ==
    ASSUME NEW met \in Seq(AnyMet), NEW seen \in Inspection, NEW item \in AnyItem,
           NEW dir \in Directions, NEW at \in Nat, LatestAll(met, seen.pending)
    PROVE  LatestAll(Append(met, Item(dir, at, item)),
                     InspectValue(seen, item, dir, at).pending)
<1>a. Item(dir, at, item) \in AnyMet
  BY DEF Item, AnyMet
<1>b. PICK m \in AnyMet : m = Item(dir, at, item)
  BY <1>a
<1>1. m = Item(dir, at, item) /\ m.at = at /\ m.item = item
  BY <1>b DEF Item
<1>2. PICK map : map = InspectValue(seen, item, dir, at).pending
  OBVIOUS
<1>c. PICK n \in Nat : n = Len(met) /\ DOMAIN met = 1..n
  BY LenProperties
<1>d. PICK all \in Seq(AnyMet) : all = Append(met, m)
  BY AppendProperties
<1>3. /\ n = Len(met) /\ DOMAIN met = 1..n /\ all = Append(met, m)
      /\ all[n + 1] = m /\ \A k \in 1..n : all[k] = met[k]
  BY <1>c, <1>d, AppendProperties
<1> SUFFICES ASSUME NEW i \in Ids
             PROVE  Latest(all, map, i)
  BY <1>1, <1>2, <1>3 DEF LatestAll
<1>4. Latest(met, seen.pending, i)
  BY DEF LatestAll
<1>5. /\ ~Touches(m, i) => map[i] = seen.pending[i]
      /\ Answers(m, i) => map[i] = None
      /\ Asks(m, i) => map[i] # None /\ map[i].at = at /\ map[i].method = item.method
      /\ ~(Asks(m, i) /\ Answers(m, i))
  BY <1>1, <1>2, InspectPending
<1>6. CASE Touches(m, i)
  <2>1. /\ LastTouching(all, i) = n + 1
        /\ Touching(all, i) # {}
    <3>1. /\ Touching(all, i) = Touching(met, i) \cup {n + 1}
          /\ LastTouching(all, i) = n + 1
      BY <1>3, <1>6, TouchingAppend
    <3> QED
      BY <3>1
  <2>2. all[LastTouching(all, i)] = m
    BY <1>3, <2>1
  <2>3. CASE Answers(m, i)
    BY <1>5, <2>2, <2>3 DEF Latest
  <2>4. CASE Asks(m, i)
    BY <1>1, <1>5, <2>1, <2>2, <2>4 DEF Latest
  <2> QED
    BY <1>6, <2>3, <2>4 DEF Touches
<1>7. CASE ~Touches(m, i)
  <2>1. /\ Touching(all, i) = Touching(met, i)
        /\ LastTouching(all, i) = LastTouching(met, i)
        /\ Touching(met, i) \subseteq 1..n
    BY <1>3, <1>7, TouchingAppend
  <2>2. map[i] = seen.pending[i]
    BY <1>5, <1>7
  <2>3. CASE Touching(met, i) = {}
    BY <1>4, <2>1, <2>2, <2>3 DEF Latest
  <2>4. CASE Touching(met, i) # {}
    <3>1. LastTouching(met, i) \in 1..n
      BY <2>1, <2>4, LastTouchingType
    <3>2. all[LastTouching(all, i)] = met[LastTouching(met, i)]
      BY <1>3, <2>1, <3>1
    <3> QED
      BY <1>4, <2>1, <2>2, <3>2 DEF Latest
  <2> QED
    BY <2>3, <2>4
<1> QED
  BY <1>6, <1>7

-----------------------------------------------------------------------------
(***************************************************************************)
(* Where the requests are.                                                 *)
(***************************************************************************)
Asked(met) == {k \in DOMAIN met : \E i \in Ids : Asks(met[k], i)}

Displaces(met, j, k) ==
    /\ k < j /\ met[k].item.id = met[j].item.id
    /\ \A l \in k+1..j :
          l = j \/ ~(Asks(met[l], met[k].item.id) \/ Answers(met[l], met[k].item.id))

Displaced(met) == {k \in Asked(met) : \E j \in Asked(met) : Displaces(met, j, k)}

WaitingIds(map) == {i \in Ids : map[i] # None}

Balance(met, map, timed) ==
    /\ IsFiniteSet(WaitingIds(map))
    /\ Cardinality(Asked(met))
          = timed + Cardinality(Displaced(met)) + Cardinality(WaitingIds(map))

LEMMA AskedAppend ==
    ASSUME NEW met \in Seq(AnyMet), NEW m \in AnyMet, NEW n \in Nat, n = Len(met)
    PROVE  /\ (\E i \in Ids : Asks(m, i)) => Asked(Append(met, m)) = Asked(met) \cup {n + 1}
           /\ ~(\E i \in Ids : Asks(m, i)) => Asked(Append(met, m)) = Asked(met)
           /\ Asked(met) \subseteq 1..n
<1> DEFINE all == Append(met, m)
<1>1. /\ DOMAIN met = 1..n /\ DOMAIN all = 1..(n + 1) /\ all[n + 1] = m
      /\ \A k \in 1..n : all[k] = met[k]
  BY AppendProperties, LenProperties
<1> HIDE DEF all
<1>2. Asked(met) \subseteq 1..n
  BY <1>1 DEF Asked
<1>3. \A k : k \in Asked(all) <=>
               k \in Asked(met) \/ (k = n + 1 /\ \E i \in Ids : Asks(m, i))
  BY <1>1 DEF Asked
<1> QED
  BY <1>2, <1>3 DEF all

(* A request is displaced by one with its id when it is the last to touch  *)
(* that id, that is, when it is the one that waits.                        *)
LEMMA DisplacedNow ==
    ASSUME NEW met \in Seq(AnyMet), NEW map, NEW i \in Ids, Latest(met, map, i),
           NEW n \in Nat, n = Len(met)
    PROVE  {k \in Asked(met) : /\ met[k].item.id = i
                               /\ \A l \in k+1..n : ~Touches(met[l], i)}
              = IF map[i] # None THEN {LastTouching(met, i)} ELSE {}
<1> DEFINE D == {k \in Asked(met) : /\ met[k].item.id = i
                                    /\ \A l \in k+1..n : ~Touches(met[l], i)}
           last == LastTouching(met, i)
<1>1. DOMAIN met = 1..n
  BY LenProperties
<1>2. ASSUME NEW k \in D
      PROVE  k = last /\ Touching(met, i) # {} /\ Asks(met[k], i)
  <2>1. k \in 1..n /\ Asks(met[k], i)
    BY <1>1 DEF Asked, Asks
  <2>2. k \in Touching(met, i)
    BY <1>1, <2>1 DEF Touching
  <2>3. ASSUME NEW j \in Touching(met, i)
        PROVE  j <= k
    <3>1. j \in 1..n /\ Touches(met[j], i)
      BY <1>1 DEF Touching, Touches
    <3>2. j \notin k+1..n
      BY <3>1
    <3> QED
      BY <2>1, <3>1, <3>2
  <2>4. last \in Touching(met, i) /\ k <= last
    BY <2>2, LastTouchingType
  <2>5. last <= k /\ last \in 1..n
    BY <1>1, <2>3, <2>4 DEF Touching
  <2> QED
    BY <2>1, <2>2, <2>4, <2>5
<1>3. CASE map[i] # None
  <2>1. Touching(met, i) # {} /\ ~Answers(met[last], i)
    BY <1>3 DEF Latest
  <2>2. last \in Touching(met, i) /\ \A j \in Touching(met, i) : j <= last
    BY <2>1, LastTouchingType
  <2>3. last \in 1..n /\ Asks(met[last], i)
    BY <1>1, <2>1, <2>2 DEF Touching
  <2>4. last \in Asked(met) /\ met[last].item.id = i
    BY <1>1, <2>3 DEF Asked, Asks
  <2>5. \A l \in last+1..n : ~Touches(met[l], i)
    <3> SUFFICES ASSUME NEW l \in last+1..n, Touches(met[l], i)
                 PROVE  FALSE
      OBVIOUS
    <3>1. l \in 1..n /\ ~(l <= last)
      BY <2>3
    <3>2. l \in Touching(met, i)
      BY <1>1, <3>1 DEF Touching, Touches
    <3> QED
      BY <2>2, <3>1, <3>2
  <2>6. last \in D
    BY <2>4, <2>5
  <2> HIDE DEF D, last
  <2> QED
    BY <1>2, <1>3, <2>6 DEF D, last
<1>4. CASE map[i] = None
  <2>1. \A k : k \notin D
    <3> SUFFICES ASSUME NEW k \in D
                 PROVE  FALSE
      OBVIOUS
    <3>1. k = last /\ Touching(met, i) # {} /\ Asks(met[k], i)
      BY <1>2
    <3>2. ~Answers(met[k], i)
      BY <3>1 DEF Asks, Answers
    <3> QED
      BY <1>4, <3>1, <3>2 DEF Latest
  <2> HIDE DEF D
  <2>2. D = {}
    BY <2>1
  <2> QED
    BY <1>4, <2>2 DEF D
<1> QED
  BY <1>3, <1>4

LEMMA DisplacedAppend ==
    ASSUME NEW met \in Seq(AnyMet), NEW m \in AnyMet, NEW n \in Nat, n = Len(met)
    PROVE  /\ ~(\E i \in Ids : Asks(m, i)) => Displaced(Append(met, m)) = Displaced(met)
           /\ \A i \in Ids : Asks(m, i) =>
                 Displaced(Append(met, m))
                    = Displaced(met) \cup
                      {k \in Asked(met) : /\ met[k].item.id = i
                                          /\ \A l \in k+1..n : ~Touches(met[l], i)}
<1> DEFINE all == Append(met, m)
<1>1. /\ DOMAIN met = 1..n /\ DOMAIN all = 1..(n + 1) /\ all[n + 1] = m
      /\ \A k \in 1..n : all[k] = met[k]
  BY AppendProperties, LenProperties
<1>2. /\ (\E i \in Ids : Asks(m, i)) => Asked(all) = Asked(met) \cup {n + 1}
      /\ ~(\E i \in Ids : Asks(m, i)) => Asked(all) = Asked(met)
      /\ Asked(met) \subseteq 1..n
  BY AskedAppend
<1> HIDE DEF all
<1>3. ASSUME NEW j \in 1..n, NEW k \in 1..n
      PROVE  Displaces(all, j, k) <=> Displaces(met, j, k)
  <2>1. all[j] = met[j] /\ all[k] = met[k] /\ \A l \in k+1..j : all[l] = met[l]
    BY <1>1
  <2> QED
    BY <2>1 DEF Displaces
<1>4. ASSUME NEW j \in 1..(n + 1)
      PROVE  ~Displaces(all, j, n + 1)
  BY DEF Displaces
<1>5. ASSUME ~ \E i \in Ids : Asks(m, i)
      PROVE  Displaced(all) = Displaced(met)
  <2>1. Asked(all) = Asked(met)
    BY <1>2, <1>5
  <2>2. \A j \in Asked(met), k \in Asked(met) : Displaces(all, j, k) <=> Displaces(met, j, k)
    BY <1>2, <1>3
  <2> QED
    BY <2>1, <2>2 DEF Displaced
<1>6. ASSUME NEW i \in Ids, Asks(m, i)
      PROVE  Displaced(all) = Displaced(met) \cup
                {k \in Asked(met) : /\ met[k].item.id = i
                                    /\ \A l \in k+1..n : ~Touches(met[l], i)}
  <2>1. Asked(all) = Asked(met) \cup {n + 1}
    BY <1>2, <1>6
  <2>2. m.item.id = i
    BY <1>6 DEF Asks
  <2>3. ASSUME NEW k \in Asked(met)
        PROVE  Displaces(all, n + 1, k) <=>
                  /\ met[k].item.id = i /\ \A l \in k+1..n : ~Touches(met[l], i)
    <3>1. k \in 1..n /\ all[k] = met[k] /\ all[n + 1].item.id = i
      BY <1>1, <1>2, <2>2, <2>3
    <3>2. ASSUME met[k].item.id = i
          PROVE  (\A l \in k+1..n+1 : l = n + 1 \/ ~Touches(all[l], i))
                    <=> \A l \in k+1..n : ~Touches(met[l], i)
      <4>1. \A l \in k+1..n : l \in k+1..n+1 /\ l # n + 1 /\ all[l] = met[l]
        BY <1>1, <3>1
      <4>2. \A l \in k+1..n+1 : l = n + 1 \/ l \in k+1..n
        BY <3>1
      <4> QED
        BY <4>1, <4>2
    <3> QED
      BY <3>1, <3>2 DEF Displaces, Touches
  <2>4. \A j \in Asked(met), k \in Asked(met) : Displaces(all, j, k) <=> Displaces(met, j, k)
    BY <1>2, <1>3
  <2>5. \A j \in Asked(all) : ~Displaces(all, j, n + 1)
    <3>1. Asked(all) \subseteq 1..(n + 1)
      BY <1>2, <2>1
    <3> QED
      BY <1>4, <3>1
  <2>6. \A k : k \in Displaced(all) <=>
           k \in Displaced(met) \/ (k \in Asked(met) /\ Displaces(all, n + 1, k))
    BY <2>1, <2>4, <2>5 DEF Displaced
  <2> QED
    BY <2>3, <2>6 DEF Displaced
<1> QED
  BY <1>5, <1>6 DEF all

(* An item is timed when it answers a request that waits.                  *)
LEMMA InspectTimed ==
    ASSUME NEW seen \in Inspection, NEW item \in AnyItem, NEW dir \in Directions,
           NEW at \in Nat, NEW m, m = Item(dir, at, item)
    PROVE  LET Now == \E i \in Ids : Answers(m, i) /\ seen.pending[i] # None
               was == Len(seen.facts.latencies)
               is  == Len(InspectValue(seen, item, dir, at).facts.latencies)
           IN  (Now => is = was + 1) /\ (~Now => is = was)
<1> DEFINE f == seen.facts
           g == InspectValue(seen, item, dir, at).facts
           Now == \E i \in Ids : Answers(m, i) /\ seen.pending[i] # None
<1>1. f \in AnyFacts /\ seen.pending \in [Ids -> Request \cup {None}]
  BY DEF Inspection, PendingMap
<1>2. PICK s \in Seq(Nat), n \in Nat : s = f.latencies /\ n = Len(s)
  <2>1. f.latencies \in Seq(Nat)
    BY <1>1 DEF AnyFacts
  <2> QED
    BY <2>1, LenProperties
<1>3. m.dir = dir /\ m.item = item
  BY DEF Item
<1>4. item.id # None => item.id \in Ids
  BY DEF AnyItem
<1>5. CASE ~item.object
  <2>1. g.latencies = s
    BY <1>1, <1>2, <1>5 DEF InspectValue, Inspection, AnyFacts
  <2>2. ~Now
    BY <1>3, <1>5 DEF Answers
  <2> QED
    BY <1>2, <2>1, <2>2
<1>6. CASE item.object /\ item.method # None
  <2>1. g = InspectCall(seen, item, dir, at).facts
    BY <1>6 DEF InspectValue
  <2>2. g.latencies = s
    BY <1>1, <1>2, <2>1 DEF InspectCall, AnyFacts
  <2>3. ~Now
    BY <1>3, <1>6 DEF Answers
  <2> QED
    BY <1>2, <2>2, <2>3
<1>7. CASE item.object /\ item.method = None /\ item.id # None /\ item.body # {}
  <2>1. g = InspectResponse(seen, item, dir, at).facts
    BY <1>7 DEF InspectValue
  <2>2. Now <=> dir = "s2c" /\ seen.pending[item.id] # None
    BY <1>3, <1>4, <1>7 DEF Answers
  <2>3. PICK h : h = [f EXCEPT !.responses = f.responses + 1,
                               !.ok = f.ok /\ "error" \notin item.body]
    OBVIOUS
  <2>4. h.latencies = s /\ h \in [DOMAIN h -> {h[x] : x \in DOMAIN h}]
        /\ DOMAIN h = DOMAIN f
    BY <1>1, <1>2, <2>3 DEF AnyFacts
  <2>5. g = IF dir = "s2c" /\ seen.pending[item.id] # None
            THEN Correlate(h, seen.pending[item.id], item, at) ELSE h
    <3>1. [seen EXCEPT !.facts = h].facts = h
      BY DEF Inspection
    <3> QED
      BY <2>1, <2>3, <3>1 DEF InspectResponse
  <2>6. \A request : Correlate(h, request, item, at).latencies
                        = Append(s, Elapsed(request.at, at))
    <3>1. "latencies" \in DOMAIN h
      BY <1>1, <2>4 DEF AnyFacts
    <3> QED
      BY <2>4, <3>1 DEF Correlate
  <2>7. CASE Now
    <3>1. PICK request \in Request : request = seen.pending[item.id]
      BY <1>1, <1>4, <1>7, <2>2, <2>7
    <3>2. Elapsed(request.at, at) \in Nat
      BY ElapsedType DEF Request
    <3>3. PICK e \in Nat : e = Elapsed(request.at, at)
      BY <3>2
    <3>4. g.latencies = Append(s, e)
      BY <2>2, <2>5, <2>6, <2>7, <3>1, <3>3
    <3>5. Len(Append(s, e)) = n + 1
      BY <1>2, AppendProperties
    <3> QED
      BY <1>2, <2>7, <3>4, <3>5
  <2>8. CASE ~Now
    BY <1>2, <2>2, <2>4, <2>5, <2>8
  <2> QED
    BY <2>7, <2>8
<1>8. CASE item.object /\ item.method = None /\ (item.id = None \/ item.body = {})
  <2>1. g = f
    BY <1>8 DEF InspectValue
  <2>2. ~Now
    BY <1>3, <1>8, NoneAssumption DEF Answers
  <2> QED
    BY <1>2, <2>1, <2>2
<1> QED
  BY <1>5, <1>6, <1>7, <1>8

LEMMA BalanceStep ==
    ASSUME NEW met \in Seq(AnyMet), NEW seen \in Inspection, NEW item \in AnyItem,
           NEW dir \in Directions, NEW at \in Nat, LatestAll(met, seen.pending),
           NEW t \in Nat, Balance(met, seen.pending, t),
           NEW u \in Nat,
           u + Len(seen.facts.latencies)
              = t + Len(InspectValue(seen, item, dir, at).facts.latencies)
    PROVE  Balance(Append(met, Item(dir, at, item)),
                   InspectValue(seen, item, dir, at).pending, u)
<1>a. Item(dir, at, item) \in AnyMet
  BY DEF Item, AnyMet
<1>b. PICK m \in AnyMet : m = Item(dir, at, item)
  BY <1>a
<1>c. PICK n \in Nat : n = Len(met)
  BY LenProperties
<1> DEFINE all == Append(met, m)
           was == seen.pending
           map == InspectValue(seen, item, dir, at).pending
           Now == \E i \in Ids : Answers(m, i) /\ was[i] # None
<1>1. was \in [Ids -> Request \cup {None}] /\ map \in [Ids -> Request \cup {None}]
  BY InspectType DEF Inspection, PendingMap
<1>2. (Now => u = t + 1) /\ (~Now => u = t)
  <2>1. PICK k \in Nat : k = Len(seen.facts.latencies)
    <3>1. seen.facts.latencies \in Seq(Nat)
      BY DEF Inspection, AnyFacts
    <3> QED
      BY <3>1, LenProperties
  <2>2. PICK l : l = Len(InspectValue(seen, item, dir, at).facts.latencies)
    OBVIOUS
  <2>3. (Now => l = k + 1) /\ (~Now => l = k)
    BY <1>b, <2>1, <2>2, InspectTimed
  <2>4. u + k = t + l
    BY <2>1, <2>2
  <2> HIDE DEF Now
  <2> QED
    BY <2>3, <2>4
<1>3. \A i \in Ids :
         /\ ~Touches(m, i) => map[i] = was[i]
         /\ Answers(m, i) => map[i] = None
         /\ Asks(m, i) => map[i] # None
         /\ ~(Asks(m, i) /\ Answers(m, i))
  BY <1>b, InspectPending
<1>4. /\ (\E i \in Ids : Asks(m, i)) => Asked(all) = Asked(met) \cup {n + 1}
      /\ ~(\E i \in Ids : Asks(m, i)) => Asked(all) = Asked(met)
      /\ Asked(met) \subseteq 1..n
  BY <1>c, AskedAppend
<1>5. /\ ~(\E i \in Ids : Asks(m, i)) => Displaced(all) = Displaced(met)
      /\ \A i \in Ids : Asks(m, i) =>
            Displaced(all) = Displaced(met) \cup
               (IF was[i] # None THEN {LastTouching(met, i)} ELSE {})
  <2>1. \A i \in Ids : {k \in Asked(met) : /\ met[k].item.id = i
                                           /\ \A l \in k+1..n : ~Touches(met[l], i)}
                          = IF was[i] # None THEN {LastTouching(met, i)} ELSE {}
    BY <1>c, DisplacedNow DEF LatestAll
  <2> QED
    <3> HIDE DEF was
    <3>1. /\ \A i \in Ids : Asks(m, i) =>
               Displaced(all) = Displaced(met) \cup
                  {k \in Asked(met) : /\ met[k].item.id = i
                                      /\ \A l \in k+1..n : ~Touches(met[l], i)}
          /\ ~(\E i \in Ids : Asks(m, i)) => Displaced(all) = Displaced(met)
      BY <1>c, DisplacedAppend
    <3> HIDE DEF all
    <3> QED
      BY <2>1, <3>1
<1> HIDE DEF all, map, was, Now
<1>6. IsFiniteSet(Asked(met)) /\ IsFiniteSet(Displaced(met)) /\ IsFiniteSet(WaitingIds(was))
  <2>1. IsFiniteSet(1..n)
    BY FS_Interval
  <2>2. IsFiniteSet(Asked(met))
    BY <1>4, <2>1, FS_Subset
  <2>3. Displaced(met) \subseteq Asked(met)
    BY DEF Displaced
  <2> QED
    BY <2>2, <2>3, FS_Subset DEF Balance, was
<1>7. PICK a \in Nat, d \in Nat, w \in Nat :
         /\ a = Cardinality(Asked(met)) /\ d = Cardinality(Displaced(met))
         /\ w = Cardinality(WaitingIds(was)) /\ a = t + d + w
  BY <1>6, FS_CardinalityType DEF Balance, was
<1>8. CASE \E i \in Ids : Asks(m, i)
  <2>1. PICK i \in Ids : Asks(m, i)
    BY <1>8
  <2>2. \A j \in Ids : j # i => ~Touches(m, j)
    BY <2>1 DEF Touches, Asks, Answers
  <2>3. WaitingIds(map) = WaitingIds(was) \cup {i}
    BY <1>3, <2>1, <2>2 DEF WaitingIds
  <2>4. ~Now
    BY <2>1 DEF Now, Asks, Answers
  <2>5. Cardinality(Asked(all)) = a + 1
    <3>1. n + 1 \notin Asked(met)
      BY <1>4
    <3>2. Asked(all) = Asked(met) \cup {n + 1}
      BY <1>4, <1>8
    <3>3. Cardinality(Asked(met) \cup {n + 1}) = Cardinality(Asked(met)) + 1
      BY <1>6, <3>1, FS_AddElement
    <3> QED
      BY <1>7, <3>2, <3>3
  <2>6. /\ IsFiniteSet(WaitingIds(map))
        /\ Cardinality(WaitingIds(map)) = IF was[i] # None THEN w ELSE w + 1
    <3>1. i \in WaitingIds(was) <=> was[i] # None
      BY DEF WaitingIds
    <3>2. PICK W : W = WaitingIds(was) /\ IsFiniteSet(W) /\ w = Cardinality(W)
      BY <1>6, <1>7
    <3>3. /\ IsFiniteSet(W \cup {i})
          /\ Cardinality(W \cup {i}) = IF i \in W THEN Cardinality(W) ELSE Cardinality(W) + 1
      BY <3>2, FS_AddElement
    <3>4. WaitingIds(map) = W \cup {i} /\ (i \in W <=> was[i] # None)
      BY <2>3, <3>1, <3>2
    <3> QED
      BY <3>2, <3>3, <3>4
  <2>7. Cardinality(Displaced(all)) = IF was[i] # None THEN d + 1 ELSE d
    <3>1. CASE was[i] # None
      <4>1. Displaced(all) = Displaced(met) \cup {LastTouching(met, i)}
        BY <1>5, <2>1, <3>1
      <4>2. LastTouching(met, i) \notin Displaced(met)
        <5> SUFFICES ASSUME LastTouching(met, i) \in Displaced(met)
                     PROVE  FALSE
          OBVIOUS
        <5>1. Latest(met, was, i)
          BY DEF LatestAll, was
        <5>2. Touching(met, i) # {} /\ ~Answers(met[LastTouching(met, i)], i)
          BY <3>1, <5>1 DEF Latest
        <5>3. PICK k : /\ k = LastTouching(met, i) /\ k \in Touching(met, i)
                       /\ \A j \in Touching(met, i) : j <= k
          BY <5>2, LastTouchingType
        <5>4. Asks(met[k], i)
          BY <5>2, <5>3 DEF Touching
        <5>5. PICK j \in Asked(met) : Displaces(met, j, k)
          BY <5>3 DEF Displaced
        <5>6. met[j].item.id = i /\ k < j
          BY <5>4, <5>5 DEF Displaces, Asks
        <5>7. j \in Touching(met, i)
          BY <5>6 DEF Asked, Asks, Touching
        <5>8. k \in Nat /\ j \in Nat
          <6>1. DOMAIN met = 1..n
            BY <1>c, LenProperties
          <6> QED
            BY <5>3, <5>7, <6>1 DEF Touching
        <5> QED
          BY <5>3, <5>6, <5>7, <5>8
      <4> QED
        BY <1>6, <1>7, <3>1, <4>1, <4>2, FS_AddElement
    <3>2. CASE was[i] = None
      <4>1. Displaced(all) = Displaced(met)
        BY <1>5, <2>1, <3>2
      <4> QED
        BY <1>7, <3>2, <4>1
    <3> QED
      BY <3>1, <3>2
  <2>8. Balance(all, map, u)
    <3>1. u = t
      BY <1>2, <2>4
    <3>2. PICK x, y, z \in Nat :
             /\ x = Cardinality(Asked(all)) /\ y = Cardinality(Displaced(all))
             /\ z = Cardinality(WaitingIds(map)) /\ x = a + 1 /\ y + z = d + w + 1
      <4>1. CASE was[i] # None
        <5>1. PICK y \in Nat : y = d + 1 /\ y + w = d + w + 1
          OBVIOUS
        <5>2. Cardinality(Displaced(all)) = y /\ Cardinality(WaitingIds(map)) = w
          BY <2>6, <2>7, <4>1, <5>1
        <5> QED
          BY <2>5, <5>1, <5>2
      <4>2. CASE was[i] = None
        <5>1. PICK z \in Nat : z = w + 1 /\ d + z = d + w + 1
          OBVIOUS
        <5>2. Cardinality(Displaced(all)) = d /\ Cardinality(WaitingIds(map)) = z
          BY <2>6, <2>7, <4>2, <5>1
        <5> QED
          BY <2>5, <5>1, <5>2
      <4> QED
        BY <4>1, <4>2
    <3>3. x = t + y + z
      <4>1. a = t + d + w
        BY <1>7
      <4>2. x = a + 1 /\ y + z = d + w + 1
        BY <3>2
      <4> QED
        BY <4>1, <4>2
    <3> QED
      BY <2>6, <3>1, <3>2, <3>3 DEF Balance
  <2> QED
    BY <1>b, <2>8 DEF all, map
<1>9. CASE ~ \E i \in Ids : Asks(m, i)
  <2>1. Asked(all) = Asked(met) /\ Displaced(all) = Displaced(met)
    BY <1>4, <1>5, <1>9
  <2>2. CASE Now
    <3>1. PICK i \in Ids : Answers(m, i) /\ was[i] # None
      BY <2>2 DEF Now
    <3>2. \A j \in Ids : j # i => ~Touches(m, j)
      BY <3>1 DEF Touches, Asks, Answers
    <3>3. WaitingIds(map) = WaitingIds(was) \ {i} /\ i \in WaitingIds(was)
      BY <1>3, <3>1, <3>2 DEF WaitingIds
    <3>4. IsFiniteSet(WaitingIds(map)) /\ Cardinality(WaitingIds(map)) = w - 1
      <4>1. PICK W : W = WaitingIds(was) /\ IsFiniteSet(W) /\ w = Cardinality(W) /\ i \in W
        BY <1>6, <1>7, <3>3
      <4>2. IsFiniteSet(W \ {i}) /\ Cardinality(W \ {i}) = Cardinality(W) - 1
        BY <4>1, FS_RemoveElement
      <4> QED
        BY <3>3, <4>1, <4>2
    <3>5. Balance(all, map, u)
      BY <1>2, <1>7, <2>1, <2>2, <3>4 DEF Balance
    <3> QED
      BY <1>b, <3>5 DEF all, map
  <2>3. CASE ~Now
    <3>1. WaitingIds(map) = WaitingIds(was)
      <4> SUFFICES ASSUME NEW i \in Ids
                   PROVE  map[i] # None <=> was[i] # None
        BY DEF WaitingIds
      <4>1. CASE Answers(m, i)
        BY <1>3, <2>3, <4>1 DEF Now
      <4>2. CASE ~Answers(m, i)
        BY <1>3, <1>9, <4>2 DEF Touches
      <4> QED
        BY <4>1, <4>2
    <3>2. Balance(all, map, u)
      BY <1>2, <1>6, <1>7, <2>1, <2>3, <3>1 DEF Balance
    <3> QED
      BY <1>b, <3>2 DEF all, map
  <2> QED
    BY <2>2, <2>3
<1> QED
  BY <1>8, <1>9

-----------------------------------------------------------------------------
(***************************************************************************)
(* The items of a payload, one after the other.                            *)
(***************************************************************************)
LEMMA TaggedType ==
    ASSUME NEW dir \in Directions, NEW at \in Nat, NEW s \in Seq(AnyItem)
    PROVE  Tagged(dir, at, s) \in Seq(AnyMet)
<1>1. PICK n \in Nat : n = Len(s) /\ DOMAIN s = 1..n
  BY LenProperties
<1>2. \A k \in 1..n : Item(dir, at, s[k]) \in AnyMet
  BY <1>1, ElementOfSeq DEF Item, AnyMet
<1> QED
  BY <1>1, <1>2 DEF Tagged

LEMMA TaggedEmpty ==
    ASSUME NEW dir, NEW at
    PROVE  Tagged(dir, at, <<>>) = <<>>
  BY DEF Tagged

LEMMA TaggedAppend ==
    ASSUME NEW dir \in Directions, NEW at \in Nat, NEW s \in Seq(AnyItem),
           NEW item \in AnyItem
    PROVE  Tagged(dir, at, Append(s, item)) = Append(Tagged(dir, at, s), Item(dir, at, item))
<1> DEFINE all == Append(s, item)
           old == Tagged(dir, at, s)
           m == Item(dir, at, item)
<1>1. PICK n \in Nat : n = Len(s) /\ DOMAIN s = 1..n
  BY LenProperties
<1>2. /\ DOMAIN all = 1..(n + 1) /\ all[n + 1] = item /\ \A k \in 1..n : all[k] = s[k]
  BY <1>1, AppendProperties, LenProperties
<1>3. old \in Seq(AnyMet) /\ Len(old) = n /\ \A k \in 1..n : old[k] = Item(dir, at, s[k])
  <2>1. old \in Seq(AnyMet)
    BY TaggedType
  <2>2. DOMAIN old = 1..n /\ \A k \in 1..n : old[k] = Item(dir, at, s[k])
    BY <1>1 DEF Tagged
  <2> HIDE DEF old
  <2>3. Len(old) = n
    BY <2>1, <2>2, LenProperties
  <2> QED
    BY <2>1, <2>2, <2>3
<1>4. m \in AnyMet
  BY DEF Item, AnyMet
<1> HIDE DEF all, old, m
<1>5. /\ DOMAIN Append(old, m) = 1..(n + 1) /\ Append(old, m)[n + 1] = m
      /\ \A k \in 1..n : Append(old, m)[k] = old[k]
      /\ Append(old, m) \in Seq(AnyMet)
  BY <1>3, <1>4, AppendProperties, LenProperties
<1>6. PICK new : new = Tagged(dir, at, all)
  OBVIOUS
<1>7. DOMAIN new = 1..(n + 1) /\ new = [k \in 1..(n + 1) |-> Item(dir, at, all[k])]
  BY <1>2, <1>6 DEF Tagged
<1>8. \A k \in 1..(n + 1) : new[k] = Append(old, m)[k]
  <2> SUFFICES ASSUME NEW k \in 1..(n + 1)
               PROVE  new[k] = Append(old, m)[k]
    OBVIOUS
  <2>1. CASE k = n + 1
    BY <1>2, <1>5, <1>7, <2>1 DEF m
  <2>2. CASE k # n + 1
    <3>1. k \in 1..n
      BY <2>2
    <3> QED
      BY <1>2, <1>3, <1>5, <1>7, <3>1
  <2> QED
    BY <2>1, <2>2
<1>9. new = Append(old, m)
  <2>1. Append(old, m) = [k \in 1..(n + 1) |-> Append(old, m)[k]]
    BY <1>5, LenProperties
  <2> QED
    BY <1>7, <1>8, <2>1
<1> QED
  BY <1>6, <1>9 DEF all, old, m

(* What holds of the items met and the map holds of them after s as well.  *)
Accounted(met, map, timed) ==
    met \in Seq(AnyMet) /\ LatestAll(met, map) /\ Balance(met, map, timed)

AccountedAfter(met, dir, at, map, t, s) ==
    Accounted(Cat(met, Tagged(dir, at, s)), After(dir, at, map, s).pending,
              t + Len(After(dir, at, map, s).facts.latencies))

LEMMA AccountedItems ==
    ASSUME NEW met \in Seq(AnyMet), NEW dir \in Directions, NEW at \in Nat,
           NEW map \in PendingMap, NEW t \in Nat, Accounted(met, map, t)
    PROVE  \A s \in Seq(AnyItem) : AccountedAfter(met, dir, at, map, t, s)
<1> DEFINE Q == {s \in Seq(AnyItem) : AccountedAfter(met, dir, at, map, t, s)}
<1>1. <<>> \in Q
  <2>1. <<>> \in Seq(AnyItem)
    BY EmptySeq
  <2>2. Cat(met, Tagged(dir, at, <<>>)) = met
    BY TaggedEmpty, ConcatEmptySeq DEF Cat
  <2>3. After(dir, at, map, <<>>) = Start(map)
    BY AfterEmpty
  <2>4. Start(map).pending = map /\ t + Len(Start(map).facts.latencies) = t
    BY DEF Start, NoFacts
  <2>5. AccountedAfter(met, dir, at, map, t, <<>>)
    BY <2>2, <2>3, <2>4 DEF AccountedAfter
  <2> QED
    BY <2>1, <2>5
<1>2. ASSUME NEW s \in Seq(AnyItem), NEW item \in AnyItem, s \in Q
      PROVE  Append(s, item) \in Q
  <2>1. PICK seen \in Inspection : seen = After(dir, at, map, s)
    BY AfterType
  <2>2. PICK now \in Seq(AnyMet) : now = Cat(met, Tagged(dir, at, s))
    BY TaggedType, CatClosed
  <2>3. PICK u \in Nat, k \in Nat : u = t + k /\ k = Len(seen.facts.latencies)
    <3>1. seen.facts.latencies \in Seq(Nat)
      BY DEF Inspection, AnyFacts
    <3>2. PICK k \in Nat : k = Len(seen.facts.latencies)
      BY <3>1, LenProperties
    <3>3. t + k \in Nat
      OBVIOUS
    <3> QED
      BY <3>2, <3>3
  <2>4. LatestAll(now, seen.pending) /\ Balance(now, seen.pending, u)
    BY <1>2, <2>1, <2>2, <2>3 DEF AccountedAfter, Accounted
  <2>5. PICK next \in Inspection : next = InspectValue(seen, item, dir, at)
    BY InspectType
  <2>6. PICK l \in Nat, v \in Nat : l = Len(next.facts.latencies) /\ v = t + l
    <3>1. next.facts.latencies \in Seq(Nat)
      BY DEF Inspection, AnyFacts
    <3>2. PICK l \in Nat : l = Len(next.facts.latencies)
      BY <3>1, LenProperties
    <3>3. t + l \in Nat
      OBVIOUS
    <3> QED
      BY <3>2, <3>3
  <2>7. PICK m \in AnyMet : m = Item(dir, at, item)
    <3>1. Item(dir, at, item) \in AnyMet
      BY DEF Item, AnyMet
    <3> QED
      BY <3>1
  <2>8. v + Len(seen.facts.latencies) = u + Len(next.facts.latencies)
    <3>1. v + k = u + l
      <4>1. u = t + k /\ v = t + l
        BY <2>3, <2>6
      <4> QED
        BY <4>1
    <3> QED
      BY <2>3, <2>6, <3>1
  <2>9. LatestAll(Append(now, m), next.pending)
    BY <2>4, <2>5, <2>7, LatestStep
  <2>10. Balance(Append(now, m), next.pending, v)
    BY <2>4, <2>5, <2>7, <2>8, BalanceStep
  <2>11. After(dir, at, map, Append(s, item)) = next
    BY <2>1, <2>5, AfterAppend
  <2>12. Cat(met, Tagged(dir, at, Append(s, item))) = Append(now, m)
    <3>1. PICK y \in Seq(AnyMet) : y = Tagged(dir, at, s)
      <4>1. Tagged(dir, at, s) \in Seq(AnyMet)
        BY TaggedType
      <4> QED
        BY <4>1
    <3>2. Tagged(dir, at, Append(s, item)) = Append(y, m)
      BY <2>7, <3>1, TaggedAppend
    <3>3. Cat(met, Append(y, m)) = Append(Cat(met, y), m)
      BY CatAppend
    <3>4. now = Cat(met, y)
      BY <2>2, <3>1
    <3> QED
      BY <3>2, <3>3, <3>4
  <2>13. Append(now, m) \in Seq(AnyMet)
    BY AppendProperties
  <2>14. AccountedAfter(met, dir, at, map, t, Append(s, item))
    BY <2>6, <2>9, <2>10, <2>11, <2>12, <2>13 DEF AccountedAfter, Accounted
  <2> QED
    BY <2>14, AppendProperties
<1> HIDE DEF Q
<1>3. \A s \in Seq(AnyItem) : s \in Q
  BY <1>1, <1>2, SequenceInduction
<1> QED
  BY <1>3 DEF Q

-----------------------------------------------------------------------------
(***************************************************************************)
(* All payloads.                                                           *)
(***************************************************************************)
MetIn(e) ==
    IF e.payload.json THEN Tagged(e.dir, e.at, e.payload.items) ELSE <<>>

MetOf(log) == FlattenSeq([k \in DOMAIN log |-> MetIn(log[k])])

TimedOf(log) == FlattenSeq([k \in DOMAIN log |-> log[k].facts.latencies])

LEMMA MetIsMetOf == Met = MetOf(events)
  BY DEF Met, MetOf, MetIn, Tagged, Item

LEMMA MetInType ==
    ASSUME NEW e \in AnyEvent
    PROVE  MetIn(e) \in Seq(AnyMet) /\ e.facts.latencies \in Seq(Nat)
<1>1. e.payload.items \in Seq(AnyItem) /\ e.dir \in Directions /\ e.at \in Nat
  BY DEF AnyEvent, AnyPayload
<1>2. Tagged(e.dir, e.at, e.payload.items) \in Seq(AnyMet)
  BY <1>1, TaggedType
<1>3. e.facts.latencies \in Seq(Nat)
  BY DEF AnyEvent, AnyFacts
<1> QED
  BY <1>2, <1>3, EmptySeq DEF MetIn

(* A function of the elements of a sequence follows its appends.           *)
LEMMA EachAppend ==
    ASSUME NEW S, NEW T, NEW F \in [S -> T], NEW s \in Seq(S), NEW e \in S
    PROVE  /\ [k \in DOMAIN s |-> F[s[k]]] \in Seq(T)
           /\ [k \in DOMAIN Append(s, e) |-> F[Append(s, e)[k]]]
                 = Append([k \in DOMAIN s |-> F[s[k]]], F[e])
<1> DEFINE all == Append(s, e)
           old == [k \in DOMAIN s |-> F[s[k]]]
           new == [k \in DOMAIN all |-> F[all[k]]]
<1>1. PICK n \in Nat : n = Len(s) /\ DOMAIN s = 1..n
  BY LenProperties
<1>2. /\ DOMAIN all = 1..(n + 1) /\ all[n + 1] = e /\ \A k \in 1..n : all[k] = s[k]
  BY <1>1, AppendProperties, LenProperties
<1>3. \A k \in 1..n : s[k] \in S
  BY <1>1, ElementOfSeq
<1>4. old \in Seq(T) /\ DOMAIN old = 1..n
  <2>1. old \in [1..n -> T]
    BY <1>1, <1>3
  <2> HIDE DEF old
  <2> QED
    BY <2>1
<1>5. \A k \in 1..n : old[k] = F[s[k]]
  BY <1>1
<1>6. PICK f \in T : f = F[e]
  OBVIOUS
<1>7. DOMAIN new = 1..(n + 1) /\ new = [k \in 1..(n + 1) |-> F[all[k]]]
  BY <1>2
<1> HIDE DEF all, old, new
<1>8. Len(old) = n
  BY <1>1, <1>4, LenProperties
<1>9. /\ DOMAIN Append(old, f) = 1..(n + 1) /\ Append(old, f)[n + 1] = f
      /\ \A k \in 1..n : Append(old, f)[k] = old[k]
      /\ Append(old, f) \in Seq(T)
  BY <1>4, <1>8, AppendProperties, LenProperties
<1>10. \A k \in 1..(n + 1) : new[k] = Append(old, f)[k]
  <2> SUFFICES ASSUME NEW k \in 1..(n + 1)
               PROVE  new[k] = Append(old, f)[k]
    OBVIOUS
  <2>1. CASE k = n + 1
    BY <1>2, <1>6, <1>7, <1>9, <2>1
  <2>2. CASE k # n + 1
    <3>1. k \in 1..n
      BY <2>2
    <3> QED
      BY <1>2, <1>5, <1>7, <1>9, <3>1
  <2> QED
    BY <2>1, <2>2
<1>11. new = Append(old, f)
  <2>1. Append(old, f) = [k \in 1..(n + 1) |-> Append(old, f)[k]]
    BY <1>9, LenProperties
  <2> QED
    BY <1>7, <1>10, <2>1
<1> QED
  BY <1>4, <1>6, <1>11 DEF all, old, new

LEMMA LogAppend ==
    ASSUME NEW log \in Seq(AnyEvent), NEW e \in AnyEvent
    PROVE  /\ MetOf(log) \in Seq(AnyMet) /\ TimedOf(log) \in Seq(Nat)
           /\ MetOf(Append(log, e)) = Cat(MetOf(log), MetIn(e))
           /\ TimedOf(Append(log, e)) = Cat(TimedOf(log), e.facts.latencies)
<1> DEFINE F == [x \in AnyEvent |-> MetIn(x)]
           G == [x \in AnyEvent |-> x.facts.latencies]
           all == Append(log, e)
<1>1. /\ \A k \in DOMAIN log : log[k] \in AnyEvent
      /\ \A k \in DOMAIN all : all[k] \in AnyEvent
  BY AppendProperties, LenProperties, ElementOfSeq
<1>2. PICK M : M = Seq(AnyMet)
  OBVIOUS
<1>3. PICK L : L = Seq(Nat)
  OBVIOUS
<1>4. F \in [AnyEvent -> M] /\ G \in [AnyEvent -> L]
  BY <1>2, <1>3, MetInType
<1>5. /\ [k \in DOMAIN log |-> MetIn(log[k])] = [k \in DOMAIN log |-> F[log[k]]]
      /\ [k \in DOMAIN all |-> MetIn(all[k])] = [k \in DOMAIN all |-> F[all[k]]]
  BY <1>1
<1>6. /\ [k \in DOMAIN log |-> log[k].facts.latencies] = [k \in DOMAIN log |-> G[log[k]]]
      /\ [k \in DOMAIN all |-> all[k].facts.latencies] = [k \in DOMAIN all |-> G[all[k]]]
  BY <1>1
<1>7. F[e] = MetIn(e) /\ G[e] = e.facts.latencies
  OBVIOUS
<1> HIDE DEF F, G, all
<1>8. PICK x : x = [k \in DOMAIN log |-> F[log[k]]]
  OBVIOUS
<1>9. PICK y : y = [k \in DOMAIN log |-> G[log[k]]]
  OBVIOUS
<1>10. x \in Seq(M) /\ [k \in DOMAIN all |-> F[all[k]]] = Append(x, F[e])
  BY <1>4, <1>8, EachAppend DEF all
<1>11. y \in Seq(L) /\ [k \in DOMAIN all |-> G[all[k]]] = Append(y, G[e])
  BY <1>4, <1>9, EachAppend DEF all
<1>12. PICK c \in Seq(AnyMet) : c = F[e]
  BY <1>7, MetInType
<1>13. PICK d \in Seq(Nat) : d = G[e]
  BY <1>7, MetInType
<1>14. /\ FlattenSeq(x) \in Seq(AnyMet)
       /\ FlattenSeq(Append(x, c)) = Cat(FlattenSeq(x), c)
  BY <1>2, <1>10, FlattenType, FlattenAppend
<1>15. /\ FlattenSeq(y) \in Seq(Nat)
       /\ FlattenSeq(Append(y, d)) = Cat(FlattenSeq(y), d)
  BY <1>3, <1>11, FlattenType, FlattenAppend
<1>16. MetOf(log) = FlattenSeq(x) /\ MetOf(all) = FlattenSeq(Append(x, c))
  BY <1>5, <1>8, <1>10, <1>12 DEF MetOf
<1>17. TimedOf(log) = FlattenSeq(y) /\ TimedOf(all) = FlattenSeq(Append(y, d))
  BY <1>6, <1>9, <1>11, <1>13 DEF TimedOf
<1> QED
  BY <1>7, <1>12, <1>13, <1>14, <1>15, <1>16, <1>17 DEF all

(* The invariant.                                                          *)
LogInv ==
    /\ events \in Seq(AnyEvent) /\ pending \in PendingMap
    /\ \A k \in DOMAIN events : Truth(events[k])
    /\ Accounted(MetOf(events), pending, Len(TimedOf(events)))

LEMMA InitInv == Init => LogInv
<1> SUFFICES ASSUME Init PROVE LogInv
  OBVIOUS
<1>1. events = <<>> /\ events \in Seq(AnyEvent) /\ DOMAIN events = {}
  BY EmptySeq DEF Init
<1>2. pending = NoPending /\ pending \in PendingMap
  BY DEF Init, NoPending, PendingMap
<1>3. MetOf(events) = <<>> /\ TimedOf(events) = <<>>
  BY <1>1, FlattenEmpty DEF MetOf, TimedOf
<1>a. <<>> \in Seq(AnyMet) /\ DOMAIN <<>> = {}
  BY EmptySeq
<1>b. PICK met \in Seq(AnyMet) : met = <<>>
  BY <1>a
<1>4. DOMAIN met = {}
  BY <1>a, <1>b
<1>5. LatestAll(met, pending)
  BY <1>2, <1>4 DEF LatestAll, Latest, Touching, NoPending
<1>6. Asked(met) = {} /\ Displaced(met) = {} /\ WaitingIds(pending) = {}
  BY <1>2, <1>4 DEF Asked, Displaced, WaitingIds, NoPending
<1>7. Balance(met, pending, 0)
  BY <1>6, FS_EmptySet DEF Balance
<1>8. Accounted(met, pending, 0)
  BY <1>5, <1>7 DEF Accounted
<1>9. Len(TimedOf(events)) = 0
  BY <1>3
<1>10. Accounted(MetOf(events), pending, Len(TimedOf(events)))
  BY <1>3, <1>b, <1>8, <1>9
<1> QED
  BY <1>1, <1>2, <1>10 DEF LogInv

LEMMA FeedInv ==
    ASSUME LogInv, NEW dir \in Directions, NEW p \in Payloads, Feed(dir, p)
    PROVE  LogInv'
<1> DEFINE seen == ObservePayloadAt(p, dir, pending, Len(events))
<1>1. /\ events \in Seq(AnyEvent) /\ pending \in PendingMap
      /\ \A k \in DOMAIN events : Truth(events[k])
      /\ Accounted(MetOf(events), pending, Len(TimedOf(events)))
  BY DEF LogInv
<1>2. PICK at \in Nat : at = Len(events) /\ DOMAIN events = 1..at
  BY <1>1, LenProperties
<1>3. p \in AnyPayload
  BY ObserverLogAssumption
<1>4. PICK e \in AnyEvent :
         /\ e = ObservePayloadAt(p, dir, pending, at).event
         /\ e.dir = dir /\ e.at = at /\ e.payload = p
  BY <1>1, <1>3, ObservedType
<1>5. PICK map \in PendingMap : map = ObservePayloadAt(p, dir, pending, at).pending
  BY <1>1, <1>3, ObservedType
<1>6. events' = Append(events, e) /\ pending' = map
  BY <1>2, <1>4, <1>5 DEF Feed
<1>7. events' \in Seq(AnyEvent)
  BY <1>1, <1>6, AppendProperties
<1>8. \A k \in DOMAIN events' : Truth(events'[k])
  <2>1. Truth(e)
    BY <1>1, <1>4, ObservedTruth
  <2>2. /\ DOMAIN events' = 1..(at + 1) /\ events'[at + 1] = e
        /\ \A k \in 1..at : events'[k] = events[k]
    BY <1>1, <1>2, <1>6, AppendProperties, LenProperties
  <2> SUFFICES ASSUME NEW k \in 1..(at + 1)
               PROVE  Truth(events'[k])
    BY <2>2
  <2>3. CASE k = at + 1
    BY <2>1, <2>2, <2>3
  <2>4. CASE k # at + 1
    <3>1. k \in 1..at
      BY <2>4
    <3> QED
      BY <1>1, <1>2, <2>2, <3>1
  <2> QED
    BY <2>3, <2>4
<1>9. PICK met \in Seq(AnyMet) : met = MetOf(events)
  BY <1>1, <1>4, LogAppend
<1>10. PICK was \in Seq(Nat), t \in Nat : was = TimedOf(events) /\ t = Len(was)
  <2>1. TimedOf(events) \in Seq(Nat)
    BY <1>1, <1>4, LogAppend
  <2> QED
    BY <2>1, LenProperties
<1>11. PICK new \in Seq(Nat), l \in Nat : new = e.facts.latencies /\ l = Len(new)
  <2>1. e.facts.latencies \in Seq(Nat)
    BY MetInType
  <2> QED
    BY <2>1, LenProperties
<1>12. MetOf(events') = Cat(met, MetIn(e))
  BY <1>1, <1>6, <1>9, LogAppend
<1>13. Len(TimedOf(events')) = t + l
  <2>1. TimedOf(events') = Cat(was, new)
    BY <1>1, <1>6, <1>10, <1>11, LogAppend
  <2>2. Len(Cat(was, new)) = Len(was) + Len(new)
    BY ConcatProperties DEF Cat
  <2> QED
    BY <1>10, <1>11, <2>1, <2>2
<1>14. Accounted(met, pending, t)
  BY <1>1, <1>9, <1>10
<1>15. map = Inspected(p, dir, pending, at).pending
       /\ new = Inspected(p, dir, pending, at).facts.latencies
  BY <1>4, <1>5, <1>11 DEF ObservePayloadAt
<1>16. p.items \in Seq(AnyItem) /\ p.json \in BOOLEAN
  BY <1>3 DEF AnyPayload
<1>17. Accounted(Cat(met, MetIn(e)), map, t + l)
  <2>1. CASE p.json
    <3>1. Inspected(p, dir, pending, at) = After(dir, at, pending, p.items)
      BY <1>3, <2>1, InspectedAfter
    <3>2. MetIn(e) = Tagged(dir, at, p.items)
      BY <1>4, <2>1 DEF MetIn
    <3>3. AccountedAfter(met, dir, at, pending, t, p.items)
      BY <1>1, <1>14, <1>16, AccountedItems
    <3> QED
      BY <1>11, <1>15, <3>1, <3>2, <3>3 DEF AccountedAfter
  <2>2. CASE ~p.json
    <3>1. Inspected(p, dir, pending, at) = [Start(pending) EXCEPT !.facts.ok = FALSE]
      BY <1>3, <2>2, InspectedAfter
    <3>2. map = pending /\ new = <<>>
      BY <1>15, <3>1 DEF Start, NoFacts
    <3>3. Cat(met, MetIn(e)) = met
      BY <1>4, <2>2, ConcatEmptySeq DEF MetIn, Cat
    <3>4. t + l = t
      BY <1>11, <3>2
    <3> QED
      BY <1>14, <3>2, <3>3, <3>4
  <2> QED
    BY <1>16, <2>1, <2>2
<1>18. pending' \in PendingMap
  BY <1>6
<1>19. Accounted(MetOf(events'), pending', Len(TimedOf(events')))
  BY <1>6, <1>12, <1>13, <1>17
<1> QED
  BY <1>7, <1>8, <1>18, <1>19 DEF LogInv

LEMMA AlwaysLogInv == Spec => []LogInv
<1>1. LogInv /\ [Next]_logVars => LogInv'
  <2> SUFFICES ASSUME LogInv, [Next]_logVars
               PROVE  LogInv'
    OBVIOUS
  <2>1. CASE \E d \in Directions, p \in Payloads : Feed(d, p)
    BY <2>1, FeedInv
  <2>2. CASE UNCHANGED logVars
    BY <2>2 DEF logVars, LogInv, MetOf, TimedOf
  <2> QED
    BY <2>1, <2>2 DEF Next
<1> QED
  BY InitInv, <1>1, PTL DEF Spec

-----------------------------------------------------------------------------
(* Whatever the peers send, the map of pending requests holds for each id  *)
(* the latest request of the client that no later answer of the server has *)
(* claimed.                                                                *)
THEOREM TheMapIsLatest == Spec => []PendingIsLatest
<1>1. LogInv => PendingIsLatest
  <2> SUFFICES ASSUME LogInv PROVE PendingIsLatest
    OBVIOUS
  <2>1. LatestAll(Met, pending)
    BY MetIsMetOf DEF LogInv, Accounted
  <2> QED
    BY <2>1 DEF PendingIsLatest, LatestAll, Latest, LastTouching, Touching
<1> QED
  BY <1>1, AlwaysLogInv, PTL

(* Every request of the client is timed once, still waiting, or displaced  *)
(* by a later one that reused its id: none is lost and none counted twice, *)
(* for any number of ids and payloads.                                     *)
THEOREM NoRequestIsLost == Spec => []RequestsConserved
<1>1. LogInv => RequestsConserved
  <2> SUFFICES ASSUME LogInv PROVE RequestsConserved
    OBVIOUS
  <2>1. Balance(Met, pending, Len(TimedOf(events)))
    BY MetIsMetOf DEF LogInv, Accounted
  <2> QED
    BY <2>1 DEF RequestsConserved, Balance, Asked, Displaced, Displaces, WaitingIds, TimedOf
<1> QED
  BY <1>1, AlwaysLogInv, PTL

(* The kind and the outcome an event is reported under are those of its    *)
(* payload.                                                                *)
THEOREM EventsAreHonest == Spec => []KindsTellTheTruth
<1>1. LogInv => KindsTellTheTruth
  <2> SUFFICES ASSUME LogInv, NEW k \in DOMAIN events
               PROVE  LET e == events[k]
                          bad == \E n \in DOMAIN e.payload.items :
                                    LET item == e.payload.items[n] IN
                                    \/ ~item.object
                                    \/ /\ item.method = None /\ item.id # None
                                       /\ "error" \in item.body
                      IN  /\ e.kind \in {"tools_call_response", "tools_list_response"} =>
                               e.dir = "s2c" /\ Len(e.facts.latencies) = 1
                          /\ e.facts.ok <=> (e.payload.json /\ ~bad)
    BY DEF KindsTellTheTruth
  <2>1. Truth(events[k])
    BY DEF LogInv
  <2>2. (\E item \in ToSet(events[k].payload.items) : Bad(item))
           <=> \E n \in DOMAIN events[k].payload.items : Bad(events[k].payload.items[n])
    BY DEF ToSet
  <2> QED
    BY <2>1, <2>2 DEF Truth, Bad
<1> QED
  BY <1>1, AlwaysLogInv, PTL
=============================================================================
