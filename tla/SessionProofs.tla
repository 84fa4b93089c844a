--------------------------- MODULE SessionProofs ---------------------------
(***************************************************************************)
(* What is proved of the stdio proxy between peers that follow JSON-RPC,   *)
(* for all ids, tools, lines, pipe capacities and bounds, and whether or   *)
(* not the observer panics; and of the stdio fixture as such a server.     *)
(***************************************************************************)
EXTENDS FixtureSession, StdioProxyProofs, PayloadLemmas, FiniteSetTheorems

(***************************************************************************)
(* Counting the items of lines.                                            *)
(***************************************************************************)
PlacesOf(sort, items) == {k \in DOMAIN items : <<Role(items[k]), items[k].id>> \in sort}

Number(sort, items) == Cardinality(PlacesOf(sort, items))

LEMMA PlacesFinite ==
    ASSUME NEW S, NEW s \in Seq(S), NEW sort
    PROVE  /\ IsFiniteSet(PlacesOf(sort, s)) /\ Number(sort, s) \in Nat
           /\ PlacesOf(sort, s) \subseteq 1..Len(s)
<1>1. PICK n \in Nat : n = Len(s) /\ DOMAIN s = 1..n
  BY LenProperties
<1>2. PICK P : P = PlacesOf(sort, s)
  OBVIOUS
<1>3. P \subseteq 1..n
  BY <1>1, <1>2 DEF PlacesOf
<1>4. IsFiniteSet(1..n)
  <2>1. 1 \in Int /\ n \in Int
    BY <1>1
  <2> QED
    BY <2>1, FS_Interval
<1>5. IsFiniteSet(P)
  BY <1>3, <1>4, FS_Subset
<1>6. Cardinality(P) \in Nat
  BY <1>5, FS_CardinalityType
<1> QED
  BY <1>1, <1>2, <1>3, <1>5, <1>6 DEF Number

LEMMA NumberEmpty ==
    ASSUME NEW sort
    PROVE  Number(sort, <<>>) = 0
<1>1. PlacesOf(sort, <<>>) = {}
  BY DEF PlacesOf
<1> QED
  BY <1>1, FS_EmptySet DEF Number

LEMMA NumberAppend ==
    ASSUME NEW S, NEW s \in Seq(S), NEW e \in S, NEW sort
    PROVE  Number(sort, Append(s, e))
              = Number(sort, s) + (IF <<Role(e), e.id>> \in sort THEN 1 ELSE 0)
<1>1. PICK n \in Nat : n = Len(s) /\ DOMAIN s = 1..n
  BY LenProperties
<1>2. PICK t \in Seq(S) : t = Append(s, e) /\ Len(t) = n + 1 /\ t[n + 1] = e
                          /\ \A k \in 1..n : t[k] = s[k]
  <2>1. /\ Append(s, e) \in Seq(S) /\ Len(Append(s, e)) = n + 1
        /\ Append(s, e)[n + 1] = e /\ \A k \in 1..n : Append(s, e)[k] = s[k]
    BY <1>1, AppendProperties
  <2> QED
    BY <2>1
<1>3. DOMAIN t = 1..(n + 1)
  BY <1>2, LenProperties
<1>4. PICK P : P = PlacesOf(sort, s) /\ IsFiniteSet(P) /\ P \subseteq 1..n
  BY <1>1, PlacesFinite
<1>5. PlacesOf(sort, t) = IF <<Role(e), e.id>> \in sort THEN P \cup {n + 1} ELSE P
  <2>1. n + 1 \in 1..(n + 1) /\ n + 1 \notin 1..n /\ 1..(n + 1) = 1..n \cup {n + 1}
    BY <1>1
  <2>2. \A k \in 1..n : k \in PlacesOf(sort, t) <=> k \in P
    BY <1>1, <1>2, <1>3, <1>4, <2>1 DEF PlacesOf
  <2>3. n + 1 \in PlacesOf(sort, t) <=> <<Role(e), e.id>> \in sort
    BY <1>2, <1>3, <2>1 DEF PlacesOf
  <2>4. PICK M, m, N : /\ M = PlacesOf(sort, t) /\ m = n + 1 /\ M \subseteq N \cup {m}
                       /\ N = 1..n /\ \A k \in N : k \in M <=> k \in P
    <3>1. PlacesOf(sort, t) \subseteq 1..(n + 1)
      BY <1>3 DEF PlacesOf
    <3> QED
      BY <2>1, <2>2, <3>1
  <2>5. P \subseteq N
    BY <1>4, <2>4
  <2>6. M = IF m \in M THEN P \cup {m} ELSE P
    <3>1. \A k \in N : k \in M <=> k \in P
      BY <2>4
    <3>2. M \subseteq N \cup {m}
      BY <2>4
    <3>3. CASE m \in M
      <4>1. M = P \cup {m}
        BY <2>5, <3>1, <3>2, <3>3
      <4> QED
        BY <3>3, <4>1
    <3>4. CASE m \notin M
      <4>1. M = P
        BY <2>5, <3>1, <3>2, <3>4
      <4> QED
        BY <3>4, <4>1
    <3> QED
      BY <3>3, <3>4
  <2> QED
    BY <2>3, <2>4, <2>6
<1>6. n + 1 \notin P
  BY <1>4
<1>7. Cardinality(P \cup {n + 1}) = Cardinality(P) + 1
  BY <1>4, <1>6, FS_AddElement
<1>8. Cardinality(P) \in Nat
  BY <1>4, FS_CardinalityType
<1> QED
  BY <1>2, <1>4, <1>5, <1>7, <1>8 DEF Number

LEMMA NumberCat ==
    ASSUME NEW S, NEW s \in Seq(S), NEW sort
    PROVE  \A t \in Seq(S) : Number(sort, Cat(s, t)) = Number(sort, s) + Number(sort, t)
<1> DEFINE Q == {t \in Seq(S) : Number(sort, Cat(s, t)) = Number(sort, s) + Number(sort, t)}
<1>1. Number(sort, s) \in Nat
  BY PlacesFinite
<1>2. <<>> \in Q
  <2>1. Cat(s, <<>>) = s /\ <<>> \in Seq(S)
    BY EmptySeq, ConcatEmptySeq DEF Cat
  <2> QED
    BY <1>1, <2>1, NumberEmpty
<1>3. ASSUME NEW t \in Seq(S), NEW e \in S, t \in Q
      PROVE  Append(t, e) \in Q
  <2>1. PICK u \in Seq(S) : u = Cat(s, t)
    BY CatClosed
  <2>2. Cat(s, Append(t, e)) = Append(u, e)
    <3>1. PICK l \in Seq(S) : l = <<e>> /\ Append(t, e) = Cat(t, l) /\ Append(u, e) = Cat(u, l)
      BY AppendIsCat
    <3>2. Cat(s, Cat(t, l)) = Cat(Cat(s, t), l)
      BY CatAssociative
    <3> QED
      BY <2>1, <3>1, <3>2
  <2>3. PICK m \in Nat : m = IF <<Role(e), e.id>> \in sort THEN 1 ELSE 0
    OBVIOUS
  <2>4. /\ Number(sort, Append(u, e)) = Number(sort, u) + m
        /\ Number(sort, Append(t, e)) = Number(sort, t) + m
    BY <2>3, NumberAppend
  <2>5. Number(sort, u) = Number(sort, s) + Number(sort, t)
    BY <1>3, <2>1
  <2>6. Number(sort, t) \in Nat
    BY PlacesFinite
  <2>7. Append(t, e) \in Seq(S)
    BY AppendProperties
  <2>8. Number(sort, Append(u, e)) = Number(sort, s) + Number(sort, Append(t, e))
    BY <1>1, <2>4, <2>5, <2>6
  <2> QED
    BY <2>2, <2>7, <2>8
<1> HIDE DEF Q
<1>4. \A t \in Seq(S) : t \in Q
  BY <1>2, <1>3, SequenceInduction
<1> QED
  BY <1>4 DEF Q

(* None, and at most one.                                                  *)
LEMMA NumberNone ==
    ASSUME NEW S, NEW s \in Seq(S), NEW sort
    PROVE  Number(sort, s) = 0 <=> \A k \in DOMAIN s : <<Role(s[k]), s[k].id>> \notin sort
<1>1. IsFiniteSet(PlacesOf(sort, s))
  BY PlacesFinite
<1>2. Number(sort, s) = 0 <=> PlacesOf(sort, s) = {}
  BY <1>1, FS_EmptySet DEF Number
<1> QED
  BY <1>2 DEF PlacesOf

LEMMA NumberOne ==
    ASSUME NEW S, NEW s \in Seq(S), NEW sort, Number(sort, s) <= 1,
           NEW j \in DOMAIN s, NEW k \in DOMAIN s,
           <<Role(s[j]), s[j].id>> \in sort, <<Role(s[k]), s[k].id>> \in sort
    PROVE  j = k
<1> SUFFICES ASSUME j # k PROVE FALSE
  OBVIOUS
<1>1. PICK P : P = PlacesOf(sort, s) /\ IsFiniteSet(P) /\ Cardinality(P) <= 1
  BY PlacesFinite DEF Number
<1>2. {j, k} \subseteq P
  BY <1>1 DEF PlacesOf
<1>3. IsFiniteSet({j, k}) /\ Cardinality({j, k}) <= Cardinality(P)
  BY <1>1, <1>2, FS_Subset
<1>4. Cardinality({j, k}) = 2
  <2>1. IsFiniteSet({j}) /\ Cardinality({j}) = 1 /\ k \notin {j}
    BY FS_Singleton
  <2>2. Cardinality({j} \cup {k}) = Cardinality({j}) + 1
    BY <2>1, FS_AddElement
  <2>3. {j} \cup {k} = {j, k}
    OBVIOUS
  <2>4. Cardinality({j, k}) = Cardinality({j}) + 1
    BY <2>2, <2>3
  <2> QED
    BY <2>1, <2>4
<1>5. Cardinality(P) \in Nat
  BY <1>1, FS_CardinalityType
<1> QED
  BY <1>1, <1>3, <1>4, <1>5

(***************************************************************************)
(* Counting in the lines: what a line adds, and that more lines hold more. *)
(***************************************************************************)
ItemsIn == [p \in Payloads |-> p.items]

LEMMA ItemsInType == ItemsIn \in [Payloads -> Seq(AnyItem)]
<1>1. \A p \in Payloads : p.items \in Seq(AnyItem)
  BY StdioSessionAssumption DEF AnyPayload
<1> QED
  BY <1>1 DEF ItemsIn

LEMMA ItemsOfLines ==
    ASSUME NEW s \in Seq(Payloads)
    PROVE  ItemsOf(s) = FlatMap(ItemsIn, s) /\ ItemsOf(s) \in Seq(AnyItem)
<1>1. \A k \in DOMAIN s : s[k] \in Payloads
  BY ElementOfSeq, LenProperties
<1>2. [k \in DOMAIN s |-> s[k].items] = [k \in DOMAIN s |-> ItemsIn[s[k]]]
  BY <1>1 DEF ItemsIn
<1>3. ItemsOf(s) = FlatMap(ItemsIn, s)
  BY <1>2 DEF ItemsOf, FlatMap, Images
<1> QED
  BY <1>3, ItemsInType, FlatMapType

LEMMA CountIsNumber ==
    ASSUME NEW sort, NEW s
    PROVE  Count(sort, s) = Number(sort, ItemsOf(s))
  BY DEF Count, Number, PlacesOf

LEMMA CountType ==
    ASSUME NEW sort
    PROVE  \A s \in Seq(Payloads) : Count(sort, s) \in Nat
  BY CountIsNumber, ItemsOfLines, PlacesFinite

LEMMA CountEmpty ==
    ASSUME NEW sort
    PROVE  Count(sort, <<>>) = 0
<1>1. PICK z \in Seq(Payloads) : z = <<>>
  BY EmptySeq
<1>2. ItemsOf(z) = <<>>
  BY <1>1, ItemsOfLines, FlatMapEmpty
<1> QED
  BY <1>1, <1>2, CountIsNumber, NumberEmpty

LEMMA CountOne ==
    ASSUME NEW sort, NEW p \in Payloads
    PROVE  Count(sort, <<p>>) = Number(sort, p.items)
<1>1. PICK l \in Seq(Payloads) : l = <<p>>
  <2>1. <<p>> \in Seq(Payloads)
    OBVIOUS
  <2> QED
    BY <2>1
<1>2. FlatMap(ItemsIn, <<p>>) = ItemsIn[p]
  BY ItemsInType, FlatMapOne
<1>3. ItemsOf(l) = p.items
  BY <1>1, <1>2, ItemsOfLines DEF ItemsIn
<1> QED
  BY <1>1, <1>3, CountIsNumber

LEMMA CountCat ==
    ASSUME NEW sort
    PROVE  \A s, t \in Seq(Payloads) :
              Count(sort, Cat(s, t)) = Count(sort, s) + Count(sort, t)
<1> TAKE s, t \in Seq(Payloads)
<1>1. PICK u \in Seq(Payloads) : u = Cat(s, t)
  BY CatClosed
<1>2. PICK x \in Seq(AnyItem), y \in Seq(AnyItem) : x = ItemsOf(s) /\ y = ItemsOf(t)
  BY ItemsOfLines
<1>3. ItemsOf(u) = Cat(x, y)
  <2>1. FlatMap(ItemsIn, Cat(s, t)) = Cat(FlatMap(ItemsIn, s), FlatMap(ItemsIn, t))
    <3>1. PICK T : T = AnyItem
      OBVIOUS
    <3>2. ItemsIn \in [Payloads -> Seq(T)]
      BY <3>1, ItemsInType
    <3>3. \A r \in Seq(Payloads) :
             FlatMap(ItemsIn, Cat(s, r)) = Cat(FlatMap(ItemsIn, s), FlatMap(ItemsIn, r))
      BY <3>2, FlatMapCat
    <3> QED
      BY <3>3
  <2>2. /\ ItemsOf(u) = FlatMap(ItemsIn, u) /\ x = FlatMap(ItemsIn, s)
        /\ y = FlatMap(ItemsIn, t)
    BY <1>2, ItemsOfLines
  <2> QED
    BY <1>1, <2>1, <2>2
<1>4. Number(sort, Cat(x, y)) = Number(sort, x) + Number(sort, y)
  BY NumberCat
<1> QED
  BY <1>1, <1>2, <1>3, <1>4, CountIsNumber

LEMMA CountAppend ==
    ASSUME NEW sort
    PROVE  \A s \in Seq(Payloads), p \in Payloads :
              Count(sort, Append(s, p)) = Count(sort, s) + Count(sort, <<p>>)
  BY AppendIsCat, CountCat

LEMMA PrefixIsCat ==
    ASSUME NEW S, NEW s \in Seq(S), NEW t \in Seq(S), IsPrefix(s, t)
    PROVE  \E u \in Seq(S) : t = Cat(s, u)
<1>1. PICK m \in Nat, n \in Nat : m = Len(s) /\ n = Len(t) /\ m <= n
  BY LenProperties DEF IsPrefix
<1>2. \A k \in 1..m : s[k] = t[k]
  <2>1. SubSeq(s, 1, m) = SubSeq(t, 1, m)
    BY <1>1 DEF IsPrefix
  <2>2. /\ \A k \in 1..m : SubSeq(s, 1, m)[k] = s[1 + k - 1]
        /\ \A k \in 1..m : SubSeq(t, 1, m)[k] = t[1 + k - 1]
    BY <1>1, SubSeqProperties
  <2> QED
    BY <2>1, <2>2
<1>3. PICK u \in Seq(S) : u = SubSeq(t, m + 1, n)
  <2>1. m + 1 \in Int /\ n \in Int /\ \A k \in (m + 1)..n : k \in 1..Len(t)
    BY <1>1
  <2>2. \A k \in (m + 1)..n : t[k] \in S
    BY <2>1, ElementOfSeq
  <2>3. SubSeq(t, m + 1, n) \in Seq(S)
    BY <2>1, <2>2, SubSeqProperties
  <2> QED
    BY <2>3
<1>4. Len(u) = n - m /\ \A k \in 1..(n - m) : u[k] = t[m + k]
  <2>1. m + 1 \in 1..(n + 1) /\ n \in m..n
    BY <1>1
  <2> QED
    BY <1>1, <1>3, <2>1, SubSeqProperties
<1>5. PICK v \in Seq(S) : v = Cat(s, u) /\ Len(v) = n
  <2>1. Cat(s, u) \in Seq(S) /\ Len(Cat(s, u)) = Len(s) + Len(u)
    BY ConcatProperties DEF Cat
  <2>2. Len(s) + Len(u) = n
    BY <1>1, <1>4
  <2> QED
    BY <2>1, <2>2
<1>6. \A k \in 1..n : v[k] = t[k]
  <2> TAKE k \in 1..n
  <2>1. CASE k <= m
    BY <1>1, <1>2, <1>5, <2>1, ConcatProperties DEF Cat
  <2>2. CASE k > m
    <3>1. v[k] = u[k - m]
      BY <1>1, <1>4, <1>5, <2>2, ConcatProperties DEF Cat
    <3>2. k - m \in 1..(n - m) /\ m + (k - m) = k
      BY <1>1, <2>2
    <3> QED
      BY <1>4, <3>1, <3>2
  <2> QED
    BY <1>1, <2>1, <2>2
<1>7. v = t
  BY <1>1, <1>5, <1>6, SeqEqual
<1> QED
  BY <1>5, <1>7

LEMMA CountPrefix ==
    ASSUME NEW sort, NEW s \in Seq(Payloads), NEW t \in Seq(Payloads), IsPrefix(s, t)
    PROVE  Count(sort, s) <= Count(sort, t)
<1>1. PICK u \in Seq(Payloads) : t = Cat(s, u)
  BY PrefixIsCat
<1>2. Count(sort, t) = Count(sort, s) + Count(sort, u)
  BY <1>1, CountCat
<1>3. Count(sort, s) \in Nat /\ Count(sort, u) \in Nat
  BY CountType
<1> QED
  BY <1>2, <1>3

-----------------------------------------------------------------------------
(***************************************************************************)
(* What the observer reads out of one line: the round trips, the tools and *)
(* the map of pending requests, and nothing else of the facts.             *)
(***************************************************************************)
Req(i) == {<<"call", i>>}

Rsp(i) == {<<"response", i>>}

Some(x) == IF x = None THEN <<>> ELSE <<x>>

Remembered(item, at) ==
    [method |-> item.method, tool |-> IF item.method = "tools/call" THEN item.name ELSE None,
     at |-> at]

LEMMA RememberedType ==
    ASSUME NEW item \in AnyItem, item.method # None, NEW at \in Nat
    PROVE  Remembered(item, at) \in Request /\ Remembered(item, at) # None
<1>1. item.method \in Methods /\ item.name \in Tools \cup {None}
  BY DEF AnyItem
<1>2. Remembered(item, at) \in Request
  BY <1>1 DEF Remembered, Request
<1> QED
  BY <1>2, NoneAssumption

LEMMA AppendSomeCat ==
    ASSUME NEW s \in Seq(Tools), NEW x \in Tools \cup {None}
    PROVE  AppendSome(s, x) = Cat(s, Some(x)) /\ Some(x) \in Seq(Tools)
<1>1. CASE x = None
  BY <1>1, ConcatEmptySeq DEF AppendSome, Some, Cat
<1>2. CASE x # None
  BY <1>2, AppendIsCat DEF AppendSome, Some
<1> QED
  BY <1>1, <1>2

LEMMA ToolOfItem ==
    ASSUME NEW item \in AnyItem, NEW at
    PROVE  ToolOf(item) = Some(Remembered(item, at).tool) /\ ToolOf(item) \in Seq(Tools)
<1>1. item.name \in Tools \cup {None}
  BY DEF AnyItem
<1> QED
  BY <1>1 DEF ToolOf, Some, Remembered

LEMMA RoleCases ==
    ASSUME NEW item \in AnyItem
    PROVE  /\ Role(item) = "call" => item.object /\ item.method # None
           /\ Role(item) = "response" => item.object /\ item.method = None /\ item.body # {}
           /\ Role(item) \notin {"call", "response"} =>
                 ~item.object \/ (item.object /\ item.method = None /\ item.body = {})
  BY DEF Role

(* What one item may do to what is seen so far.                            *)
Remembers(new, seen, item, dir, at) ==
    /\ new.facts.latencies = seen.facts.latencies
    /\ new.facts.tools = Cat(seen.facts.tools, ToolOf(item))
    /\ new.pending = IF item.id # None /\ dir = "c2s"
                     THEN [seen.pending EXCEPT ![item.id] = Remembered(item, at)]
                     ELSE seen.pending

Takes(new, seen, i, at) ==
    LET request == seen.pending[i] IN
    /\ new.facts.latencies = Cat(seen.facts.latencies, <<Elapsed(request.at, at)>>)
    /\ new.facts.tools = Cat(seen.facts.tools, Some(request.tool))
    /\ new.pending = [seen.pending EXCEPT ![i] = None]

Ignores(new, seen) ==
    /\ new.facts.latencies = seen.facts.latencies
    /\ new.facts.tools = seen.facts.tools
    /\ new.pending = seen.pending

LEMMA CallStep ==
    ASSUME NEW seen \in Inspection, NEW item \in AnyItem, NEW dir \in Directions,
           NEW at \in Nat, Role(item) = "call", NEW new, new = InspectValue(seen, item, dir, at)
    PROVE  Remembers(new, seen, item, dir, at)
<1>1. item.object /\ item.method # None
  BY RoleCases
<1>2. new = InspectCall(seen, item, dir, at)
  BY <1>1 DEF InspectValue
<1>3. PICK f \in AnyFacts, m \in PendingMap : seen = [facts |-> f, pending |-> m]
  BY DEF Inspection
<1>4. PICK x \in Tools \cup {None} :
         x = IF item.method = "tools/call" THEN item.name ELSE None
  BY DEF AnyItem
<1>5. /\ new.facts.latencies = f.latencies
      /\ new.facts.tools = AppendSome(f.tools, x)
      /\ new.pending = IF item.id # None /\ dir = "c2s"
                       THEN [m EXCEPT ![item.id] = [method |-> item.method, tool |-> x, at |-> at]]
                       ELSE m
  <2> DEFINE g == [f EXCEPT
                     !.methods = Append(@, item.method),
                     !.tools = AppendSome(@, x),
                     !.calls = IF x = None THEN @ ELSE @ + 1,
                     !.requests = IF item.id = None THEN @ ELSE @ + 1,
                     !.notifications = IF item.id = None THEN @ + 1 ELSE @]
  <2>1. g.latencies = f.latencies /\ g.tools = AppendSome(f.tools, x)
    BY DEF AnyFacts
  <2>2. new.facts = g
    <3>1. seen.facts = f
      BY <1>3
    <3> QED
      BY <1>2, <1>4, <3>1 DEF InspectCall
  <2> HIDE DEF g
  <2>3. new.pending = IF item.id # None /\ dir = "c2s"
                      THEN [m EXCEPT ![item.id] = [method |-> item.method, tool |-> x, at |-> at]]
                      ELSE m
    BY <1>2, <1>3, <1>4 DEF InspectCall
  <2> QED
    BY <2>1, <2>2, <2>3
<1>6. AppendSome(f.tools, x) = Cat(f.tools, Some(x))
  BY AppendSomeCat DEF AnyFacts
<1>7. Some(x) = ToolOf(item)
  BY <1>4, ToolOfItem DEF Remembered
<1>8. [method |-> item.method, tool |-> x, at |-> at] = Remembered(item, at)
  BY <1>4 DEF Remembered
<1> QED
  BY <1>3, <1>5, <1>6, <1>7, <1>8 DEF Remembers

LEMMA ResponseStep ==
    ASSUME NEW seen \in Inspection, NEW item \in AnyItem, NEW dir \in Directions,
           NEW at \in Nat, Role(item) = "response",
           NEW new, new = InspectValue(seen, item, dir, at)
    PROVE  IF dir = "s2c" /\ item.id \in Ids /\ seen.pending[item.id] # None
           THEN Takes(new, seen, item.id, at) ELSE Ignores(new, seen)
<1>1. item.object /\ item.method = None /\ item.body # {} /\ item.id \in Ids \cup {None}
  BY RoleCases DEF AnyItem
<1>2. PICK f \in AnyFacts, m \in PendingMap : seen = [facts |-> f, pending |-> m]
  BY DEF Inspection
<1>3. CASE item.id = None
  <2>1. new = seen
    BY <1>1, <1>3 DEF InspectValue
  <2> QED
    BY <1>3, <2>1, NoneAssumption DEF Ignores
<1>4. CASE item.id \in Ids
  <2>1. item.id # None
    BY <1>4, NoneAssumption
  <2>2. new = InspectResponse(seen, item, dir, at)
    BY <1>1, <2>1 DEF InspectValue
  <2> DEFINE g == [f EXCEPT !.responses = @ + 1, !.ok = @ /\ "error" \notin item.body]
  <2>3. g \in AnyFacts /\ g.latencies = f.latencies /\ g.tools = f.tools
    <3>1. PICK b \in BOOLEAN : b = (f.ok /\ "error" \notin item.body)
      OBVIOUS
    <3>2. PICK n \in Nat : n = f.responses + 1
      BY DEF AnyFacts
    <3> DEFINE h == [f EXCEPT !.responses = n, !.ok = b]
    <3>3. h \in AnyFacts /\ h.latencies = f.latencies /\ h.tools = f.tools
      BY DEF AnyFacts
    <3> QED
      BY <3>1, <3>2, <3>3
  <2>4. CASE dir = "s2c" /\ m[item.id] # None
    <3>1. PICK r \in Request : r = m[item.id]
      BY <1>4, <2>4 DEF PendingMap
    <3>2. /\ new.facts = Correlate(g, r, item, at)
          /\ new.pending = [m EXCEPT ![item.id] = None]
      BY <1>2, <2>2, <2>4, <3>1 DEF InspectResponse
    <3> HIDE DEF g
    <3>3. /\ new.facts.latencies = Append(g.latencies, Elapsed(r.at, at))
          /\ new.facts.tools = AppendSome(g.tools, r.tool)
      BY <2>3, <3>2 DEF Correlate, AnyFacts
    <3>4. r.tool \in Tools \cup {None} /\ r.at \in Nat
      BY DEF Request
    <3>5. AppendSome(f.tools, r.tool) = Cat(f.tools, Some(r.tool))
      BY <3>4, AppendSomeCat DEF AnyFacts
    <3>6. Append(f.latencies, Elapsed(r.at, at)) = Cat(f.latencies, <<Elapsed(r.at, at)>>)
      <4>1. f.latencies \in Seq(Nat) /\ Elapsed(r.at, at) \in Nat
        BY <3>4, ElapsedType DEF AnyFacts
      <4> QED
        BY <4>1, AppendIsCat
    <3>7. seen.pending = m /\ seen.facts = f
      BY <1>2
    <3> QED
      BY <1>4, <2>3, <2>4, <3>1, <3>2, <3>3, <3>5, <3>6, <3>7 DEF Takes
  <2>5. CASE ~(dir = "s2c" /\ m[item.id] # None)
    <3>1. new.facts = g /\ new.pending = m
      BY <1>2, <2>2, <2>5 DEF InspectResponse
    <3> HIDE DEF g
    <3>2. seen.pending = m /\ seen.facts = f
      BY <1>2
    <3> QED
      BY <2>3, <2>5, <3>1, <3>2 DEF Ignores
  <2> QED
    BY <2>4, <2>5
<1> QED
  BY <1>1, <1>3, <1>4

LEMMA OtherStep ==
    ASSUME NEW seen \in Inspection, NEW item \in AnyItem, NEW dir \in Directions,
           NEW at \in Nat, Role(item) \notin {"call", "response"},
           NEW new, new = InspectValue(seen, item, dir, at)
    PROVE  Ignores(new, seen)
<1>1. ~item.object \/ (item.object /\ item.method = None /\ item.body = {})
  BY RoleCases
<1>2. PICK f \in AnyFacts, m \in PendingMap : seen = [facts |-> f, pending |-> m]
  BY DEF Inspection
<1>3. new = [seen EXCEPT !.facts.ok = FALSE] \/ new = seen
  BY <1>1 DEF InspectValue
<1>4. new.facts.latencies = f.latencies /\ new.facts.tools = f.tools /\ new.pending = m
  BY <1>2, <1>3 DEF AnyFacts
<1> QED
  BY <1>2, <1>4 DEF Ignores

(* The elements of a sequence t of n + 1 elements, s and then e.           *)
Longer(t, s, n, e) ==
    /\ t = Append(s, e) /\ n = Len(s) /\ Len(t) = n + 1
    /\ DOMAIN s = 1..n /\ DOMAIN t = 1..n \cup {n + 1} /\ n + 1 \notin 1..n
    /\ t[n + 1] = e /\ \A k \in 1..n : t[k] = s[k]

LEMMA AppendPlaces ==
    ASSUME NEW S, NEW s \in Seq(S), NEW e \in S
    PROVE  /\ Append(s, e) \in Seq(S) /\ Len(s) \in Nat
           /\ Longer(Append(s, e), s, Len(s), e)
<1>1. PICK n \in Nat : n = Len(s) /\ DOMAIN s = 1..n
  BY LenProperties
<1>2. /\ Append(s, e) \in Seq(S) /\ Len(Append(s, e)) = n + 1
      /\ Append(s, e)[n + 1] = e /\ \A k \in 1..n : Append(s, e)[k] = s[k]
  BY <1>1, AppendProperties
<1>3. DOMAIN Append(s, e) = 1..(n + 1)
  BY <1>2, LenProperties
<1>4. 1..(n + 1) = 1..n \cup {n + 1} /\ n + 1 \notin 1..n
  OBVIOUS
<1> QED
  BY <1>1, <1>2, <1>3, <1>4 DEF Longer

Own == [item \in AnyItem |-> IF Role(item) = "call" THEN ToolOf(item) ELSE <<>>]

(* After a line of the client: a request in it is remembered, the last one *)
(* if there are several with its id.                                       *)
CallsRead(P, at, s) ==
    LET seen == After("c2s", at, P, s) IN
    /\ seen.facts.latencies = <<>>
    /\ seen.facts.tools = FlatMap(Own, s)
    /\ \A i \in Ids :
          \/ seen.pending[i] = P[i] /\ \A m \in DOMAIN s : ~IsRequest(s[m], i)
          \/ \E m \in DOMAIN s :
                IsRequest(s[m], i) /\ seen.pending[i] = Remembered(s[m], at)

LEMMA OwnType == Own \in [AnyItem -> Seq(Tools)]
<1>1. \A item \in AnyItem : ToolOf(item) \in Seq(Tools)
  BY ToolOfItem
<1>2. <<>> \in Seq(Tools)
  BY EmptySeq
<1> QED
  BY <1>1, <1>2 DEF Own

LEMMA CallsReadStep ==
    ASSUME NEW P \in PendingMap, NEW at \in Nat, NEW s \in Seq(AnyItem),
           NEW e \in AnyItem, CallsRead(P, at, s)
    PROVE  CallsRead(P, at, Append(s, e))
<1>0. PICK n \in Nat, t \in Seq(AnyItem) : Longer(t, s, n, e)
  BY AppendPlaces
<1>1. /\ t = Append(s, e) /\ n = Len(s) /\ Len(t) = n + 1
      /\ DOMAIN s = 1..n /\ DOMAIN t = 1..n \cup {n + 1} /\ n + 1 \notin 1..n
      /\ t[n + 1] = e /\ \A k \in 1..n : t[k] = s[k]
  BY <1>0 DEF Longer
<1>2. PICK seen \in Inspection : seen = After("c2s", at, P, s)
  BY AfterType
<1>3. PICK new : new = After("c2s", at, P, t) /\ new = InspectValue(seen, e, "c2s", at)
  BY <1>1, <1>2, AfterAppend
<1>4. /\ seen.facts.latencies = <<>> /\ seen.facts.tools = FlatMap(Own, s)
      /\ \A i \in Ids :
            \/ seen.pending[i] = P[i] /\ \A m \in DOMAIN s : ~IsRequest(s[m], i)
            \/ \E m \in DOMAIN s :
                  IsRequest(s[m], i) /\ seen.pending[i] = Remembered(s[m], at)
  BY <1>2 DEF CallsRead
<1>5. FlatMap(Own, t) = Cat(FlatMap(Own, s), Own[e])
  <2>1. PICK T : T = Tools
    OBVIOUS
  <2>2. PICK g \in [AnyItem -> Seq(T)] : g = Own
    BY <2>1, OwnType
  <2>3. FlatMap(g, Append(s, e)) = Cat(FlatMap(g, s), g[e])
    BY FlatMapAppend
  <2> QED
    BY <1>1, <2>2, <2>3
<1>6. FlatMap(Own, s) \in Seq(Tools)
  BY <1>2, <1>4 DEF Inspection, AnyFacts
<1>7. "c2s" \in Directions
  BY DEF Directions
<1>8. CASE Role(e) = "call"
  <2>1. /\ new.facts.latencies = seen.facts.latencies
        /\ new.facts.tools = Cat(seen.facts.tools, ToolOf(e))
        /\ new.pending = IF e.id # None
                         THEN [seen.pending EXCEPT ![e.id] = Remembered(e, at)]
                         ELSE seen.pending
    BY <1>3, <1>7, <1>8, CallStep DEF Remembers
  <2>2. Own[e] = ToolOf(e)
    BY <1>8 DEF Own
  <2>3. seen.pending \in PendingMap
    BY <1>2 DEF Inspection
  <2>4. ASSUME NEW i \in Ids
        PROVE  \/ new.pending[i] = P[i] /\ \A m \in DOMAIN t : ~IsRequest(t[m], i)
               \/ \E m \in DOMAIN t :
                     IsRequest(t[m], i) /\ new.pending[i] = Remembered(t[m], at)
    <3>1. CASE e.id = i
      <4>1. e.id # None
        BY <3>1, NoneAssumption
      <4>2. new.pending[i] = Remembered(e, at)
        BY <2>1, <2>3, <3>1, <4>1 DEF PendingMap
      <4>3. IsRequest(t[n + 1], i) /\ n + 1 \in DOMAIN t
        BY <1>1, <1>8, <3>1 DEF IsRequest
      <4> QED
        BY <1>1, <4>2, <4>3
    <3>2. CASE e.id # i
      <4>1. new.pending[i] = seen.pending[i]
        BY <2>1, <2>3, <3>2 DEF PendingMap
      <4>2. ~IsRequest(t[n + 1], i)
        BY <1>1, <3>2 DEF IsRequest
      <4>3. \A m \in DOMAIN s : m \in DOMAIN t /\ t[m] = s[m]
        BY <1>1
      <4>4. \A m \in DOMAIN t : m \in DOMAIN s \/ m = n + 1
        BY <1>1
      <4> QED
        BY <1>4, <4>1, <4>2, <4>3, <4>4
    <3> QED
      BY <3>1, <3>2
  <2> QED
    BY <1>1, <1>3, <1>4, <1>5, <2>1, <2>2, <2>4 DEF CallsRead
<1>9. CASE Role(e) # "call"
  <2>1. /\ new.facts.latencies = seen.facts.latencies
        /\ new.facts.tools = seen.facts.tools
        /\ new.pending = seen.pending
    <3>1. CASE Role(e) = "response"
      <4>1. Ignores(new, seen)
        BY <1>3, <1>7, <3>1, ResponseStep
      <4> QED
        BY <4>1 DEF Ignores
    <3>2. CASE Role(e) # "response"
      BY <1>3, <1>7, <1>9, <3>2, OtherStep DEF Ignores
    <3> QED
      BY <3>1, <3>2
  <2>2. Own[e] = <<>>
    BY <1>9 DEF Own
  <2>3. Cat(FlatMap(Own, s), <<>>) = FlatMap(Own, s)
    BY <1>6, ConcatEmptySeq DEF Cat
  <2>4. ASSUME NEW i \in Ids
        PROVE  \/ new.pending[i] = P[i] /\ \A m \in DOMAIN t : ~IsRequest(t[m], i)
               \/ \E m \in DOMAIN t :
                     IsRequest(t[m], i) /\ new.pending[i] = Remembered(t[m], at)
    <3>1. ~IsRequest(t[n + 1], i)
      BY <1>1, <1>9 DEF IsRequest
    <3>2. \A m \in DOMAIN s : m \in DOMAIN t /\ t[m] = s[m]
      BY <1>1
    <3>3. \A m \in DOMAIN t : m \in DOMAIN s \/ m = n + 1
      BY <1>1
    <3> QED
      BY <1>4, <2>1, <3>1, <3>2, <3>3
  <2> QED
    BY <1>1, <1>3, <1>4, <1>5, <2>1, <2>2, <2>3, <2>4 DEF CallsRead
<1> QED
  BY <1>8, <1>9

LEMMA CallsAreRead ==
    ASSUME NEW P \in PendingMap, NEW at \in Nat
    PROVE  \A s \in Seq(AnyItem) : CallsRead(P, at, s)
<1> DEFINE Q == {s \in Seq(AnyItem) : CallsRead(P, at, s)}
<1>1. <<>> \in Q
  <2>1. After("c2s", at, P, <<>>) = Start(P) /\ FlatMap(Own, <<>>) = <<>>
    BY AfterEmpty, FlatMapEmpty
  <2>2. Start(P).facts.latencies = <<>> /\ Start(P).facts.tools = <<>> /\ Start(P).pending = P
    BY DEF Start, NoFacts
  <2>3. <<>> \in Seq(AnyItem) /\ DOMAIN <<>> = {}
    BY EmptySeq
  <2> QED
    BY <2>1, <2>2, <2>3 DEF CallsRead
<1>2. \A s \in Seq(AnyItem), e \in AnyItem : s \in Q => Append(s, e) \in Q
  BY CallsReadStep, AppendProperties
<1> HIDE DEF Q
<1>3. \A s \in Seq(AnyItem) : s \in Q
  BY <1>1, <1>2, SequenceInduction
<1> QED
  BY <1>3 DEF Q

(* After a line of the server that answers no request twice: every         *)
(* response to a remembered request is credited to it and takes it out.    *)
IsResponse(item, i) == Role(item) = "response" /\ item.id = i

Settles(P, item) ==
    Role(item) = "response" /\ item.id \in Ids /\ P[item.id] # None

Taken(P, at) ==
    [item \in AnyItem |->
        IF Settles(P, item) THEN <<Elapsed(P[item.id].at, at)>> ELSE <<>>]

Credited(P) ==
    [item \in AnyItem |->
        IF Role(item) = "call" THEN ToolOf(item)
        ELSE IF Settles(P, item) THEN Some(P[item.id].tool) ELSE <<>>]

AnswersOnce(P, s) ==
    \A i \in Ids : P[i] # None =>
        \A j, k \in DOMAIN s : IsResponse(s[j], i) /\ IsResponse(s[k], i) => j = k

AnswersRead(P, at, s) ==
    LET seen == After("s2c", at, P, s) IN
    /\ seen.facts.latencies = FlatMap(Taken(P, at), s)
    /\ seen.facts.tools = FlatMap(Credited(P), s)
    /\ \A i \in Ids :
          seen.pending[i] = IF \E m \in DOMAIN s : IsResponse(s[m], i) THEN None ELSE P[i]

LEMMA TakenType ==
    ASSUME NEW P \in PendingMap, NEW at \in Nat
    PROVE  Taken(P, at) \in [AnyItem -> Seq(Nat)]
<1>1. ASSUME NEW item \in AnyItem PROVE Taken(P, at)[item] \in Seq(Nat)
  <2>1. CASE Settles(P, item)
    <3>1. P[item.id] \in Request
      BY <2>1 DEF Settles, PendingMap
    <3>2. Elapsed(P[item.id].at, at) \in Nat
      BY <3>1, ElapsedType DEF Request
    <3>3. <<Elapsed(P[item.id].at, at)>> \in Seq(Nat)
      BY <3>2
    <3> QED
      BY <2>1, <3>3 DEF Taken
  <2>2. CASE ~Settles(P, item)
    BY <2>2, EmptySeq DEF Taken
  <2> QED
    BY <2>1, <2>2
<1> QED
  BY <1>1 DEF Taken

LEMMA CreditedType ==
    ASSUME NEW P \in PendingMap
    PROVE  Credited(P) \in [AnyItem -> Seq(Tools)]
<1>1. ASSUME NEW item \in AnyItem PROVE Credited(P)[item] \in Seq(Tools)
  <2>1. CASE Role(item) = "call"
    BY <2>1, ToolOfItem DEF Credited
  <2>2. CASE Role(item) # "call" /\ Settles(P, item)
    <3>1. P[item.id] \in Request
      BY <2>2 DEF Settles, PendingMap
    <3>2. P[item.id].tool \in Tools \cup {None} /\ <<>> \in Seq(Tools)
      BY <3>1, EmptySeq DEF Request
    <3>3. Some(P[item.id].tool) \in Seq(Tools)
      BY <3>2, AppendSomeCat
    <3> QED
      BY <2>2, <3>3 DEF Credited
  <2>3. CASE Role(item) # "call" /\ ~Settles(P, item)
    BY <2>3, EmptySeq DEF Credited
  <2> QED
    BY <2>1, <2>2, <2>3
<1> QED
  BY <1>1 DEF Credited

LEMMA AnswersReadStep ==
    ASSUME NEW P \in PendingMap, NEW at \in Nat, NEW s \in Seq(AnyItem),
           NEW e \in AnyItem, AnswersOnce(P, Append(s, e)),
           AnswersOnce(P, s) => AnswersRead(P, at, s)
    PROVE  AnswersRead(P, at, Append(s, e))
<1>0. PICK n \in Nat, t \in Seq(AnyItem) : Longer(t, s, n, e)
  BY AppendPlaces
<1>1. /\ t = Append(s, e) /\ n = Len(s) /\ Len(t) = n + 1
      /\ DOMAIN s = 1..n /\ DOMAIN t = 1..n \cup {n + 1} /\ n + 1 \notin 1..n
      /\ t[n + 1] = e /\ \A k \in 1..n : t[k] = s[k]
  BY <1>0 DEF Longer
<1>2. PICK seen \in Inspection : seen = After("s2c", at, P, s)
  BY AfterType
<1>3. PICK new : new = After("s2c", at, P, t) /\ new = InspectValue(seen, e, "s2c", at)
  BY <1>1, <1>2, AfterAppend
<1>4. AnswersOnce(P, t)
  BY <1>1
<1>5. AnswersOnce(P, s)
  BY <1>1, <1>4 DEF AnswersOnce
<1>6. /\ seen.facts.latencies = FlatMap(Taken(P, at), s)
      /\ seen.facts.tools = FlatMap(Credited(P), s)
      /\ \A i \in Ids :
            seen.pending[i] = IF \E m \in DOMAIN s : IsResponse(s[m], i) THEN None ELSE P[i]
  BY <1>2, <1>5 DEF AnswersRead
<1>7. FlatMap(Taken(P, at), t) = Cat(FlatMap(Taken(P, at), s), Taken(P, at)[e])
  <2>1. PICK g \in [AnyItem -> Seq(Nat)] : g = Taken(P, at)
    BY TakenType
  <2>2. FlatMap(g, Append(s, e)) = Cat(FlatMap(g, s), g[e])
    BY FlatMapAppend
  <2> QED
    BY <1>1, <2>1, <2>2
<1>8. FlatMap(Credited(P), t) = Cat(FlatMap(Credited(P), s), Credited(P)[e])
  <2>1. PICK T : T = Tools
    OBVIOUS
  <2>2. PICK g \in [AnyItem -> Seq(T)] : g = Credited(P)
    BY <2>1, CreditedType
  <2>3. FlatMap(g, Append(s, e)) = Cat(FlatMap(g, s), g[e])
    BY FlatMapAppend
  <2> QED
    BY <1>1, <2>2, <2>3
<1>9. PICK x \in Seq(Nat), y \in Seq(Tools), m \in PendingMap :
         x = seen.facts.latencies /\ y = seen.facts.tools /\ m = seen.pending
  BY <1>2 DEF Inspection, AnyFacts
<1>10. Cat(x, <<>>) = x /\ Cat(y, <<>>) = y
  BY ConcatEmptySeq DEF Cat
<1>11. "s2c" \in Directions
  BY DEF Directions
<1>12. \A k \in DOMAIN s : k \in DOMAIN t /\ t[k] = s[k]
  BY <1>1
<1>13. \A k \in DOMAIN t : k \in DOMAIN s \/ k = n + 1
  BY <1>1
<1>14. n + 1 \in DOMAIN t /\ t[n + 1] = e /\ n + 1 \notin DOMAIN s
  BY <1>1
<1>15. CASE \E i \in Ids : IsResponse(e, i)
  <2>1. PICK i \in Ids : Role(e) = "response" /\ e.id = i
    BY <1>15 DEF IsResponse
  <2>2. \A j \in Ids : (\E k \in DOMAIN t : IsResponse(t[k], j))
                        <=> j = i \/ \E k \in DOMAIN s : IsResponse(s[k], j)
    BY <1>12, <1>13, <1>14, <2>1 DEF IsResponse
  <2>3. CASE P[i] = None
    <3>1. m[i] = None
      BY <1>6, <1>9, <2>3
    <3>2. new.facts.latencies = x /\ new.facts.tools = y /\ new.pending = m
      <4>1. Ignores(new, seen)
        BY <1>3, <1>9, <1>11, <2>1, <3>1, ResponseStep
      <4> QED
        BY <1>9, <4>1 DEF Ignores
    <3>3. Taken(P, at)[e] = <<>> /\ Credited(P)[e] = <<>>
      BY <2>1, <2>3 DEF Taken, Credited, Settles
    <3>4. \A j \in Ids : new.pending[j]
             = IF \E k \in DOMAIN t : IsResponse(t[k], j) THEN None ELSE P[j]
      BY <1>6, <1>9, <2>2, <2>3, <3>1, <3>2
    <3> QED
      BY <1>1, <1>3, <1>6, <1>7, <1>8, <1>9, <1>10, <3>2, <3>3, <3>4 DEF AnswersRead
  <2>4. CASE P[i] # None
    <3>1. ~ \E k \in DOMAIN s : IsResponse(s[k], i)
      <4>1. IsResponse(t[n + 1], i)
        BY <1>14, <2>1 DEF IsResponse
      <4> QED
        BY <1>4, <1>12, <1>14, <2>4, <4>1 DEF AnswersOnce
    <3>2. m[i] = P[i]
      BY <1>6, <1>9, <3>1
    <3>3. /\ new.facts.latencies = Cat(x, <<Elapsed(P[i].at, at)>>)
          /\ new.facts.tools = Cat(y, Some(P[i].tool))
          /\ new.pending = [m EXCEPT ![i] = None]
      <4>1. Takes(new, seen, i, at)
        BY <1>3, <1>9, <1>11, <2>1, <2>4, <3>2, ResponseStep
      <4> QED
        BY <1>9, <3>2, <4>1 DEF Takes
    <3>4. /\ Taken(P, at)[e] = <<Elapsed(P[i].at, at)>>
          /\ Credited(P)[e] = Some(P[i].tool)
      BY <2>1, <2>4 DEF Taken, Credited, Settles
    <3>5. \A j \in Ids : new.pending[j]
             = IF \E k \in DOMAIN t : IsResponse(t[k], j) THEN None ELSE P[j]
      <4> TAKE j \in Ids
      <4>1. new.pending[j] = IF j = i THEN None ELSE m[j]
        BY <3>3 DEF PendingMap
      <4> QED
        BY <1>6, <1>9, <2>2, <4>1
    <3> QED
      BY <1>1, <1>3, <1>6, <1>7, <1>8, <1>9, <3>3, <3>4, <3>5 DEF AnswersRead
  <2> QED
    BY <2>3, <2>4
<1>16. CASE ~ \E i \in Ids : IsResponse(e, i)
  <2>1. \A j \in Ids : (\E k \in DOMAIN t : IsResponse(t[k], j))
                        <=> \E k \in DOMAIN s : IsResponse(s[k], j)
    BY <1>12, <1>13, <1>14, <1>16
  <2>2. /\ new.facts.latencies = x /\ new.pending = m
        /\ new.facts.tools = IF Role(e) = "call" THEN Cat(y, ToolOf(e)) ELSE y
    <3>1. CASE Role(e) = "call"
      <4>1. Remembers(new, seen, e, "s2c", at)
        BY <1>3, <1>11, <3>1, CallStep
      <4> QED
        BY <1>9, <3>1, <4>1 DEF Remembers
    <3>2. CASE Role(e) = "response"
      <4>1. e.id \notin Ids
        BY <1>16, <3>2 DEF IsResponse
      <4>2. Ignores(new, seen)
        BY <1>3, <1>11, <3>2, <4>1, ResponseStep
      <4> QED
        BY <1>9, <3>2, <4>2 DEF Ignores
    <3>3. CASE Role(e) \notin {"call", "response"}
      <4>1. Ignores(new, seen)
        BY <1>3, <1>11, <3>3, OtherStep
      <4> QED
        BY <1>9, <3>3, <4>1 DEF Ignores
    <3> QED
      BY <3>1, <3>2, <3>3
  <2>3. ~Settles(P, e)
    BY <1>16 DEF Settles, IsResponse
  <2>4. /\ Taken(P, at)[e] = <<>>
        /\ Credited(P)[e] = IF Role(e) = "call" THEN ToolOf(e) ELSE <<>>
    BY <2>3 DEF Taken, Credited
  <2>5. Cat(y, Credited(P)[e]) = new.facts.tools
    BY <1>10, <2>2, <2>4
  <2>6. \A j \in Ids : new.pending[j]
           = IF \E k \in DOMAIN t : IsResponse(t[k], j) THEN None ELSE P[j]
    BY <1>6, <1>9, <2>1, <2>2
  <2> QED
    BY <1>1, <1>3, <1>6, <1>7, <1>8, <1>9, <1>10, <2>2, <2>4, <2>5, <2>6 DEF AnswersRead
<1> QED
  BY <1>15, <1>16

LEMMA AnswersAreRead ==
    ASSUME NEW P \in PendingMap, NEW at \in Nat
    PROVE  \A s \in Seq(AnyItem) : AnswersOnce(P, s) => AnswersRead(P, at, s)
<1> DEFINE Q == {s \in Seq(AnyItem) : AnswersOnce(P, s) => AnswersRead(P, at, s)}
<1>1. <<>> \in Q
  <2>1. /\ After("s2c", at, P, <<>>) = Start(P) /\ FlatMap(Taken(P, at), <<>>) = <<>>
        /\ FlatMap(Credited(P), <<>>) = <<>>
    BY AfterEmpty, FlatMapEmpty
  <2>2. Start(P).facts.latencies = <<>> /\ Start(P).facts.tools = <<>> /\ Start(P).pending = P
    BY DEF Start, NoFacts
  <2>3. <<>> \in Seq(AnyItem) /\ DOMAIN <<>> = {}
    BY EmptySeq
  <2> QED
    BY <2>1, <2>2, <2>3 DEF AnswersRead
<1>2. ASSUME NEW s \in Seq(AnyItem), NEW e \in AnyItem, s \in Q
      PROVE  Append(s, e) \in Q
  <2>1. Append(s, e) \in Seq(AnyItem)
    BY AppendProperties
  <2>2. AnswersOnce(P, s) => AnswersRead(P, at, s)
    BY <1>2
  <2> QED
    BY <2>1, <2>2, AnswersReadStep
<1> HIDE DEF Q
<1>3. \A s \in Seq(AnyItem) : s \in Q
  BY <1>1, <1>2, SequenceInduction
<1> QED
  BY <1>3 DEF Q

-----------------------------------------------------------------------------
(***************************************************************************)
(* Traces and histories: sequences of elements that carry a direction, a   *)
(* line and a stamp.                                                       *)
(***************************************************************************)
NoneAsks(items, i) == \A m \in DOMAIN items : ~IsRequest(items[m], i)

OneAsks(items, i) ==
    \A j, k \in DOMAIN items : IsRequest(items[j], i) /\ IsRequest(items[k], i) => j = k

NoneAnswers(items, i) == \A m \in DOMAIN items : ~IsResponse(items[m], i)

OneAnswers(items, i) ==
    \A j, k \in DOMAIN items : IsResponse(items[j], i) /\ IsResponse(items[k], i) => j = k

LEMMA LineAsks ==
    ASSUME NEW p \in Payloads, NEW i
    PROVE  /\ Asked(i, <<p>>) \in Nat
           /\ Asked(i, <<p>>) = 0 <=> NoneAsks(p.items, i)
           /\ Asked(i, <<p>>) <= 1 => OneAsks(p.items, i)
<1>1. PICK s \in Seq(AnyItem) : s = p.items
  BY StdioSessionAssumption DEF AnyPayload
<1>2. Asked(i, <<p>>) = Number(Req(i), s)
  BY <1>1, CountOne DEF Asked, Req
<1>3. \A k \in DOMAIN s : <<Role(s[k]), s[k].id>> \in Req(i) <=> IsRequest(s[k], i)
  BY DEF Req, IsRequest
<1>4. Number(Req(i), s) \in Nat
  BY PlacesFinite
<1>5. Number(Req(i), s) = 0 <=> \A k \in DOMAIN s : <<Role(s[k]), s[k].id>> \notin Req(i)
  BY NumberNone
<1>6. Number(Req(i), s) <= 1 =>
        \A j, k \in DOMAIN s :
           <<Role(s[j]), s[j].id>> \in Req(i) /\ <<Role(s[k]), s[k].id>> \in Req(i) => j = k
  BY NumberOne
<1> QED
  BY <1>1, <1>2, <1>3, <1>4, <1>5, <1>6 DEF NoneAsks, OneAsks

LEMMA LineAnswers ==
    ASSUME NEW p \in Payloads, NEW i
    PROVE  /\ Answered(i, <<p>>) \in Nat
           /\ Answered(i, <<p>>) = 0 <=> NoneAnswers(p.items, i)
           /\ Answered(i, <<p>>) <= 1 => OneAnswers(p.items, i)
<1>1. PICK s \in Seq(AnyItem) : s = p.items
  BY StdioSessionAssumption DEF AnyPayload
<1>2. Answered(i, <<p>>) = Number(Rsp(i), s)
  BY <1>1, CountOne DEF Answered, Rsp
<1>3. \A k \in DOMAIN s : <<Role(s[k]), s[k].id>> \in Rsp(i) <=> IsResponse(s[k], i)
  BY DEF Rsp, IsResponse
<1>4. Number(Rsp(i), s) \in Nat
  BY PlacesFinite
<1>5. Number(Rsp(i), s) = 0 <=> \A k \in DOMAIN s : <<Role(s[k]), s[k].id>> \notin Rsp(i)
  BY NumberNone
<1>6. Number(Rsp(i), s) <= 1 =>
        \A j, k \in DOMAIN s :
           <<Role(s[j]), s[j].id>> \in Rsp(i) /\ <<Role(s[k]), s[k].id>> \in Rsp(i) => j = k
  BY NumberOne
<1> QED
  BY <1>1, <1>2, <1>3, <1>4, <1>5, <1>6 DEF NoneAnswers, OneAnswers

LEMMA CountsOfLines ==
    ASSUME NEW i
    PROVE  \A s \in Seq(Payloads) :
              /\ Asked(i, s) \in Nat /\ Answered(i, s) \in Nat
              /\ \A p \in Payloads :
                    /\ Asked(i, Append(s, p)) = Asked(i, s) + Asked(i, <<p>>)
                    /\ Answered(i, Append(s, p)) = Answered(i, s) + Answered(i, <<p>>)
  BY CountType, CountAppend DEF Asked, Answered

LEMMA CountsGrow ==
    ASSUME NEW s \in Seq(Payloads), NEW t \in Seq(Payloads), IsPrefix(s, t), NEW i
    PROVE  Asked(i, s) <= Asked(i, t) /\ Answered(i, s) <= Answered(i, t)
  BY CountPrefix DEF Asked, Answered

(* The lines before a place.                                               *)
LEMMA BeforeAppend ==
    ASSUME NEW S, Lines(S), NEW s \in Seq(S), NEW e \in S, NEW d \in Directions
    PROVE  /\ \A k \in 0..Len(s) : Before(Append(s, e), k, d) = Before(s, k, d)
           /\ Before(Append(s, e), Len(s) + 1, d) = AddPayload(d, PayloadsOf(d, s), e)
           /\ Before(Append(s, e), Len(s) + 1, d) = PayloadsOf(d, Append(s, e))
<1>0. PICK n \in Nat, t \in Seq(S) : Longer(t, s, n, e)
  BY AppendPlaces
<1>1. /\ t = Append(s, e) /\ n = Len(s) /\ Len(t) = n + 1
      /\ DOMAIN s = 1..n /\ DOMAIN t = 1..n \cup {n + 1} /\ n + 1 \notin 1..n
      /\ t[n + 1] = e /\ \A k \in 1..n : t[k] = s[k]
  BY <1>0 DEF Longer
<1>2. ASSUME NEW k \in 0..n PROVE SubSeq(t, 1, k) = SubSeq(s, 1, k)
  <2>1. \A j \in 1..k : t[j] = s[j] /\ j \in 1..n /\ j \in 1..Len(t)
    BY <1>1
  <2>2. k \in 0..Len(s) /\ k \in 0..Len(t)
    BY <1>1
  <2>3. PICK x \in Seq(S), y \in Seq(S) : FirstOf(x, s, k) /\ FirstOf(y, t, k)
    BY <2>2, SubSeqPlaces
  <2>4. /\ x = SubSeq(s, 1, k) /\ y = SubSeq(t, 1, k) /\ Len(x) = Len(y)
        /\ \A j \in 1..Len(x) : x[j] = y[j]
    BY <2>1, <2>3 DEF FirstOf
  <2>5. x = y
    BY <2>4, SeqEqual
  <2> QED
    BY <2>4, <2>5
<1>3. SubSeq(t, 1, n + 1) = t
  BY <1>1, SubSeqFull
<1>4. PayloadsOf(d, t) = AddPayload(d, PayloadsOf(d, s), e)
  BY <1>1, PayloadsAppend
<1> QED
  BY <1>1, <1>2, <1>3, <1>4 DEF Before

LEMMA BeforeWhole ==
    ASSUME NEW S, NEW s \in Seq(S), NEW d
    PROVE  Before(s, Len(s), d) = PayloadsOf(d, s) /\ Before(s, 0, d) = <<>>
<1>1. SubSeq(s, 1, Len(s)) = s
  BY SubSeqFull
<1>2. SubSeq(s, 1, 0) = <<>>
  BY SubSeqEmpty
<1> QED
  BY <1>1, <1>2, PayloadsEmpty DEF Before

LEMMA BeforeStep ==
    ASSUME NEW S, Lines(S), NEW s \in Seq(S), NEW d \in Directions, NEW k \in 1..Len(s)
    PROVE  /\ Before(s, k - 1, d) \in Seq(Payloads) /\ Before(s, k, d) \in Seq(Payloads)
           /\ Before(s, k, d) = AddPayload(d, Before(s, k - 1, d), s[k])
<1>1. k - 1 \in 0..Len(s) /\ k \in 0..Len(s) /\ k \in 1..Len(s)
  BY LenProperties
<1>2. PICK e \in S : e = s[k]
  BY ElementOfSeq
<1>3. PICK x \in Seq(S), y \in Seq(S) : FirstOf(x, s, k - 1) /\ FirstOf(y, s, k)
  BY <1>1, SubSeqPlaces
<1>4. /\ x = SubSeq(s, 1, k - 1) /\ Len(x) = k - 1 /\ \A j \in 1..k-1 : x[j] = s[j]
      /\ y = SubSeq(s, 1, k) /\ Len(y) = k /\ \A j \in 1..k : y[j] = s[j]
  BY <1>3 DEF FirstOf
<1>5. y = Append(x, e)
  <2>1. PICK m \in Nat, z \in Seq(S) : Longer(z, x, m, e)
    BY AppendPlaces
  <2>2. /\ z = Append(x, e) /\ m = k - 1 /\ Len(z) = k /\ z[k] = e
        /\ \A j \in 1..k-1 : z[j] = x[j]
    BY <1>1, <1>4, <2>1 DEF Longer
  <2>3. \A j \in 1..k : y[j] = z[j]
    <3>1. \A j \in 1..k : j \in 1..k-1 \/ j = k
      OBVIOUS
    <3> QED
      BY <1>2, <1>4, <2>2, <3>1
  <2>4. y = z
    BY <1>4, <2>2, <2>3, SeqEqual
  <2> QED
    BY <2>2, <2>4
<1>6. PayloadsOf(d, y) = AddPayload(d, PayloadsOf(d, x), e)
  BY <1>5, PayloadsAppend
<1>7. PayloadsOf(d, x) \in Seq(Payloads) /\ PayloadsOf(d, y) \in Seq(Payloads)
  BY PayloadsType
<1>8. Before(s, k - 1, d) = PayloadsOf(d, x) /\ Before(s, k, d) = PayloadsOf(d, y)
  BY <1>4 DEF Before
<1> QED
  BY <1>2, <1>6, <1>7, <1>8

-----------------------------------------------------------------------------
(***************************************************************************)
(* The requests in a trace, and which of them an answer is for.            *)
(***************************************************************************)
SessionEvents == {e \in AnyEvent : e.payload \in Payloads}

(* An id is asked under again only when its last request is answered, and  *)
(* only what is asked is answered.                                         *)
Balanced(x, y) ==
    /\ Asked(Null, x) = 0
    /\ \A i \in Asking : Answered(i, y) <= Asked(i, x) /\ Asked(i, x) <= Answered(i, y) + 1

BalancedPairs == {r \in Seq(Payloads) \X Seq(Payloads) : Balanced(r[1], r[2])}

(* What the lines of the two directions are to each other, at every place. *)
Turns(t, G) == \A k \in 0..Len(t) : <<Before(t, k, "c2s"), Before(t, k, "s2c")>> \in G

(* A request crosses the proxy before its answer does.                     *)
Precedes(f, g) ==
    \A i \in Asking :
        /\ f.dir = "c2s" /\ g.dir = "s2c"
        /\ Asked(i, <<f.payload>>) > 0 /\ Answered(i, <<g.payload>>) > 0
        => f.at < g.at

Stamped(t) == \A b \in DOMAIN t : \A a \in 1..b-1 : Precedes(t[a], t[b])

Explains(t, k, i, n, r) ==
    /\ IsRequestEvent(t, k, i, n)
    /\ \E m \in DOMAIN t[k].payload.items :
          /\ IsRequest(t[k].payload.items[m], i)
          /\ \A j \in DOMAIN t[k].payload.items :
                IsRequest(t[k].payload.items[j], i) => j = m
          /\ r = Remembered(t[k].payload.items[m], t[k].at)

(* The map of pending requests, as a function of the trace.                *)
PendingOf(t, P) ==
    \A i \in Ids :
        LET asked    == Asked(i, PayloadsOf("c2s", t))
            answered == Answered(i, PayloadsOf("s2c", t))
        IN  IF i \in Asking /\ asked > answered
            THEN \E k \in DOMAIN t : Explains(t, k, i, asked, P[i])
            ELSE P[i] = None

LEMMA EventsAreLines == Lines(SessionEvents)
  BY DEF Lines, SessionEvents

LEMMA PairsOfBalanced ==
    ASSUME NEW x, NEW y, <<x, y>> \in BalancedPairs
    PROVE  x \in Seq(Payloads) /\ y \in Seq(Payloads) /\ Balanced(x, y)
  BY DEF BalancedPairs

LEMMA RequestEventIs ==
    ASSUME NEW S, NEW t \in Seq(S), NEW k \in DOMAIN t, NEW i, NEW n,
           IsRequestEvent(t, k, i, n), n \in Nat
    PROVE  RequestEvent(t, i, n) = k
<1>1. ASSUME NEW j \in DOMAIN t, IsRequestEvent(t, j, i, n)
      PROVE  j = k
  <2>1. j \in Nat /\ k \in Nat /\ 1 <= j /\ 1 <= k
    BY LenProperties
  <2>2. ~(j < k)
    <3> SUFFICES ASSUME j < k PROVE FALSE
      OBVIOUS
    <3>1. j \in 1..k-1
      BY <2>1
    <3>2. Asked(i, Before(t, j, "c2s")) < n
      BY <3>1 DEF IsRequestEvent
    <3>3. Asked(i, Before(t, j, "c2s")) = n
      BY <1>1 DEF IsRequestEvent
    <3> QED
      BY <3>2, <3>3
  <2>3. ~(k < j)
    <3> SUFFICES ASSUME k < j PROVE FALSE
      OBVIOUS
    <3>1. k \in 1..j-1
      BY <2>1
    <3>2. Asked(i, Before(t, k, "c2s")) < n
      BY <1>1, <3>1 DEF IsRequestEvent
    <3>3. Asked(i, Before(t, k, "c2s")) = n
      BY DEF IsRequestEvent
    <3> QED
      BY <3>2, <3>3
  <2> QED
    BY <2>1, <2>2, <2>3
<1> QED
  BY <1>1 DEF RequestEvent

Recalls(t, k, i, n, r) ==
    /\ RequestEvent(t, i, n) = k
    /\ ToolOf(RequestItem(t, i, n)) = Some(r.tool)
    /\ r.at = t[k].at
    /\ r # None

LEMMA RequestItemIs ==
    ASSUME NEW t \in Seq(SessionEvents), NEW k \in DOMAIN t, NEW i, NEW n \in Nat, NEW r,
           Explains(t, k, i, n, r)
    PROVE  Recalls(t, k, i, n, r)
<1>1. RequestEvent(t, i, n) = k
  BY RequestEventIs DEF Explains
<1>2. PICK items \in Seq(AnyItem), at \in Nat : items = t[k].payload.items /\ at = t[k].at
  <2>1. t[k] \in SessionEvents
    BY ElementOfSeq, LenProperties
  <2> QED
    BY <2>1 DEF SessionEvents, AnyEvent, AnyPayload
<1>3. PICK m \in DOMAIN items :
         /\ IsRequest(items[m], i)
         /\ \A j \in DOMAIN items : IsRequest(items[j], i) => j = m
         /\ r = Remembered(items[m], at)
  BY <1>2 DEF Explains
<1>4. (CHOOSE j \in DOMAIN items : IsRequest(items[j], i)) = m
  BY <1>3
<1>5. RequestItem(t, i, n) = items[m]
  BY <1>1, <1>2, <1>4 DEF RequestItem
<1>6. items[m] \in AnyItem
  BY ElementOfSeq, LenProperties
<1>7. items[m].method # None
  BY <1>3, <1>6, RoleCases DEF IsRequest
<1> QED
  <2>1. ToolOf(items[m]) = Some(r.tool)
    BY <1>3, <1>6, ToolOfItem
  <2>2. r # None
    BY <1>3, <1>6, <1>7, RememberedType
  <2>3. r.at = t[k].at
    BY <1>2, <1>3 DEF Remembered
  <2> QED
    BY <1>1, <1>5, <2>1, <2>2, <2>3 DEF Recalls

(* A new event changes nothing about the events before it.                 *)
LEMMA RequestEventStays ==
    ASSUME NEW t \in Seq(SessionEvents), NEW e \in SessionEvents, NEW k \in DOMAIN t
    PROVE  /\ k \in DOMAIN Append(t, e) /\ Append(t, e)[k] = t[k]
           /\ \A d \in Directions : /\ Before(Append(t, e), k, d) = Before(t, k, d)
                                    /\ Before(Append(t, e), k - 1, d) = Before(t, k - 1, d)
           /\ \A i, n : IsRequestEvent(Append(t, e), k, i, n) <=> IsRequestEvent(t, k, i, n)
<1>0. PICK n \in Nat, u \in Seq(SessionEvents) : Longer(u, t, n, e)
  BY AppendPlaces
<1>1. /\ u = Append(t, e) /\ n = Len(t) /\ Len(u) = n + 1
      /\ DOMAIN t = 1..n /\ DOMAIN u = 1..n \cup {n + 1} /\ n + 1 \notin 1..n
      /\ u[n + 1] = e /\ \A j \in 1..n : u[j] = t[j]
  BY <1>0 DEF Longer
<1>2. \A d \in Directions : \A j \in 0..n : Before(u, j, d) = Before(t, j, d)
  BY <1>1, EventsAreLines, BeforeAppend
<1>3. k \in 0..n /\ k - 1 \in 0..n /\ \A j \in 1..k-1 : j \in 0..n
  BY <1>1
<1>4. "c2s" \in Directions
  BY DEF Directions
<1>5. \A i, m : IsRequestEvent(u, k, i, m) <=> IsRequestEvent(t, k, i, m)
  BY <1>1, <1>2, <1>3, <1>4 DEF IsRequestEvent
<1> QED
  BY <1>1, <1>2, <1>3, <1>5

LEMMA ExplainsStays ==
    ASSUME NEW t \in Seq(SessionEvents), NEW e \in SessionEvents, NEW k \in DOMAIN t,
           NEW i, NEW n, NEW r, Explains(t, k, i, n, r)
    PROVE  k \in DOMAIN Append(t, e) /\ Explains(Append(t, e), k, i, n, r)
  BY RequestEventStays DEF Explains

LEMMA AnsweredByType ==
    ASSUME NEW t \in Seq(SessionEvents), NEW k \in DOMAIN t, NEW item
    PROVE  AnsweredBy(t, k, item) \in Nat
<1>1. k \in 1..Len(t)
  BY LenProperties
<1>2. Before(t, k - 1, "s2c") \in Seq(Payloads)
  BY <1>1, EventsAreLines, BeforeStep DEF Directions
<1>3. Answered(item.id, Before(t, k - 1, "s2c")) \in Nat
  BY <1>2, CountsOfLines
<1> QED
  BY <1>3 DEF AnsweredBy

LEMMA EventStays ==
    ASSUME NEW t \in Seq(SessionEvents), NEW e \in SessionEvents, NEW k \in DOMAIN t,
           RoundTripExact(t, k)
    PROVE  /\ RoundTripExact(Append(t, e), k)
           /\ CreditExact(t, k) => CreditExact(Append(t, e), k)
<1>0. PICK n \in Nat, u \in Seq(SessionEvents) : Longer(u, t, n, e)
  BY AppendPlaces
<1>1. /\ u = Append(t, e) /\ n = Len(t) /\ Len(u) = n + 1
      /\ DOMAIN t = 1..n /\ DOMAIN u = 1..n \cup {n + 1} /\ n + 1 \notin 1..n
      /\ u[n + 1] = e /\ \A j \in 1..n : u[j] = t[j]
  BY <1>0 DEF Longer
<1>2. PICK items : items = t[k].payload.items
  OBVIOUS
<1>3. \A j \in DOMAIN t :
         /\ j \in DOMAIN u /\ u[j] = t[j]
         /\ Before(u, j - 1, "s2c") = Before(t, j - 1, "s2c")
         /\ \A i, m : IsRequestEvent(u, j, i, m) <=> IsRequestEvent(t, j, i, m)
  BY <1>1, RequestEventStays DEF Directions
<1>4. \A item : AnsweredBy(u, k, item) = AnsweredBy(t, k, item)
  BY <1>3 DEF AnsweredBy
<1>5. \A j \in 1..k-1 : j \in DOMAIN t
  BY <1>1
<1>6. ASSUME NEW m \in DOMAIN items, Responds(t[k], items[m]),
             NEW c, c = AnsweredBy(t, k, items[m])
      PROVE  /\ RequestEvent(u, items[m].id, c) = RequestEvent(t, items[m].id, c)
             /\ RequestEvent(t, items[m].id, c) \in DOMAIN t
  <2>1. PICK j \in 1..k-1 : IsRequestEvent(t, j, items[m].id, c)
    BY <1>2, <1>6 DEF RoundTripExact
  <2>2. c \in Nat
    BY <1>6, AnsweredByType
  <2>3. j \in DOMAIN t /\ j \in DOMAIN u /\ IsRequestEvent(u, j, items[m].id, c)
    BY <1>3, <1>5, <2>1
  <2>4. RequestEvent(t, items[m].id, c) = j
    BY <2>1, <2>2, <2>3, RequestEventIs
  <2>5. RequestEvent(u, items[m].id, c) = j
    BY <2>2, <2>3, RequestEventIs
  <2> QED
    BY <2>3, <2>4, <2>5
<1>7. \A m \in DOMAIN items : RoundTrip(u, k, items[m]) = RoundTrip(t, k, items[m])
  BY <1>3, <1>4, <1>6 DEF RoundTrip
<1>8. \A m \in DOMAIN items : Credit(u, k, items[m]) = Credit(t, k, items[m])
  <2> TAKE m \in DOMAIN items
  <2>1. CASE Role(items[m]) # "call" /\ Responds(t[k], items[m])
    <3>1. PICK c : c = AnsweredBy(t, k, items[m]) /\ c = AnsweredBy(u, k, items[m])
      BY <1>4
    <3>2. PICK j \in DOMAIN t : /\ j = RequestEvent(t, items[m].id, c)
                               /\ j = RequestEvent(u, items[m].id, c)
      BY <1>6, <2>1, <3>1
    <3>3. t[j] = u[j]
      BY <1>3
    <3>4. RequestItem(u, items[m].id, c) = RequestItem(t, items[m].id, c)
      BY <3>2, <3>3 DEF RequestItem
    <3> QED
      BY <1>3, <2>1, <3>1, <3>4 DEF Credit
  <2>2. CASE ~(Role(items[m]) # "call" /\ Responds(t[k], items[m]))
    BY <1>3, <2>2 DEF Credit
  <2> QED
    BY <2>1, <2>2
<1>9. RoundTripExact(u, k)
  <2>1. [m \in DOMAIN items |-> RoundTrip(u, k, items[m])]
           = [m \in DOMAIN items |-> RoundTrip(t, k, items[m])]
    BY <1>7
  <2>2. \A m \in DOMAIN items : Responds(t[k], items[m]) =>
           \E j \in 1..k-1 : /\ IsRequestEvent(u, j, items[m].id, AnsweredBy(u, k, items[m]))
                            /\ u[j].at < u[k].at
    <3>1. \A m \in DOMAIN items : Responds(t[k], items[m]) =>
             \E j \in 1..k-1 : /\ IsRequestEvent(t, j, items[m].id, AnsweredBy(t, k, items[m]))
                              /\ t[j].at < t[k].at
      BY <1>2 DEF RoundTripExact
    <3> QED
      BY <1>3, <1>4, <1>5, <3>1
  <2>3. t[k].facts.latencies = FlattenSeq([m \in DOMAIN items |-> RoundTrip(t, k, items[m])])
    BY <1>2 DEF RoundTripExact
  <2> QED
    BY <1>2, <1>3, <2>1, <2>2, <2>3 DEF RoundTripExact
<1>10. CreditExact(t, k) => CreditExact(u, k)
  <2>1. [m \in DOMAIN items |-> Credit(u, k, items[m])]
           = [m \in DOMAIN items |-> Credit(t, k, items[m])]
    BY <1>8
  <2> QED
    BY <1>2, <1>3, <2>1 DEF CreditExact
<1> QED
  BY <1>1, <1>9, <1>10

-----------------------------------------------------------------------------
(***************************************************************************)
(* One more event: its round trips and tools are right, and so is the map  *)
(* of pending requests after it.                                           *)
(***************************************************************************)
LEMMA FlatMapNone ==
    ASSUME NEW S, NEW T, NEW g \in [S -> Seq(T)], \A e \in S : g[e] = <<>>
    PROVE  \A s \in Seq(S) : FlatMap(g, s) = <<>>
<1> DEFINE Q == {s \in Seq(S) : FlatMap(g, s) = <<>>}
<1>1. <<>> \in Q
  BY EmptySeq, FlatMapEmpty
<1>2. ASSUME NEW s \in Seq(S), NEW e \in S, s \in Q
      PROVE  Append(s, e) \in Q
  <2>1. FlatMap(g, Append(s, e)) = Cat(FlatMap(g, s), g[e])
    BY FlatMapAppend
  <2>2. Cat(<<>>, <<>>) = <<>>
    BY EmptySeq, ConcatEmptySeq DEF Cat
  <2>3. Append(s, e) \in Seq(S)
    BY AppendProperties
  <2> QED
    BY <1>2, <2>1, <2>2, <2>3
<1> HIDE DEF Q
<1>3. \A s \in Seq(S) : s \in Q
  BY <1>1, <1>2, SequenceInduction
<1> QED
  BY <1>3 DEF Q

LEMMA SeenIsAfter ==
    ASSUME NEW p \in Payloads, NEW dir \in Directions, NEW P \in PendingMap, NEW at \in Nat,
           NEW e, NEW Q, NEW a,
           e = ObservePayloadAt(p, dir, P, at).event, Q = ObservePayloadAt(p, dir, P, at).pending,
           a = After(dir, at, P, p.items)
    PROVE  /\ e.dir = dir /\ e.at = at /\ e.payload = p /\ e \in SessionEvents
           /\ Q \in PendingMap
           /\ e.facts.latencies = a.facts.latencies
           /\ e.facts.tools = a.facts.tools
           /\ Q = a.pending
<1>1. p \in AnyPayload
  BY StdioSessionAssumption
<1>2. /\ e \in AnyEvent /\ e.dir = dir /\ e.at = at /\ e.payload = p
      /\ Q \in PendingMap
  BY <1>1, ObservedType
<1>3. PICK seen : seen = Inspected(p, dir, P, at)
  OBVIOUS
<1>4. e.facts = seen.facts /\ Q = seen.pending
  BY <1>3 DEF ObservePayloadAt
<1>5. CASE p.json
  <2>1. seen = a
    BY <1>1, <1>3, <1>5, InspectedAfter
  <2> QED
    BY <1>2, <1>4, <2>1 DEF SessionEvents
<1>6. CASE ~p.json
  <2>1. p.items = <<>>
    BY <1>6, StdioSessionAssumption
  <2>2. a = Start(P)
    BY <2>1, AfterEmpty
  <2>3. seen = [Start(P) EXCEPT !.facts.ok = FALSE]
    BY <1>1, <1>3, <1>6, InspectedAfter
  <2>4. /\ seen.facts.latencies = a.facts.latencies /\ seen.facts.tools = a.facts.tools
        /\ seen.pending = a.pending
    BY <2>2, <2>3 DEF Start, NoFacts
  <2> QED
    BY <1>2, <1>4, <2>4 DEF SessionEvents
<1> QED
  BY <1>5, <1>6

LEMMA AskedBefore ==
    ASSUME NEW i
    PROVE  \A t \in Seq(SessionEvents) : \A j \in 0..Len(t) :
              Asked(i, Before(t, j, "c2s")) <= Asked(i, PayloadsOf("c2s", t))
<1> DEFINE Q == {t \in Seq(SessionEvents) : \A j \in 0..Len(t) :
                    Asked(i, Before(t, j, "c2s")) <= Asked(i, PayloadsOf("c2s", t))}
<1>1. "c2s" \in Directions
  BY DEF Directions
<1>2. <<>> \in Q
  <2>1. PICK z \in Seq(SessionEvents) : z = <<>> /\ Len(z) = 0
    BY EmptySeq
  <2>2. Before(z, 0, "c2s") = PayloadsOf("c2s", z)
    BY <2>1, BeforeWhole
  <2>3. Asked(i, PayloadsOf("c2s", z)) \in Nat
    BY <1>1, EventsAreLines, PayloadsType, CountsOfLines
  <2>4. \A j \in 0..Len(z) : j = 0
    BY <2>1
  <2> QED
    BY <2>1, <2>2, <2>3, <2>4
<1>3. ASSUME NEW t \in Seq(SessionEvents), NEW e \in SessionEvents, t \in Q
      PROVE  Append(t, e) \in Q
  <2>0. PICK n \in Nat, u \in Seq(SessionEvents) : Longer(u, t, n, e)
    BY AppendPlaces
  <2>1. n = Len(t) /\ u = Append(t, e) /\ Len(u) = n + 1
    BY <2>0 DEF Longer
  <2>2. PICK x \in Seq(Payloads), y \in Seq(Payloads) :
           x = PayloadsOf("c2s", t) /\ y = PayloadsOf("c2s", u)
    BY <1>1, EventsAreLines, PayloadsType
  <2>3. /\ \A k \in 0..n : Before(u, k, "c2s") = Before(t, k, "c2s")
        /\ Before(u, n + 1, "c2s") = y /\ y = AddPayload("c2s", x, e)
    BY <1>1, <2>1, <2>2, EventsAreLines, BeforeAppend
  <2>4. Asked(i, x) \in Nat /\ Asked(i, y) \in Nat /\ Asked(i, x) <= Asked(i, y)
    <3>1. CASE e.dir = "c2s"
      <4>1. e.payload \in Payloads
        BY DEF SessionEvents
      <4>2. Asked(i, y) = Asked(i, x) + Asked(i, <<e.payload>>)
        BY <2>3, <3>1, <4>1, CountsOfLines DEF AddPayload
      <4> QED
        BY <4>1, <4>2, CountsOfLines, LineAsks
    <3>2. CASE e.dir # "c2s"
      <4>1. y = x
        BY <2>3, <3>2 DEF AddPayload
      <4>2. Asked(i, x) \in Nat
        BY CountsOfLines
      <4> QED
        BY <4>1, <4>2
    <3> QED
      BY <3>1, <3>2
  <2>5. ASSUME NEW j \in 0..Len(u)
        PROVE  Asked(i, Before(u, j, "c2s")) <= Asked(i, y)
    <3>1. CASE j \in 0..n
      <4>1. Asked(i, Before(t, j, "c2s")) <= Asked(i, x)
        BY <1>3, <2>1, <2>2, <3>1
      <4>2. Before(t, j, "c2s") \in Seq(Payloads)
        <5>1. CASE j = 0
          <6>1. Before(t, 0, "c2s") = <<>>
            BY BeforeWhole
          <6>2. <<>> \in Seq(Payloads)
            BY EmptySeq
          <6> QED
            BY <5>1, <6>1, <6>2
        <5>2. CASE j # 0
          <6>1. j \in 1..Len(t)
            BY <2>1, <3>1, <5>2
          <6> QED
            BY <1>1, <6>1, EventsAreLines, BeforeStep
        <5> QED
          BY <5>1, <5>2
      <4>3. Asked(i, Before(t, j, "c2s")) \in Nat
        BY <4>2, CountsOfLines
      <4> QED
        BY <2>3, <2>4, <3>1, <4>1, <4>3
    <3>2. CASE j = n + 1
      BY <2>3, <2>4, <3>2
    <3> QED
      BY <2>1, <3>1, <3>2
  <2> QED
    BY <2>1, <2>2, <2>5
<1> HIDE DEF Q
<1>4. \A t \in Seq(SessionEvents) : t \in Q
  BY <1>2, <1>3, SequenceInduction
<1> QED
  BY <1>4 DEF Q

(* The measurements of an event, when its items are known.                 *)
CreditsOf(u, k, items) == FlattenSeq([m \in DOMAIN items |-> Credit(u, k, items[m])])

RoundTripsOf(u, k, items) == FlattenSeq([m \in DOMAIN items |-> RoundTrip(u, k, items[m])])

Answering(u, k, items) ==
    \A m \in DOMAIN items :
        Responds(u[k], items[m]) =>
          \E j \in 1..k-1 :
             /\ IsRequestEvent(u, j, items[m].id, AnsweredBy(u, k, items[m]))
             /\ u[j].at < u[k].at

LEMMA CreditedItems ==
    ASSUME NEW u, NEW k, NEW items, u[k].payload.items = items,
           u[k].facts.tools = CreditsOf(u, k, items)
    PROVE  CreditExact(u, k)
  BY DEF CreditExact, CreditsOf

LEMMA TimedItems ==
    ASSUME NEW u, NEW k, NEW items, u[k].payload.items = items,
           u[k].facts.latencies = RoundTripsOf(u, k, items), Answering(u, k, items)
    PROVE  RoundTripExact(u, k)
  BY DEF RoundTripExact, RoundTripsOf, Answering

(* Two traces, one an event longer than the other, and their lines.        *)
LEMMA TurnsAtEnd ==
    ASSUME NEW t \in Seq(SessionEvents), NEW e \in SessionEvents,
           Turns(Append(t, e), BalancedPairs)
    PROVE  \E n \in Nat, u \in Seq(SessionEvents), x \in Seq(Payloads), y \in Seq(Payloads) :
              /\ u = Append(t, e) /\ n = Len(t) /\ Len(u) = n + 1
              /\ DOMAIN t = 1..n /\ DOMAIN u = 1..n \cup {n + 1} /\ n + 1 \notin 1..n
              /\ u[n + 1] = e /\ \A k \in 1..n : u[k] = t[k]
              /\ x = PayloadsOf("c2s", t) /\ y = PayloadsOf("s2c", t) /\ Balanced(x, y)
              /\ PayloadsOf("c2s", u) = AddPayload("c2s", x, e)
              /\ PayloadsOf("s2c", u) = AddPayload("s2c", y, e)
              /\ Balanced(PayloadsOf("c2s", u), PayloadsOf("s2c", u))
              /\ Before(u, n, "c2s") = x /\ Before(u, n, "s2c") = y
              /\ Before(u, n + 1, "c2s") = PayloadsOf("c2s", u)
              /\ \A k \in 0..n : Before(u, k, "c2s") = Before(t, k, "c2s")
<1>0. PICK n \in Nat, u \in Seq(SessionEvents) : Longer(u, t, n, e)
  BY AppendPlaces
<1>1. /\ u = Append(t, e) /\ n = Len(t) /\ Len(u) = n + 1
      /\ DOMAIN t = 1..n /\ DOMAIN u = 1..n \cup {n + 1} /\ n + 1 \notin 1..n
      /\ u[n + 1] = e /\ \A k \in 1..n : u[k] = t[k]
  BY <1>0 DEF Longer
<1>2. PICK x \in Seq(Payloads), y \in Seq(Payloads) :
         x = PayloadsOf("c2s", t) /\ y = PayloadsOf("s2c", t)
  BY EventsAreLines, PayloadsType DEF Directions
<1>3. \A d \in Directions :
         /\ \A k \in 0..n : Before(u, k, d) = Before(t, k, d)
         /\ Before(u, n + 1, d) = AddPayload(d, PayloadsOf(d, t), e)
         /\ Before(u, n + 1, d) = PayloadsOf(d, u)
         /\ Before(t, n, d) = PayloadsOf(d, t)
  BY <1>1, EventsAreLines, BeforeAppend, BeforeWhole
<1>4. n \in 0..n /\ n \in 0..Len(u) /\ n + 1 \in 0..Len(u)
      /\ "c2s" \in Directions /\ "s2c" \in Directions
  BY <1>1 DEF Directions
<1>5. /\ <<Before(u, n, "c2s"), Before(u, n, "s2c")>> \in BalancedPairs
      /\ <<Before(u, n + 1, "c2s"), Before(u, n + 1, "s2c")>> \in BalancedPairs
  BY <1>1, <1>4 DEF Turns
<1>6. /\ Before(u, n, "c2s") = x /\ Before(u, n, "s2c") = y
      /\ Before(u, n + 1, "c2s") = PayloadsOf("c2s", u)
      /\ Before(u, n + 1, "s2c") = PayloadsOf("s2c", u)
      /\ PayloadsOf("c2s", u) = AddPayload("c2s", x, e)
      /\ PayloadsOf("s2c", u) = AddPayload("s2c", y, e)
  BY <1>2, <1>3, <1>4
<1>7. Balanced(x, y) /\ Balanced(PayloadsOf("c2s", u), PayloadsOf("s2c", u))
  BY <1>5, <1>6, PairsOfBalanced
<1>8. \A k \in 0..n : Before(u, k, "c2s") = Before(t, k, "c2s")
  BY <1>3, <1>4
<1> QED
  BY <1>1, <1>2, <1>6, <1>7, <1>8

LEMMA CallEvent ==
    ASSUME NEW t \in Seq(SessionEvents), NEW P \in PendingMap, PendingOf(t, P),
           NEW p \in Payloads, NEW at \in Nat, NEW e, NEW Q,
           e = ObservePayloadAt(p, "c2s", P, at).event,
           Q = ObservePayloadAt(p, "c2s", P, at).pending,
           Turns(Append(t, e), BalancedPairs)
    PROVE  /\ RoundTripExact(Append(t, e), Len(t) + 1)
           /\ CreditExact(Append(t, e), Len(t) + 1)
           /\ PendingOf(Append(t, e), Q)
<1>1. "c2s" \in Directions
  BY DEF Directions
<1>2. PICK items \in Seq(AnyItem) : items = p.items
  BY StdioSessionAssumption DEF AnyPayload
<1>3. PICK a : a = After("c2s", at, P, items)
  OBVIOUS
<1>4. /\ e.dir = "c2s" /\ e.at = at /\ e.payload = p /\ e \in SessionEvents
      /\ Q \in PendingMap /\ Q = a.pending
      /\ e.facts.latencies = a.facts.latencies /\ e.facts.tools = a.facts.tools
  BY <1>1, <1>2, <1>3, SeenIsAfter
<1>5. /\ a.facts.latencies = <<>> /\ a.facts.tools = FlatMap(Own, items)
      /\ \A i \in Ids :
            \/ a.pending[i] = P[i] /\ \A m \in DOMAIN items : ~IsRequest(items[m], i)
            \/ \E m \in DOMAIN items :
                  IsRequest(items[m], i) /\ a.pending[i] = Remembered(items[m], at)
  BY <1>3, CallsAreRead DEF CallsRead
<1>6. PICK n \in Nat, u \in Seq(SessionEvents), x \in Seq(Payloads), y \in Seq(Payloads) :
         /\ u = Append(t, e) /\ n = Len(t) /\ Len(u) = n + 1
         /\ DOMAIN t = 1..n /\ DOMAIN u = 1..n \cup {n + 1} /\ n + 1 \notin 1..n
         /\ u[n + 1] = e /\ \A k \in 1..n : u[k] = t[k]
         /\ x = PayloadsOf("c2s", t) /\ y = PayloadsOf("s2c", t) /\ Balanced(x, y)
         /\ PayloadsOf("c2s", u) = AddPayload("c2s", x, e)
         /\ PayloadsOf("s2c", u) = AddPayload("s2c", y, e)
         /\ Balanced(PayloadsOf("c2s", u), PayloadsOf("s2c", u))
         /\ Before(u, n, "c2s") = x /\ Before(u, n, "s2c") = y
         /\ Before(u, n + 1, "c2s") = PayloadsOf("c2s", u)
         /\ \A k \in 0..n : Before(u, k, "c2s") = Before(t, k, "c2s")
  BY <1>4, TurnsAtEnd
<1>7. PayloadsOf("c2s", u) = Append(x, p) /\ PayloadsOf("s2c", u) = y
  BY <1>4, <1>6 DEF AddPayload
<1>8. \A item : ~Responds(u[n + 1], item)
  BY <1>4, <1>6 DEF Responds
<1>9. RoundTripExact(u, n + 1)
  <2> DEFINE Nothing == [item \in AnyItem |-> <<>>]
  <2>1. Nothing \in [AnyItem -> Seq(Nat)] /\ \A item \in AnyItem : Nothing[item] = <<>>
    BY EmptySeq
  <2>2. \A m \in DOMAIN items : RoundTrip(u, n + 1, items[m]) = Nothing[items[m]]
    <3>1. \A m \in DOMAIN items : items[m] \in AnyItem
      BY ElementOfSeq, LenProperties
    <3> QED
      BY <1>8, <3>1 DEF RoundTrip
  <2> HIDE DEF Nothing
  <2>3. [m \in DOMAIN items |-> RoundTrip(u, n + 1, items[m])] = Images(Nothing, items)
    BY <2>2 DEF Images
  <2>4. FlatMap(Nothing, items) = <<>>
    BY <2>1, FlatMapNone
  <2> QED
    BY <1>2, <1>4, <1>5, <1>6, <1>8, <2>3, <2>4 DEF RoundTripExact, FlatMap
<1>10. CreditExact(u, n + 1)
  <2>1. \A m \in DOMAIN items : Credit(u, n + 1, items[m]) = Own[items[m]]
    <3>1. \A m \in DOMAIN items : items[m] \in AnyItem
      BY ElementOfSeq, LenProperties
    <3> QED
      BY <1>8, <3>1 DEF Credit, Own
  <2>2. [m \in DOMAIN items |-> Credit(u, n + 1, items[m])] = Images(Own, items)
    BY <2>1 DEF Images
  <2>3. u[n + 1].payload.items = items /\ u[n + 1].facts.tools = FlatMap(Own, items)
    BY <1>2, <1>4, <1>5, <1>6
  <2>4. CreditsOf(u, n + 1, items) = FlatMap(Own, items)
    BY <2>2 DEF CreditsOf, FlatMap
  <2> QED
    BY <2>3, <2>4, CreditedItems
<1>11. ASSUME NEW i \in Ids
       PROVE  IF i \in Asking /\ Asked(i, Append(x, p)) > Answered(i, y)
              THEN \E k \in DOMAIN u : Explains(u, k, i, Asked(i, Append(x, p)), Q[i])
              ELSE Q[i] = None
  <2>1. PICK h \in Nat, r \in Nat, c \in Nat :
           /\ h = Asked(i, x) /\ r = Answered(i, y) /\ c = Asked(i, <<p>>)
           /\ Asked(i, Append(x, p)) = h + c
    <3>1. Asked(i, x) \in Nat /\ Asked(i, Append(x, p)) = Asked(i, x) + Asked(i, <<p>>)
      BY CountsOfLines
    <3>2. Answered(i, y) \in Nat
      BY CountsOfLines
    <3>3. Asked(i, <<p>>) \in Nat
      BY LineAsks
    <3> QED
      BY <3>1, <3>2, <3>3
  <2>2. IF i \in Asking /\ h > r
        THEN \E k \in DOMAIN t : Explains(t, k, i, h, P[i]) ELSE P[i] = None
    BY <1>6, <2>1 DEF PendingOf
  <2>3. i \in Asking => r <= h /\ h + c <= r + 1
    BY <1>6, <1>7, <2>1 DEF Balanced
  <2>4. c = 0 => Q[i] = P[i]
    <3>1. c = 0 <=> NoneAsks(items, i)
      BY <1>2, <2>1, LineAsks
    <3> QED
      BY <1>4, <1>5, <3>1 DEF NoneAsks
  <2>5. CASE i \notin Asking
    <3>1. i = Null
      BY <2>5 DEF Asking
    <3>2. Asked(Null, Append(x, p)) = 0
      BY <1>6, <1>7 DEF Balanced
    <3>3. c = 0
      BY <2>1, <3>1, <3>2
    <3> QED
      BY <2>2, <2>4, <2>5, <3>3
  <2>6. CASE i \in Asking /\ c = 0
    <3>1. h + c = h
      BY <2>6
    <3>2. CASE h > r
      <4>1. PICK k \in DOMAIN t : Explains(t, k, i, h, Q[i])
        BY <2>2, <2>4, <2>6, <3>2
      <4>2. k \in DOMAIN u /\ Explains(u, k, i, h, Q[i])
        BY <1>4, <1>6, <4>1, ExplainsStays
      <4> QED
        BY <2>1, <2>6, <3>1, <3>2, <4>2
    <3>3. CASE ~(h > r)
      BY <2>1, <2>2, <2>4, <2>6, <3>1, <3>3
    <3> QED
      BY <3>2, <3>3
  <2>7. CASE i \in Asking /\ c # 0
    <3>1. c = 1 /\ h = r /\ h + c = r + 1 /\ h + c > r
      BY <2>3, <2>7
    <3>2. ~NoneAsks(items, i) /\ OneAsks(items, i)
      <4>1. c = 0 <=> NoneAsks(items, i)
        BY <1>2, <2>1, LineAsks
      <4>2. c <= 1 => OneAsks(items, i)
        BY <1>2, <2>1, LineAsks
      <4> QED
        BY <3>1, <4>1, <4>2
    <3>3. PICK m \in DOMAIN items : IsRequest(items[m], i) /\ Q[i] = Remembered(items[m], at)
      BY <1>4, <1>5, <3>2 DEF NoneAsks
    <3>4. \A j \in DOMAIN items : IsRequest(items[j], i) => j = m
      BY <3>2, <3>3 DEF OneAsks
    <3>5. \A j \in 1..(n + 1) - 1 : Asked(i, Before(u, j, "c2s")) < h + c
      <4> TAKE j \in 1..(n + 1) - 1
      <4>1. j \in 0..n /\ j \in 1..Len(t)
        BY <1>6
      <4>2. Asked(i, Before(t, j, "c2s")) <= h
        BY <1>6, <2>1, <4>1, AskedBefore
      <4>3. Before(u, j, "c2s") = Before(t, j, "c2s")
        BY <1>6, <4>1
      <4>4. Asked(i, Before(t, j, "c2s")) \in Nat
        BY <1>1, <4>1, EventsAreLines, BeforeStep, CountsOfLines
      <4> QED
        BY <3>1, <4>2, <4>3, <4>4
    <3>6. IsRequestEvent(u, n + 1, i, h + c)
      BY <1>4, <1>6, <1>7, <2>1, <3>5 DEF IsRequestEvent
    <3>7. u[n + 1].payload.items = items /\ u[n + 1].at = at
      BY <1>2, <1>4, <1>6
    <3>8. Explains(u, n + 1, i, h + c, Q[i])
      BY <3>3, <3>4, <3>6, <3>7, Zenon DEF Explains
    <3> QED
      BY <1>6, <2>1, <2>7, <3>1, <3>8
  <2> QED
    BY <2>5, <2>6, <2>7
<1>12. PendingOf(u, Q)
  BY <1>7, <1>11 DEF PendingOf
<1> QED
  BY <1>6, <1>9, <1>10, <1>12

LEMMA AnswerEvent ==
    ASSUME NEW t \in Seq(SessionEvents), NEW P \in PendingMap, PendingOf(t, P),
           NEW p \in Payloads, NEW at \in Nat, NEW e, NEW Q,
           e = ObservePayloadAt(p, "s2c", P, at).event,
           Q = ObservePayloadAt(p, "s2c", P, at).pending,
           Turns(Append(t, e), BalancedPairs), Stamped(Append(t, e))
    PROVE  /\ RoundTripExact(Append(t, e), Len(t) + 1)
           /\ CreditExact(Append(t, e), Len(t) + 1)
           /\ PendingOf(Append(t, e), Q)
<1>1. "s2c" \in Directions
  BY DEF Directions
<1>2. PICK items \in Seq(AnyItem) : items = p.items
  BY StdioSessionAssumption DEF AnyPayload
<1>3. PICK a : a = After("s2c", at, P, items)
  OBVIOUS
<1>4. /\ e.dir = "s2c" /\ e.at = at /\ e.payload = p /\ e \in SessionEvents
      /\ Q \in PendingMap /\ Q = a.pending
      /\ e.facts.latencies = a.facts.latencies /\ e.facts.tools = a.facts.tools
  BY <1>1, <1>2, <1>3, SeenIsAfter
<1>5. PICK n \in Nat, u \in Seq(SessionEvents), x \in Seq(Payloads), y \in Seq(Payloads) :
         /\ u = Append(t, e) /\ n = Len(t) /\ Len(u) = n + 1
         /\ DOMAIN t = 1..n /\ DOMAIN u = 1..n \cup {n + 1} /\ n + 1 \notin 1..n
         /\ u[n + 1] = e /\ \A k \in 1..n : u[k] = t[k]
         /\ x = PayloadsOf("c2s", t) /\ y = PayloadsOf("s2c", t) /\ Balanced(x, y)
         /\ PayloadsOf("c2s", u) = AddPayload("c2s", x, e)
         /\ PayloadsOf("s2c", u) = AddPayload("s2c", y, e)
         /\ Balanced(PayloadsOf("c2s", u), PayloadsOf("s2c", u))
         /\ Before(u, n, "c2s") = x /\ Before(u, n, "s2c") = y
         /\ Before(u, n + 1, "c2s") = PayloadsOf("c2s", u)
         /\ \A k \in 0..n : Before(u, k, "c2s") = Before(t, k, "c2s")
  BY <1>4, TurnsAtEnd
<1>6. PayloadsOf("c2s", u) = x /\ PayloadsOf("s2c", u) = Append(y, p)
  BY <1>4, <1>5 DEF AddPayload
<1>7. Len(t) + 1 - 1 = n
  BY <1>5
<1>8. \A i \in Ids : P[i] # None => i \in Asking
  BY DEF PendingOf
(* What is counted for one id: at most one answer in the line.             *)
<1>9. ASSUME NEW i \in Asking
      PROVE  \E h \in Nat, r \in Nat, c \in Nat :
                /\ h = Asked(i, x) /\ r = Answered(i, y) /\ c = Answered(i, <<p>>)
                /\ Answered(i, Append(y, p)) = r + c
                /\ c = 0 \/ (c = 1 /\ h = r + 1)
                /\ IF h > r THEN \E k \in DOMAIN t : Explains(t, k, i, h, P[i]) ELSE P[i] = None
  <2>1. PICK h \in Nat, r \in Nat, c \in Nat :
           /\ h = Asked(i, x) /\ r = Answered(i, y) /\ c = Answered(i, <<p>>)
           /\ Answered(i, Append(y, p)) = r + c
    <3>1. Answered(i, y) \in Nat /\ Answered(i, Append(y, p)) = Answered(i, y) + Answered(i, <<p>>)
      BY CountsOfLines
    <3>2. Asked(i, x) \in Nat
      BY CountsOfLines
    <3>3. Answered(i, <<p>>) \in Nat
      BY LineAnswers
    <3> QED
      BY <3>1, <3>2, <3>3
  <2>2. r <= h /\ h <= r + 1 /\ r + c <= h
    BY <1>5, <1>6, <2>1 DEF Balanced
  <2>3. c = 0 \/ (c = 1 /\ h = r + 1)
    BY <2>2
  <2>4. IF h > r THEN \E k \in DOMAIN t : Explains(t, k, i, h, P[i]) ELSE P[i] = None
    BY <1>5, <2>1 DEF PendingOf, Asking
  <2> QED
    BY <2>1, <2>3, <2>4
<1>10. AnswersOnce(P, items)
  <2> SUFFICES ASSUME NEW i \in Ids, P[i] # None, NEW j \in DOMAIN items, NEW k \in DOMAIN items,
                      IsResponse(items[j], i), IsResponse(items[k], i)
               PROVE  j = k
    BY DEF AnswersOnce
  <2>1. Answered(i, <<p>>) = 0 \/ Answered(i, <<p>>) = 1
    BY <1>8, <1>9
  <2>2. Answered(i, <<p>>) <= 1
    BY <2>1
  <2>3. OneAnswers(items, i)
    BY <1>2, <2>2, LineAnswers
  <2> QED
    BY <2>3 DEF OneAnswers
<1>11. /\ a.facts.latencies = FlatMap(Taken(P, at), items)
       /\ a.facts.tools = FlatMap(Credited(P), items)
       /\ \A i \in Ids : a.pending[i]
             = IF \E m \in DOMAIN items : IsResponse(items[m], i) THEN None ELSE P[i]
  BY <1>3, <1>10, AnswersAreRead DEF AnswersRead
<1>12. \A item : AnsweredBy(u, n + 1, item) = Answered(item.id, y) + 1
  BY <1>5 DEF AnsweredBy
(* Each response in the line is for the last request with its id.          *)
<1>13. ASSUME NEW m \in DOMAIN items, Responds(e, items[m]), NEW i, i = items[m].id
       PROVE  \E k \in 1..n, h \in Nat :
                 /\ h = AnsweredBy(u, n + 1, items[m])
                 /\ IsRequestEvent(u, k, i, h) /\ RequestEvent(u, i, h) = k
                 /\ ToolOf(RequestItem(u, i, h)) = Some(P[i].tool)
                 /\ P[i].at = u[k].at /\ u[k].at < at
                 /\ P[i] # None
  <2>1. i \in Asking /\ i \in Ids /\ IsResponse(items[m], i)
    BY <1>13 DEF Responds, IsResponse, Asking
  <2>2. PICK h \in Nat, r \in Nat, c \in Nat :
           /\ h = Asked(i, x) /\ r = Answered(i, y) /\ c = Answered(i, <<p>>)
           /\ c = 0 \/ (c = 1 /\ h = r + 1)
           /\ IF h > r THEN \E k \in DOMAIN t : Explains(t, k, i, h, P[i]) ELSE P[i] = None
    BY <1>9, <2>1
  <2>3. c = 1 /\ h = r + 1 /\ h > r
    <3>1. c # 0
      <4>1. c = 0 <=> NoneAnswers(items, i)
        BY <1>2, <2>2, LineAnswers
      <4> QED
        BY <2>1, <4>1 DEF NoneAnswers
    <3> QED
      BY <2>2, <3>1
  <2>4. PICK k \in DOMAIN t : Explains(t, k, i, h, P[i])
    BY <2>2, <2>3
  <2>5. k \in DOMAIN u /\ Explains(u, k, i, h, P[i])
    BY <1>4, <1>5, <2>4, ExplainsStays
  <2>6. /\ RequestEvent(u, i, h) = k /\ ToolOf(RequestItem(u, i, h)) = Some(P[i].tool)
        /\ P[i].at = u[k].at /\ P[i] # None
    <3>1. Recalls(u, k, i, h, P[i])
      BY <2>5, RequestItemIs
    <3> QED
      BY <3>1 DEF Recalls
  <2>7. IsRequestEvent(u, k, i, h)
    BY <2>5 DEF Explains
  <2>8. u[k].at < at
    <3>1. u[k].dir = "c2s" /\ u[k].payload \in Payloads
      <4>1. u[k] \in SessionEvents
        BY <2>5, ElementOfSeq, LenProperties
      <4> QED
        BY <2>7, <4>1 DEF IsRequestEvent, SessionEvents
    <3>2. Asked(i, <<u[k].payload>>) # 0
      <4>1. PICK j \in DOMAIN u[k].payload.items : IsRequest(u[k].payload.items[j], i)
        BY <2>5 DEF Explains
      <4>2. PICK q \in Payloads : q = u[k].payload
        BY <3>1
      <4>3. ~NoneAsks(q.items, i)
        BY <4>1, <4>2 DEF NoneAsks
      <4>4. Asked(i, <<q>>) # 0
        BY <4>3, LineAsks
      <4> QED
        BY <4>2, <4>4
    <3>3. Asked(i, <<u[k].payload>>) > 0
      <4>1. Asked(i, <<u[k].payload>>) \in Nat
        BY <3>1, LineAsks
      <4> QED
        BY <3>2, <4>1
    <3>4. n + 1 \in DOMAIN u /\ k \in 1..(n + 1) - 1
      BY <1>5, <2>4
    <3>5. Answered(i, <<u[n + 1].payload>>) > 0 /\ u[n + 1].dir = "s2c"
      <4>1. u[n + 1] = e
        BY <1>5
      <4>2. Answered(i, <<p>>) = 1
        BY <2>2, <2>3
      <4> QED
        BY <1>4, <4>1, <4>2
    <3>6. Stamped(u)
      BY <1>5
    <3> QED
      <4>1. Precedes(u[k], u[n + 1])
        BY <3>4, <3>6 DEF Stamped
      <4>2. u[k].at < u[n + 1].at
        BY <2>1, <3>1, <3>3, <3>5, <4>1 DEF Precedes
      <4> QED
        BY <1>4, <1>5, <4>2
  <2>9. h = AnsweredBy(u, n + 1, items[m])
    BY <1>12, <1>13, <2>2, <2>3
  <2> QED
    BY <1>5, <2>4, <2>6, <2>7, <2>8, <2>9
<1>14. \A m \in DOMAIN items : items[m] \in AnyItem
  BY ElementOfSeq, LenProperties
<1>15. \A m \in DOMAIN items : Settles(P, items[m]) <=> Responds(e, items[m])
  <2> TAKE m \in DOMAIN items
  <2>1. Settles(P, items[m]) => Responds(e, items[m])
    BY <1>4, <1>8 DEF Settles, Responds
  <2>2. ASSUME Responds(e, items[m]) PROVE Settles(P, items[m])
    <3>1. P[items[m].id] # None
      BY <1>13, <2>2
    <3> QED
      BY <2>2, <3>1 DEF Settles, Responds, Asking
  <2> QED
    BY <2>1, <2>2
<1>16. RoundTripExact(u, n + 1)
  <2>1. ASSUME NEW m \in DOMAIN items
        PROVE  RoundTrip(u, n + 1, items[m]) = Taken(P, at)[items[m]]
    <3>1. CASE Responds(e, items[m])
      <4>1. PICK k \in 1..n, h \in Nat :
               /\ h = AnsweredBy(u, n + 1, items[m])
               /\ RequestEvent(u, items[m].id, h) = k
               /\ P[items[m].id].at = u[k].at /\ u[k].at < at /\ P[items[m].id] # None
        <5>1. PICK i : i = items[m].id
          OBVIOUS
        <5> QED
          BY <1>13, <3>1, <5>1
      <4>2. u[k].at \in Nat
        <5>1. k \in DOMAIN u
          BY <1>5
        <5>2. u[k] \in SessionEvents
          BY <5>1, ElementOfSeq, LenProperties
        <5> QED
          BY <5>2 DEF SessionEvents, AnyEvent
      <4>3. Elapsed(P[items[m].id].at, at) = at - u[k].at
        BY <4>1, <4>2 DEF Elapsed
      <4>4. Taken(P, at)[items[m]] = <<Elapsed(P[items[m].id].at, at)>>
        BY <1>14, <1>15, <3>1, <4>1 DEF Taken
      <4>5. RoundTrip(u, n + 1, items[m]) = <<at - u[k].at>>
        BY <1>4, <1>5, <3>1, <4>1 DEF RoundTrip
      <4> QED
        BY <4>3, <4>4, <4>5
    <3>2. CASE ~Responds(e, items[m])
      BY <1>5, <1>14, <1>15, <3>2 DEF RoundTrip, Taken
    <3> QED
      BY <3>1, <3>2
  <2>2. [m \in DOMAIN items |-> RoundTrip(u, n + 1, items[m])] = Images(Taken(P, at), items)
    BY <2>1 DEF Images
  <2>3. e.facts.latencies = FlattenSeq([m \in DOMAIN items |-> RoundTrip(u, n + 1, items[m])])
    BY <1>4, <1>11, <2>2 DEF FlatMap
  <2>4. ASSUME NEW m \in DOMAIN items, Responds(e, items[m])
        PROVE  \E j \in 1..(n + 1) - 1 :
                  /\ IsRequestEvent(u, j, items[m].id, AnsweredBy(u, n + 1, items[m]))
                  /\ u[j].at < e.at
    <3>1. PICK k \in 1..n, h \in Nat :
             /\ h = AnsweredBy(u, n + 1, items[m])
             /\ IsRequestEvent(u, k, items[m].id, h) /\ u[k].at < at
      BY <1>13, <2>4
    <3>2. k \in 1..(n + 1) - 1
      OBVIOUS
    <3> QED
      BY <1>4, <3>1, <3>2
  <2>5. u[n + 1] = e /\ e.payload.items = items
    BY <1>2, <1>4, <1>5
  <2>6. u[n + 1].facts.latencies = RoundTripsOf(u, n + 1, items)
    BY <2>3, <2>5 DEF RoundTripsOf
  <2>7. Answering(u, n + 1, items)
    BY <2>4, <2>5 DEF Answering
  <2>8. u[n + 1].payload.items = items
    BY <2>5
  <2> QED
    BY <2>6, <2>7, <2>8, TimedItems
<1>17. CreditExact(u, n + 1)
  <2>1. ASSUME NEW m \in DOMAIN items
        PROVE  Credit(u, n + 1, items[m]) = Credited(P)[items[m]]
    <3>1. CASE Role(items[m]) # "call" /\ Responds(e, items[m])
      <4>1. PICK h \in Nat :
               /\ h = AnsweredBy(u, n + 1, items[m])
               /\ ToolOf(RequestItem(u, items[m].id, h)) = Some(P[items[m].id].tool)
        BY <1>13, <3>1
      <4> QED
        BY <1>5, <1>14, <1>15, <3>1, <4>1 DEF Credit, Credited
    <3>2. CASE ~(Role(items[m]) # "call" /\ Responds(e, items[m]))
      BY <1>5, <1>14, <1>15, <3>2 DEF Credit, Credited
    <3> QED
      BY <3>1, <3>2
  <2>2. [m \in DOMAIN items |-> Credit(u, n + 1, items[m])] = Images(Credited(P), items)
    BY <2>1 DEF Images
  <2>3. u[n + 1].payload.items = items /\ u[n + 1].facts.tools = FlatMap(Credited(P), items)
    BY <1>2, <1>4, <1>5, <1>11
  <2>4. CreditsOf(u, n + 1, items) = FlatMap(Credited(P), items)
    BY <2>2 DEF CreditsOf, FlatMap
  <2> QED
    BY <2>3, <2>4, CreditedItems
<1>18. ASSUME NEW i \in Ids
       PROVE  IF i \in Asking /\ Asked(i, x) > Answered(i, Append(y, p))
              THEN \E k \in DOMAIN u : Explains(u, k, i, Asked(i, x), Q[i])
              ELSE Q[i] = None
  <2>1. Q[i] = IF \E m \in DOMAIN items : IsResponse(items[m], i) THEN None ELSE P[i]
    BY <1>4, <1>11
  <2>2. CASE i \notin Asking
    BY <1>8, <2>1, <2>2
  <2>3. CASE i \in Asking
    <3>1. PICK h \in Nat, r \in Nat, c \in Nat :
             /\ h = Asked(i, x) /\ r = Answered(i, y) /\ c = Answered(i, <<p>>)
             /\ Answered(i, Append(y, p)) = r + c
             /\ c = 0 \/ (c = 1 /\ h = r + 1)
             /\ IF h > r THEN \E k \in DOMAIN t : Explains(t, k, i, h, P[i]) ELSE P[i] = None
      BY <1>9, <2>3
    <3>2. (\E m \in DOMAIN items : IsResponse(items[m], i)) <=> c # 0
      <4>1. c = 0 <=> NoneAnswers(items, i)
        BY <1>2, <3>1, LineAnswers
      <4> QED
        BY <4>1 DEF NoneAnswers
    <3>3. CASE c # 0
      <4>1. Q[i] = None /\ ~(h > r + c)
        BY <2>1, <3>1, <3>2, <3>3
      <4> QED
        BY <3>1, <4>1
    <3>4. CASE c = 0
      <4>1. Q[i] = P[i] /\ r + c = r
        BY <2>1, <3>2, <3>4
      <4>2. CASE h > r
        <5>1. PICK k \in DOMAIN t : Explains(t, k, i, h, Q[i])
          BY <3>1, <4>1, <4>2
        <5>2. k \in DOMAIN u /\ Explains(u, k, i, h, Q[i])
          BY <1>4, <1>5, <5>1, ExplainsStays
        <5> QED
          BY <2>3, <3>1, <4>1, <4>2, <5>2
      <4>3. CASE ~(h > r)
        BY <3>1, <4>1, <4>3
      <4> QED
        BY <4>2, <4>3
    <3> QED
      BY <3>3, <3>4
  <2> QED
    BY <2>2, <2>3
<1>19. PendingOf(u, Q)
  BY <1>6, <1>18 DEF PendingOf
<1> QED
  BY <1>5, <1>16, <1>17, <1>19

(***************************************************************************)
(* The session.  Every step of it is a step of the proxy or of its peers.  *)
(***************************************************************************)
LEMMA SessionStep ==
    ASSUME [SessionNext]_vars
    PROVE  [Next]_vars
<1>1. Says("c2s") \/ Says("s2c") => Peers
  BY DEF Says, Peers, Directions
<1>2. Consume("c2s") \/ Consume("s2c") \/ ServerExit \/ ClientCloses => Peers
  BY DEF ServerExit, ClientCloses, Peers, Directions
<1> QED
  BY <1>1, <1>2 DEF SessionNext, Talk, Next

(* What the peers keep to, in terms of what each has written and read.     *)
PeersOK ==
    /\ Asked(Null, log["c2s"]) = 0
    /\ \A i \in Asking :
        /\ Answered(i, log["s2c"]) <= Asked(i, got["c2s"])
        /\ Asked(i, log["c2s"]) <= Answered(i, got["s2c"]) + 1

LEMMA EmitKeepsPeers ==
    ASSUME TypeOK, PeersOK, NEW d \in Directions, NEW p \in Payloads,
           Emit(d, p), Legal(d, p)
    PROVE  PeersOK'
<1>1. /\ log' = [log EXCEPT ![d] = Append(@, p)] /\ got' = got
      /\ "c2s" \in Directions /\ "s2c" \in Directions
  BY DEF Emit, Directions
<1>2. PICK x \in Seq(Payloads), y \in Seq(Payloads), g \in Seq(Payloads), h \in Seq(Payloads) :
         x = log["c2s"] /\ y = log["s2c"] /\ g = got["c2s"] /\ h = got["s2c"]
  BY <1>1 DEF TypeOK
<1>3. \A i : /\ Asked(i, x) \in Nat /\ Answered(i, y) \in Nat
             /\ Asked(i, g) \in Nat /\ Answered(i, h) \in Nat
             /\ Asked(i, <<p>>) \in Nat /\ Answered(i, <<p>>) \in Nat
             /\ Asked(i, Append(x, p)) = Asked(i, x) + Asked(i, <<p>>)
             /\ Answered(i, Append(y, p)) = Answered(i, y) + Answered(i, <<p>>)
  BY CountsOfLines, LineAsks, LineAnswers
<1>4. CASE d = "c2s"
  <2>1. log'["c2s"] = Append(x, p) /\ log'["s2c"] = y
    BY <1>1, <1>2, <1>4 DEF TypeOK, Directions
  <2>2. Asked(Null, Append(x, p)) = 0
    <3>1. Asked(Null, x) = 0
      BY <1>2 DEF PeersOK
    <3>2. Asked(Null, <<p>>) = 0
      BY DEF Legal
    <3>3. Asked(Null, Append(x, p)) = Asked(Null, x) + Asked(Null, <<p>>)
      BY <1>3
    <3> QED
      BY <3>1, <3>2, <3>3
  <2>3. ASSUME NEW i \in Asking PROVE Asked(i, Append(x, p)) <= Answered(i, h) + 1
    <3>1. Asked(i, <<p>>) <= IF Asked(i, x) = Answered(i, h) THEN 1 ELSE 0
      BY <1>2, <1>4, <2>3 DEF Legal, MayAsk, Opposite
    <3>2. Asked(i, x) <= Answered(i, h) + 1
      BY <1>2, <2>3 DEF PeersOK
    <3> QED
      BY <1>3, <3>1, <3>2
  <2> QED
    BY <1>1, <1>2, <2>1, <2>2, <2>3 DEF PeersOK
<1>5. CASE d = "s2c"
  <2>1. log'["c2s"] = x /\ log'["s2c"] = Append(y, p)
    BY <1>1, <1>2, <1>5 DEF TypeOK, Directions
  <2>2. ASSUME NEW i \in Asking PROVE Answered(i, Append(y, p)) <= Asked(i, g)
    <3>1. Answered(i, <<p>>) <= IF Answered(i, y) < Asked(i, g) THEN 1 ELSE 0
      BY <1>2, <1>5, <2>2 DEF Legal, MayAnswer, Opposite
    <3>2. Answered(i, y) <= Asked(i, g)
      BY <1>2, <2>2 DEF PeersOK
    <3> QED
      BY <1>3, <3>1, <3>2
  <2> QED
    BY <1>1, <1>2, <2>1, <2>2 DEF PeersOK
<1> QED
  BY <1>4, <1>5 DEF Directions

LEMMA ConsumeKeepsPeers ==
    ASSUME TypeOK, PeersOK, NEW d \in Directions, Consume(d)
    PROVE  PeersOK'
<1>1. /\ got' = [got EXCEPT ![d] = Append(@, Head(out[d]))] /\ log' = log
      /\ Head(out[d]) \in Payloads
      /\ "c2s" \in Directions /\ "s2c" \in Directions
  BY HeadTailProperties DEF Consume, TypeOK, Directions
<1>2. PICK p \in Payloads : p = Head(out[d])
  BY <1>1
<1>3. PICK x \in Seq(Payloads), y \in Seq(Payloads), g \in Seq(Payloads), h \in Seq(Payloads) :
         x = log["c2s"] /\ y = log["s2c"] /\ g = got["c2s"] /\ h = got["s2c"]
  BY <1>1 DEF TypeOK
<1>4. got'["c2s"] \in {g, Append(g, p)} /\ got'["s2c"] \in {h, Append(h, p)}
  BY <1>1, <1>2, <1>3 DEF TypeOK
<1>5. \A i : /\ Asked(i, g) \in Nat /\ Answered(i, h) \in Nat
             /\ Asked(i, <<p>>) \in Nat /\ Answered(i, <<p>>) \in Nat
             /\ Asked(i, Append(g, p)) = Asked(i, g) + Asked(i, <<p>>)
             /\ Answered(i, Append(h, p)) = Answered(i, h) + Answered(i, <<p>>)
             /\ Asked(i, x) \in Nat /\ Answered(i, y) \in Nat
  BY CountsOfLines, LineAsks, LineAnswers
<1>6. ASSUME NEW i \in Asking
      PROVE  Answered(i, y) <= Asked(i, got'["c2s"]) /\ Asked(i, x) <= Answered(i, got'["s2c"]) + 1
  <2>1. Answered(i, y) <= Asked(i, g) /\ Asked(i, x) <= Answered(i, h) + 1
    BY <1>3, <1>6 DEF PeersOK
  <2>2. Asked(i, g) <= Asked(i, got'["c2s"]) /\ Asked(i, got'["c2s"]) \in Nat
    <3>1. Asked(i, g) <= Asked(i, Append(g, p)) /\ Asked(i, Append(g, p)) \in Nat
      <4>1. Asked(i, Append(g, p)) = Asked(i, g) + Asked(i, <<p>>)
        BY <1>5
      <4>2. Asked(i, g) \in Nat /\ Asked(i, <<p>>) \in Nat
        BY <1>5
      <4> QED
        BY <4>1, <4>2
    <3>2. CASE got'["c2s"] = g
      <4>1. Asked(i, g) \in Nat
        BY <1>5
      <4> QED
        BY <3>2, <4>1
    <3>3. CASE got'["c2s"] = Append(g, p)
      BY <3>1, <3>3
    <3> QED
      BY <1>4, <3>2, <3>3
  <2>3. Answered(i, h) <= Answered(i, got'["s2c"]) /\ Answered(i, got'["s2c"]) \in Nat
    <3>1. Answered(i, h) <= Answered(i, Append(h, p)) /\ Answered(i, Append(h, p)) \in Nat
      <4>1. Answered(i, Append(h, p)) = Answered(i, h) + Answered(i, <<p>>)
        BY <1>5
      <4>2. Answered(i, h) \in Nat /\ Answered(i, <<p>>) \in Nat
        BY <1>5
      <4> QED
        BY <4>1, <4>2
    <3>2. CASE got'["s2c"] = h
      <4>1. Answered(i, h) \in Nat
        BY <1>5
      <4> QED
        BY <3>2, <4>1
    <3>3. CASE got'["s2c"] = Append(h, p)
      BY <3>1, <3>3
    <3> QED
      BY <1>4, <3>2, <3>3
  <2> QED
    BY <1>5, <2>1, <2>2, <2>3
<1> QED
  BY <1>1, <1>3, <1>6 DEF PeersOK

LEMMA StepKeepsPeers ==
    ASSUME TypeOK, PeersOK, [SessionNext]_vars
    PROVE  PeersOK'
<1>1. CASE UNCHANGED <<log, got>>
  BY <1>1 DEF PeersOK
<1>2. ASSUME Says("c2s") \/ Says("s2c") PROVE PeersOK'
  BY <1>2, EmitKeepsPeers DEF Says, Directions
<1>3. ASSUME Consume("c2s") \/ Consume("s2c") PROVE PeersOK'
  BY <1>3, ConsumeKeepsPeers DEF Directions
<1> QED
  BY <1>1, <1>2, <1>3 DEF SessionNext, Talk, ServerExit, ClientCloses, ChildExit,
     CloseSource, ClientThread, MainThread, Relay, WindDown, Observe, Over,
     ReadLine, ReadEof, SendFrame, WriteLine, WriteError, WaitChild, ReapClient,
     SendShutdown, RecvAck, JoinObserver, ObserveFrame, ObserveShutdown,
     ObserverPanic, vars, peerVars

(* What is measured lies between what is read and what is written, and so  *)
(* an id is asked under again only after its answer was measured.          *)
LEMMA MeasuredBalanced ==
    ASSUME TypeOK, TraceTyped, obs = "up", PeersOK,
           \A d \in Directions : DirectionOK(d) /\ MeasuredOK(d)
    PROVE  <<Measured("c2s"), Measured("s2c")>> \in BalancedPairs
<1>1. "c2s" \in Directions /\ "s2c" \in Directions
  BY DEF Directions
<1>2. PICK x \in Seq(Payloads), y \in Seq(Payloads), g \in Seq(Payloads), h \in Seq(Payloads),
           m \in Seq(Payloads), r \in Seq(Payloads) :
         /\ x = log["c2s"] /\ y = log["s2c"] /\ g = got["c2s"] /\ h = got["s2c"]
         /\ m = Measured("c2s") /\ r = Measured("s2c")
  BY <1>1, ObservedTypes DEF TypeOK
<1>3. IsPrefix(g, m) /\ IsPrefix(m, x) /\ IsPrefix(h, r) /\ IsPrefix(r, y)
  BY <1>1, <1>2, MeasuredBetween
<1>4. \A i : /\ Asked(i, g) <= Asked(i, m) /\ Asked(i, m) <= Asked(i, x)
             /\ Answered(i, h) <= Answered(i, r) /\ Answered(i, r) <= Answered(i, y)
  BY <1>3, CountsGrow
<1>5. \A i : /\ Asked(i, g) \in Nat /\ Asked(i, m) \in Nat /\ Asked(i, x) \in Nat
             /\ Answered(i, h) \in Nat /\ Answered(i, r) \in Nat /\ Answered(i, y) \in Nat
  BY CountsOfLines
<1>6. Asked(Null, m) = 0
  <2>1. Asked(Null, x) = 0
    BY <1>2 DEF PeersOK
  <2>2. Asked(Null, m) <= Asked(Null, x) /\ Asked(Null, m) \in Nat
    BY <1>4, <1>5
  <2> QED
    BY <2>1, <2>2
<1>7. ASSUME NEW i \in Asking
      PROVE  Answered(i, r) <= Asked(i, m) /\ Asked(i, m) <= Answered(i, r) + 1
  <2>1. Answered(i, y) <= Asked(i, g) /\ Asked(i, x) <= Answered(i, h) + 1
    BY <1>2, <1>7 DEF PeersOK
  <2>2. /\ Asked(i, g) <= Asked(i, m) /\ Asked(i, m) <= Asked(i, x)
        /\ Answered(i, h) <= Answered(i, r) /\ Answered(i, r) <= Answered(i, y)
    BY <1>4
  <2>3. /\ Asked(i, g) \in Nat /\ Asked(i, m) \in Nat /\ Asked(i, x) \in Nat
        /\ Answered(i, h) \in Nat /\ Answered(i, r) \in Nat /\ Answered(i, y) \in Nat
    BY <1>5
  <2> QED
    BY <2>1, <2>2, <2>3
<1>8. Balanced(m, r)
  BY <1>6, <1>7 DEF Balanced
<1>9. <<m, r>> \in Seq(Payloads) \X Seq(Payloads)
  OBVIOUS
<1> QED
  BY <1>2, <1>8, <1>9 DEF BalancedPairs

(***************************************************************************)
(* What the trace and the channel hold, place by place.                    *)
(***************************************************************************)

(* A step that adds nothing to the trace or the channel.                   *)
Still ==
    /\ UNCHANGED <<trace, pending, clock>>
    /\ obs' = "up" => obs = "up" /\ UNCHANGED chan
    /\ \A d \in Directions :
          /\ held'[d] \in {held[d], None}
          /\ pc'[d] = "send" => pc[d] = "send" /\ held'[d] = held[d]

LEMMA Moves ==
    ASSUME TypeOK, [Next]_vars
    PROVE  \/ Still \/ SendShutdown \/ ObserveFrame
           \/ \E d \in Directions : ReadLine(d) \/ SendFrame(d)
<1>1. ASSUME Peers \/ UNCHANGED vars PROVE Still
  <2>1. UNCHANGED <<trace, pending, clock, obs, chan, held, pc>>
    BY <1>1 DEF Peers, Emit, Consume, CloseSource, CloseSink, ChildExit, vars,
       relayVars, obsVars
  <2> QED
    BY <2>1 DEF Still
<1>2. ASSUME NEW d \in Directions, ReadEof(d) \/ WriteLine(d) \/ WriteError(d)
      PROVE  Still
  <2>1. /\ UNCHANGED <<trace, pending, clock, obs, chan>>
        /\ held' \in {held, [held EXCEPT ![d] = None]}
        /\ \E l \in {"done", "wait", "read", "failed", "aborted"} : Goto(d, l)
    BY <1>2 DEF ReadEof, WriteLine, WriteError, obsVars
  <2>2. ASSUME NEW e \in Directions
        PROVE  /\ held'[e] \in {held[e], None}
               /\ pc'[e] = "send" => pc[e] = "send" /\ held'[e] = held[e]
    <3>1. held'[e] \in {held[e], None} /\ (e # d => held'[e] = held[e])
      BY <2>1 DEF TypeOK
    <3>2. pc'[d] # "send" /\ (e # d => pc'[e] = pc[e])
      BY <2>1, GotoEffect
    <3> QED
      BY <3>1, <3>2
  <2> QED
    BY <2>1, <2>2 DEF Still
<1>3. ASSUME WaitChild \/ ReapClient \/ RecvAck \/ JoinObserver \/ Kill PROVE Still
  <2>1. /\ UNCHANGED <<trace, pending, clock, obs, chan, held>>
        /\ \E l \in {"reap", "shutdown", "join", "exited", "killed"} : Goto("s2c", l)
    BY <1>3 DEF WaitChild, ReapClient, RecvAck, JoinObserver, Kill, obsVars
  <2>2. ASSUME NEW e \in Directions, pc'[e] = "send" PROVE pc[e] = "send"
    BY <2>1, <2>2, GotoEffect DEF Directions
  <2> QED
    BY <2>1, <2>2 DEF Still
<1>4. ASSUME ObserveShutdown \/ ObserverPanic PROVE Still
  <2>1. UNCHANGED <<trace, pending, clock, held, pc>> /\ obs' = "gone"
    BY <1>4 DEF ObserveShutdown, ObserverPanic, relayVars
  <2> QED
    BY <2>1 DEF Still
<1>5. "c2s" \in Directions /\ "s2c" \in Directions
  BY DEF Directions
<1> QED
  BY <1>1, <1>2, <1>3, <1>4, <1>5 DEF Next, ClientThread, MainThread, Relay, WindDown,
     Observe, Over

(* What the steps that are not still do to the trace and the channel.      *)
LEMMA ReadMoves ==
    ASSUME TypeOK, NEW d \in Directions, ReadLine(d)
    PROVE  /\ UNCHANGED <<trace, pending, chan, obs>>
           /\ clock' = clock + 1 /\ held'[d].at = clock
           /\ \A e \in Directions : e # d => held'[e] = held[e] /\ pc'[e] = pc[e]
  BY DEF ReadLine, TypeOK, Goto, obsVars

LEMMA SendMoves ==
    ASSUME TypeOK, NEW d \in Directions, SendFrame(d)
    PROVE  /\ UNCHANGED <<trace, pending, obs, clock, held>>
           /\ obs = "up" => chan' = Append(chan, held[d])
           /\ held[d] \in Frame /\ held[d].dir = d /\ pc[d] = "send"
           /\ pc'[d] # "send" /\ \A e \in Directions : e # d => pc'[e] = pc[e]
<1>1. held[d] \in Frame /\ held[d].dir = d /\ pc[d] = "send"
  BY DEF SendFrame, TypeOK
<1> QED
  BY <1>1, GotoEffect DEF SendFrame, obsVars

LEMMA ShutdownMoves ==
    ASSUME TypeOK, SendShutdown
    PROVE  /\ UNCHANGED <<trace, pending, obs, clock, held>>
           /\ obs = "up" => chan' = Append(chan, Shutdown)
           /\ \A d \in Directions : pc'[d] = "send" => pc[d] = "send"
<1>1. pc'["s2c"] # "send" /\ pc'["c2s"] = pc["c2s"]
  BY GotoEffect DEF SendShutdown, Directions
<1> QED
  BY <1>1 DEF SendShutdown, obsVars, Directions

LEMMA ObserveMoves ==
    ASSUME "write" \notin Faults, TypeOK, ObserveFrame
    PROVE  /\ UNCHANGED <<obs, clock, held, pc>> /\ obs = "up"
           /\ chan # <<>> /\ chan' = Tail(chan)
           /\ \E f \in Frame :
                /\ f = Head(chan)
                /\ trace' = Append(trace, ObservePayloadAt(f.payload, f.dir, pending, f.at).event)
                /\ pending' = ObservePayloadAt(f.payload, f.dir, pending, f.at).pending
<1>1. Head(chan) \in Frame
  BY HeadTailProperties DEF ObserveFrame, TypeOK
<1> QED
  BY <1>1 DEF ObserveFrame, relayVars

(* The lines in the trace and behind it in the channel, in one sequence.   *)
Recorded == trace \o chan

AnyRecord == SessionEvents \cup Messages

(* What the lines of the two directions in them are to each other.         *)
TurnsOK(G) == Turns(trace, G) /\ (obs = "up" => Turns(Recorded, G))

TracesOK == trace \in Seq(SessionEvents) /\ pending \in PendingMap

LEMMA RecordsAreLines == Lines(AnyRecord)
  BY EventsAreLines, MessagesAreLines DEF Lines, AnyRecord

LEMMA RecordedTypes ==
    ASSUME TypeOK, TracesOK
    PROVE  /\ trace \in Seq(AnyRecord) /\ chan \in Seq(AnyRecord) /\ Recorded \in Seq(AnyRecord)
           /\ TraceTyped
           /\ \A d \in Directions : PayloadsOf(d, Recorded) = Measured(d)
<1>1. trace \in Seq(AnyRecord) /\ chan \in Seq(AnyRecord)
  BY SeqMonotonic DEF TypeOK, TracesOK, AnyRecord, Messages
<1>2. Recorded \in Seq(AnyRecord)
  BY <1>1, CatClosed DEF Recorded, Cat
<1>3. TraceTyped
  BY EventsAreLines DEF TraceTyped, TracesOK
<1>4. \A d \in Directions : PayloadsOf(d, Recorded) = Measured(d)
  BY <1>1, RecordsAreLines, PayloadsConcat DEF Recorded, Measured
<1> QED
  BY <1>1, <1>2, <1>3, <1>4

(* A frame goes from the channel to the trace: the sequence keeps its      *)
(* length, and each place in it its direction, its line and its stamp.     *)
SameLines(x, y) ==
    /\ Len(x) = Len(y)
    /\ \A k \in 1..Len(x) :
          x[k].dir = y[k].dir /\ x[k].payload = y[k].payload /\ x[k].at = y[k].at

LEMMA MovedAlike ==
    ASSUME NEW S, NEW s \in Seq(S), NEW t \in Seq(S), t # <<>>, NEW e \in S,
           e.dir = Head(t).dir, e.payload = Head(t).payload, e.at = Head(t).at
    PROVE  SameLines(Append(s, e) \o Tail(t), s \o t)
<1>1. PICK h \in S, r \in Seq(S), l \in Seq(S) : h = Head(t) /\ r = Tail(t) /\ l = <<h>> /\ t = Cat(l, r)
  BY HeadTailCat
<1>2. s \o t = Append(s, h) \o r
  <2>1. Cat(s, Cat(l, r)) = Cat(Cat(s, l), r)
    BY CatAssociative
  <2>2. Append(s, h) = Cat(s, l)
    BY <1>1, AppendIsCat
  <2> QED
    BY <1>1, <2>1, <2>2 DEF Cat
<1>3. PICK n \in Nat, x \in Seq(S), y \in Seq(S) : Longer(x, s, n, e) /\ Longer(y, s, n, h)
  <2>1. PICK n \in Nat, x \in Seq(S) : Longer(x, s, n, e)
    BY AppendPlaces
  <2>2. PICK m \in Nat, y \in Seq(S) : Longer(y, s, m, h)
    BY AppendPlaces
  <2>3. m = n
    BY <2>1, <2>2 DEF Longer
  <2> QED
    BY <2>1, <2>2, <2>3
<1>4. /\ x = Append(s, e) /\ y = Append(s, h) /\ Len(x) = n + 1 /\ Len(y) = n + 1
      /\ x[n + 1] = e /\ y[n + 1] = h /\ \A k \in 1..n : x[k] = y[k]
  BY <1>3 DEF Longer
<1>5. \A k \in 1..n+1 : x[k] = y[k] \/ (x[k] = e /\ y[k] = h)
  <2>1. \A k \in 1..n+1 : k \in 1..n \/ k = n + 1
    OBVIOUS
  <2> QED
    BY <1>4, <2>1
<1>6. PICK m \in Nat : m = Len(r)
  BY LenProperties
<1>7. /\ Len(x \o r) = (n + 1) + m /\ Len(y \o r) = (n + 1) + m
      /\ \A k \in 1..(n + 1) + m :
            /\ (x \o r)[k] = IF k <= n + 1 THEN x[k] ELSE r[k - (n + 1)]
            /\ (y \o r)[k] = IF k <= n + 1 THEN y[k] ELSE r[k - (n + 1)]
  <2>1. /\ Len(x \o r) = Len(x) + Len(r)
        /\ \A k \in 1..Len(x) + Len(r) : (x \o r)[k] = IF k <= Len(x) THEN x[k] ELSE r[k - Len(x)]
    BY ConcatProperties
  <2>2. /\ Len(y \o r) = Len(y) + Len(r)
        /\ \A k \in 1..Len(y) + Len(r) : (y \o r)[k] = IF k <= Len(y) THEN y[k] ELSE r[k - Len(y)]
    BY ConcatProperties
  <2> QED
    BY <1>4, <1>6, <2>1, <2>2
<1>8. ASSUME NEW k \in 1..(n + 1) + m
      PROVE  (x \o r)[k] = (y \o r)[k] \/ ((x \o r)[k] = e /\ (y \o r)[k] = h)
  <2>1. CASE k <= n + 1
    <3>1. k \in 1..n+1
      BY <2>1
    <3>2. (x \o r)[k] = x[k] /\ (y \o r)[k] = y[k]
      BY <1>7, <2>1
    <3> QED
      BY <1>5, <3>1, <3>2
  <2>2. CASE ~(k <= n + 1)
    BY <1>7, <2>2
  <2> QED
    BY <2>1, <2>2
<1>9. PICK u, v : u = x \o r /\ v = y \o r
  OBVIOUS
<1>10. Len(u) = (n + 1) + m /\ Len(v) = (n + 1) + m
  BY <1>7, <1>9
<1>11. \A k \in 1..(n + 1) + m : u[k] = v[k] \/ (u[k] = e /\ v[k] = h)
  BY <1>8, <1>9
<1>12. e.dir = h.dir /\ e.payload = h.payload /\ e.at = h.at
  BY <1>1
<1>13. SameLines(u, v)
  BY <1>10, <1>11, <1>12 DEF SameLines
<1> QED
  BY <1>1, <1>2, <1>4, <1>9, <1>13

LEMMA AlikeTurns ==
    ASSUME NEW S, Lines(S), NEW x \in Seq(S), NEW y \in Seq(S), SameLines(x, y), NEW G, Turns(y, G)
    PROVE  Turns(x, G)
<1>1. PICK n \in Nat : n = Len(x) /\ n = Len(y)
  BY LenProperties DEF SameLines
<1>2. ASSUME NEW d \in Directions
      PROVE  \A k \in 0..n : Before(x, k, d) = Before(y, k, d)
  <2> DEFINE Bad == {k \in Nat : k \in 0..n /\ Before(x, k, d) # Before(y, k, d)}
  <2>1. SUFFICES ASSUME Bad # {} PROVE FALSE
    OBVIOUS
  <2>2. PICK k \in Bad : \A j \in Bad : k <= j
    <3>1. Bad \subseteq Nat
      OBVIOUS
    <3> HIDE DEF Bad
    <3> QED
      BY <2>1, <3>1, LeastNatural
  <2>3. k # 0
    <3>1. Before(x, 0, d) = <<>> /\ Before(y, 0, d) = <<>>
      BY BeforeWhole
    <3> QED
      BY <2>2, <3>1
  <2>4. k \in 1..Len(x) /\ k \in 1..Len(y) /\ k - 1 \in 0..n /\ k - 1 \in Nat /\ ~(k <= k - 1)
    BY <1>1, <2>2, <2>3
  <2>5. Before(x, k - 1, d) = Before(y, k - 1, d)
    BY <2>2, <2>4
  <2>6. /\ Before(x, k, d) = AddPayload(d, Before(x, k - 1, d), x[k])
        /\ Before(y, k, d) = AddPayload(d, Before(y, k - 1, d), y[k])
    BY <2>4, BeforeStep
  <2>7. x[k].dir = y[k].dir /\ x[k].payload = y[k].payload
    BY <2>4 DEF SameLines
  <2>8. Before(x, k, d) = Before(y, k, d)
    BY <2>5, <2>6, <2>7 DEF AddPayload
  <2> QED
    BY <2>2, <2>8
<1>3. "c2s" \in Directions /\ "s2c" \in Directions
  BY DEF Directions
<1>4. \A k \in 0..n : Before(x, k, "c2s") = Before(y, k, "c2s") /\ Before(x, k, "s2c") = Before(y, k, "s2c")
  BY <1>2, <1>3
<1> QED
  BY <1>1, <1>4 DEF Turns

(* The first elements of a longer sequence, and one more element.          *)
LEMMA FirstPlaces ==
    ASSUME NEW S, NEW s \in Seq(S), NEW t \in Seq(S)
    PROVE  /\ Len(s) <= Len(s \o t) /\ Len(s) \in Nat /\ Len(s \o t) \in Nat
           /\ \A k \in 1..Len(s) : (s \o t)[k] = s[k]
           /\ \A k \in 0..Len(s) : SubSeq(s \o t, 1, k) = SubSeq(s, 1, k)
<1>1. PICK m \in Nat, n \in Nat : m = Len(s) /\ n = Len(t)
  BY LenProperties
<1>2. PICK u \in Seq(S) : u = s \o t /\ Len(u) = m + n /\ \A k \in 1..m : u[k] = s[k]
  <2>1. /\ s \o t \in Seq(S) /\ Len(s \o t) = m + n
        /\ \A k \in 1..m + n : (s \o t)[k] = IF k <= m THEN s[k] ELSE t[k - m]
    BY <1>1, ConcatProperties
  <2>2. \A k \in 1..m : k \in 1..m + n /\ k <= m
    OBVIOUS
  <2> QED
    BY <2>1, <2>2
<1>3. ASSUME NEW k \in 0..m PROVE SubSeq(u, 1, k) = SubSeq(s, 1, k)
  <2>1. k \in 0..Len(s) /\ k \in 0..Len(u) /\ \A j \in 1..k : j \in 1..m
    BY <1>1, <1>2
  <2>2. PICK x \in Seq(S), y \in Seq(S) : FirstOf(x, s, k) /\ FirstOf(y, u, k)
    BY <2>1, SubSeqPlaces
  <2>3. /\ x = SubSeq(s, 1, k) /\ y = SubSeq(u, 1, k) /\ Len(x) = Len(y)
        /\ \A j \in 1..Len(x) : x[j] = y[j]
    BY <1>2, <2>1, <2>2 DEF FirstOf
  <2>4. x = y
    BY <2>3, SeqEqual
  <2> QED
    BY <2>3, <2>4
<1> QED
  BY <1>1, <1>2, <1>3

LEMMA TurnsOfFirst ==
    ASSUME NEW S, NEW s \in Seq(S), NEW t \in Seq(S), NEW G, Turns(s \o t, G)
    PROVE  Turns(s, G)
<1>1. \A k \in 0..Len(s) : k \in 0..Len(s \o t)
  BY FirstPlaces
<1>2. \A k \in 0..Len(s) : \A d : Before(s, k, d) = Before(s \o t, k, d)
  BY FirstPlaces DEF Before
<1> QED
  BY <1>1, <1>2 DEF Turns

LEMMA TurnsAppend ==
    ASSUME NEW S, Lines(S), NEW s \in Seq(S), NEW e \in S, NEW G, Turns(s, G),
           <<PayloadsOf("c2s", Append(s, e)), PayloadsOf("s2c", Append(s, e))>> \in G
    PROVE  Turns(Append(s, e), G)
<1>1. PICK n \in Nat : n = Len(s)
  BY LenProperties
<1>2. \A d \in Directions :
         /\ \A k \in 0..n : Before(Append(s, e), k, d) = Before(s, k, d)
         /\ Before(Append(s, e), n + 1, d) = PayloadsOf(d, Append(s, e))
  BY <1>1, BeforeAppend
<1>3. "c2s" \in Directions /\ "s2c" \in Directions
  BY DEF Directions
<1>4. Len(Append(s, e)) = n + 1 /\ \A k \in 0..n+1 : k \in 0..n \/ k = n + 1
  BY <1>1, AppendProperties
<1> QED
  BY <1>1, <1>2, <1>3, <1>4 DEF Turns

(* A frame becomes an event.                                               *)
Observes(f, e) ==
    /\ f = Head(chan) /\ chan # <<>> /\ chan' = Tail(chan)
    /\ e = ObservePayloadAt(f.payload, f.dir, pending, f.at).event
    /\ e.dir = f.dir /\ e.payload = f.payload /\ e.at = f.at
    /\ trace' = Append(trace, e)
    /\ pending' = ObservePayloadAt(f.payload, f.dir, pending, f.at).pending
    /\ pending' \in PendingMap
    /\ obs = "up" /\ UNCHANGED <<obs, clock, held, pc>>

LEMMA ObserveIs ==
    ASSUME "write" \notin Faults, TypeOK, TracesOK, ObserveFrame
    PROVE  \E f \in Frame, e \in SessionEvents : Observes(f, e)
<1>1. PICK f \in Frame :
         /\ f = Head(chan)
         /\ trace' = Append(trace, ObservePayloadAt(f.payload, f.dir, pending, f.at).event)
         /\ pending' = ObservePayloadAt(f.payload, f.dir, pending, f.at).pending
  BY ObserveMoves
<1>2. PICK p \in Payloads, d \in Directions, at \in Nat : p = f.payload /\ d = f.dir /\ at = f.at
  BY DEF Frame
<1>3. PICK P \in PendingMap : P = pending
  BY DEF TracesOK
<1>4. PICK e, Q : e = ObservePayloadAt(p, d, P, at).event /\ Q = ObservePayloadAt(p, d, P, at).pending
  OBVIOUS
<1>5. e.dir = d /\ e.at = at /\ e.payload = p /\ e \in SessionEvents /\ Q \in PendingMap
  BY <1>4, SeenIsAfter
<1>6. chan # <<>> /\ chan' = Tail(chan) /\ obs = "up" /\ UNCHANGED <<obs, clock, held, pc>>
  BY ObserveMoves
<1>7. Observes(f, e)
  BY <1>1, <1>2, <1>3, <1>4, <1>5, <1>6 DEF Observes
<1> QED
  BY <1>5, <1>7

LEMMA StepKeepsTraces ==
    ASSUME "write" \notin Faults, TypeOK, TracesOK, [Next]_vars
    PROVE  TracesOK'
<1>1. CASE UNCHANGED <<trace, pending>>
  BY <1>1 DEF TracesOK
<1>2. CASE ObserveFrame
  <2>1. PICK f \in Frame, e \in SessionEvents : Observes(f, e)
    BY <1>2, ObserveIs
  <2>2. trace' = Append(trace, e) /\ pending' \in PendingMap
    BY <2>1 DEF Observes
  <2>3. trace' \in Seq(SessionEvents)
    BY <2>2, AppendProperties DEF TracesOK
  <2> QED
    BY <2>2, <2>3 DEF TracesOK
<1> QED
  BY <1>1, <1>2, Moves, ReadMoves, SendMoves, ShutdownMoves DEF Still

(* What a step does to what is recorded, while the observer lives.         *)
RecordMoves ==
    \/ UNCHANGED <<trace, chan>>
    \/ \E f \in Messages : chan' = Append(chan, f) /\ trace' = trace
    \/ \E f \in Frame, e \in SessionEvents : Observes(f, e)

LEMMA StepMovesRecords ==
    ASSUME "write" \notin Faults, TypeOK, TracesOK, [Next]_vars, obs' = "up"
    PROVE  RecordMoves /\ obs = "up"
<1>1. CASE Still
  BY <1>1 DEF Still, RecordMoves
<1>2. CASE SendShutdown
  <2>1. obs = "up" /\ chan' = Append(chan, Shutdown) /\ trace' = trace
    BY <1>2, ShutdownMoves
  <2> QED
    BY <2>1 DEF RecordMoves, Messages
<1>3. CASE ObserveFrame
  <2>1. PICK f \in Frame, e \in SessionEvents : Observes(f, e)
    BY <1>3, ObserveIs
  <2>2. obs = "up"
    BY <2>1 DEF Observes
  <2> QED
    BY <2>1, <2>2 DEF RecordMoves
<1>4. ASSUME NEW d \in Directions, ReadLine(d) PROVE RecordMoves /\ obs = "up"
  BY <1>4, ReadMoves DEF RecordMoves
<1>5. ASSUME NEW d \in Directions, SendFrame(d) PROVE RecordMoves /\ obs = "up"
  <2>1. obs = "up" /\ chan' = Append(chan, held[d]) /\ trace' = trace /\ held[d] \in Frame
    BY <1>5, SendMoves
  <2> QED
    BY <2>1 DEF RecordMoves, Messages
<1> QED
  BY <1>1, <1>2, <1>3, <1>4, <1>5, Moves

(* The sequence grows at its end, or stays alike.                          *)
LEMMA RecordedGrows ==
    ASSUME TypeOK, TracesOK, NEW f \in Messages, chan' = Append(chan, f), trace' = trace
    PROVE  Recorded' = Append(Recorded, f) /\ f \in AnyRecord
<1>1. f \in AnyRecord
  BY DEF AnyRecord
<1>2. PICK s \in Seq(AnyRecord), t \in Seq(AnyRecord), l \in Seq(AnyRecord), u \in Seq(AnyRecord) :
         s = trace /\ t = chan /\ l = <<f>> /\ u = Cat(s, t) /\ u = Recorded
  <2>1. trace \in Seq(AnyRecord) /\ chan \in Seq(AnyRecord) /\ <<f>> \in Seq(AnyRecord)
    BY <1>1, RecordedTypes, AppendIsCat
  <2>2. Cat(trace, chan) \in Seq(AnyRecord) /\ Cat(trace, chan) = Recorded
    BY <2>1, CatClosed DEF Recorded, Cat
  <2> QED
    BY <2>1, <2>2
<1>3. Append(t, f) = Cat(t, l) /\ Append(u, f) = Cat(u, l)
  BY <1>1, <1>2, AppendIsCat
<1>4. Cat(s, Cat(t, l)) = Cat(Cat(s, t), l)
  BY CatAssociative
<1>5. Recorded' = Cat(s, Append(t, f))
  BY <1>2 DEF Recorded, Cat
<1> QED
  BY <1>1, <1>2, <1>3, <1>4, <1>5

LEMMA RecordedMoved ==
    ASSUME TypeOK, TracesOK, NEW f \in Frame, NEW e \in SessionEvents, Observes(f, e)
    PROVE  SameLines(Recorded', Recorded) /\ Recorded' \in Seq(AnyRecord)
<1>1. trace \in Seq(AnyRecord) /\ chan \in Seq(AnyRecord) /\ e \in AnyRecord
  BY RecordedTypes DEF AnyRecord
<1>2. /\ chan # <<>> /\ e.dir = Head(chan).dir /\ e.payload = Head(chan).payload
      /\ e.at = Head(chan).at
  BY DEF Observes
<1>3. SameLines(Append(trace, e) \o Tail(chan), trace \o chan)
  BY <1>1, <1>2, MovedAlike
<1>4. Recorded' = Append(trace, e) \o Tail(chan)
  BY DEF Observes, Recorded
<1>5. Append(trace, e) \in Seq(AnyRecord) /\ Tail(chan) \in Seq(AnyRecord)
  BY <1>1, <1>2, AppendProperties, HeadTailProperties
<1>6. Append(trace, e) \o Tail(chan) \in Seq(AnyRecord)
  BY <1>5, ConcatProperties
<1> QED
  BY <1>3, <1>4, <1>6 DEF Recorded

LEMMA StepKeepsTurns ==
    ASSUME "write" \notin Faults, TypeOK, TypeOK', TracesOK, [Next]_vars, NEW G, TurnsOK(G),
           obs' = "up" => <<Measured("c2s")', Measured("s2c")'>> \in G
    PROVE  TurnsOK(G)'
<1>1. TracesOK'
  BY StepKeepsTraces
<1>2. "c2s" \in Directions /\ "s2c" \in Directions
  BY DEF Directions
<1>3. CASE obs' # "up"
  <2>1. trace' = trace
    <3>1. ~ObserveFrame
      <4> SUFFICES ASSUME ObserveFrame PROVE FALSE
        OBVIOUS
      <4>1. PICK f \in Frame, e \in SessionEvents : Observes(f, e)
        BY ObserveIs
      <4> QED
        BY <1>3, <4>1 DEF Observes
    <3> QED
      BY <3>1, Moves, ReadMoves, SendMoves, ShutdownMoves DEF Still
  <2> QED
    BY <1>3, <2>1 DEF TurnsOK, Turns
<1>4. CASE obs' = "up"
  <2>1. RecordMoves /\ Turns(Recorded, G)
    BY <1>4, StepMovesRecords DEF TurnsOK
  <2>2. /\ Recorded \in Seq(AnyRecord)
        /\ PayloadsOf("c2s", Recorded)' = Measured("c2s")'
        /\ PayloadsOf("s2c", Recorded)' = Measured("s2c")'
    <3>1. Recorded \in Seq(AnyRecord)
      BY RecordedTypes
    <3>2. \A d \in Directions : PayloadsOf(d, Recorded)' = Measured(d)'
      <4> TAKE d \in Directions
      <4>1. trace' \in Seq(AnyRecord) /\ chan' \in Seq(AnyRecord)
        BY <1>1, SeqMonotonic DEF TypeOK, TracesOK, AnyRecord, Messages
      <4>2. PayloadsOf(d, trace' \o chan') = PayloadsOf(d, trace') \o PayloadsOf(d, chan')
        BY <4>1, RecordsAreLines, PayloadsConcat
      <4> QED
        BY <4>2 DEF Recorded, Measured
    <3> QED
      BY <1>2, <3>1, <3>2
  <2>4. ASSUME NEW f \in Messages, chan' = Append(chan, f), trace' = trace
        PROVE  Turns(Recorded', G)
    <3>1. Recorded' = Append(Recorded, f) /\ f \in AnyRecord
      BY <2>4, RecordedGrows
    <3>2. <<PayloadsOf("c2s", Append(Recorded, f)), PayloadsOf("s2c", Append(Recorded, f))>> \in G
      BY <1>4, <2>2, <3>1
    <3> QED
      BY <2>1, <2>2, <3>1, <3>2, RecordsAreLines, TurnsAppend
  <2>5. ASSUME NEW f \in Frame, NEW e \in SessionEvents, Observes(f, e)
        PROVE  Turns(Recorded', G)
    <3>1. SameLines(Recorded', Recorded) /\ Recorded' \in Seq(AnyRecord)
      BY <2>5, RecordedMoved
    <3> QED
      BY <2>1, <2>2, <3>1, RecordsAreLines, AlikeTurns
  <2>6. Turns(Recorded', G)
    <3>1. CASE UNCHANGED <<trace, chan>>
      BY <2>1, <3>1 DEF Recorded
    <3> QED
      BY <2>1, <2>4, <2>5, <3>1 DEF RecordMoves
  <2>7. Turns(trace', G)
    <3>1. trace' \in Seq(AnyRecord) /\ chan' \in Seq(AnyRecord)
      BY <1>1, SeqMonotonic DEF TypeOK, TracesOK, AnyRecord, Messages
    <3>2. Turns(trace' \o chan', G)
      BY <2>6 DEF Recorded
    <3> QED
      BY <3>1, <3>2, TurnsOfFirst
  <2> QED
    BY <2>6, <2>7 DEF TurnsOK, Turns
<1> QED
  BY <1>3, <1>4

(***************************************************************************)
(* The stamps of what is recorded, and of what is about to be.             *)
(***************************************************************************)
Earlier(t, g) == \A a \in 1..Len(t) : Precedes(t[a], g)

Past(t, c) == \A a \in 1..Len(t) : t[a].dir \in Directions => t[a].at < c

HeldOK == \A d \in Directions : pc[d] = "send" => held[d].at < clock

StampsOK ==
    /\ Stamped(trace)
    /\ obs = "up" =>
         /\ Stamped(Recorded) /\ Past(Recorded, clock)
         /\ pc["s2c"] = "send" => Earlier(Recorded, held["s2c"])

LEMMA StampedAppend ==
    ASSUME NEW S, NEW s \in Seq(S), NEW e \in S, Stamped(s), Earlier(s, e)
    PROVE  Stamped(Append(s, e))
<1>0. PICK n \in Nat, t \in Seq(S) : Longer(t, s, n, e)
  BY AppendPlaces
<1>1. /\ t = Append(s, e) /\ n = Len(s)
      /\ DOMAIN s = 1..n /\ DOMAIN t = 1..n \cup {n + 1} /\ n + 1 \notin 1..n
      /\ t[n + 1] = e /\ \A j \in 1..n : t[j] = s[j]
  BY <1>0 DEF Longer
<1>2. ASSUME NEW b \in DOMAIN t, NEW a \in 1..b-1 PROVE Precedes(t[a], t[b])
  <2>1. CASE b \in 1..n
    <3>1. a \in 1..n
      BY <2>1
    <3>2. Precedes(s[a], s[b])
      BY <1>1, <2>1 DEF Stamped
    <3> QED
      BY <1>1, <2>1, <3>1, <3>2
  <2>2. CASE b = n + 1
    <3>1. a \in 1..n /\ a \in 1..Len(s)
      BY <1>1, <2>2
    <3>2. Precedes(s[a], e)
      BY <3>1 DEF Earlier
    <3> QED
      BY <1>1, <2>2, <3>1, <3>2
  <2> QED
    BY <1>1, <2>1, <2>2
<1> QED
  BY <1>1, <1>2 DEF Stamped

LEMMA PlacesAppend ==
    ASSUME NEW S, NEW s \in Seq(S), NEW e \in S
    PROVE  /\ \A g : Earlier(s, g) /\ Precedes(e, g) => Earlier(Append(s, e), g)
           /\ \A c : Past(s, c) /\ (e.dir \in Directions => e.at < c) => Past(Append(s, e), c)
<1>0. PICK n \in Nat, t \in Seq(S) : Longer(t, s, n, e)
  BY AppendPlaces
<1>1. /\ t = Append(s, e) /\ n = Len(s) /\ Len(t) = n + 1
      /\ t[n + 1] = e /\ \A j \in 1..n : t[j] = s[j]
  BY <1>0 DEF Longer
<1>2. \A a \in 1..n+1 : a \in 1..n \/ a = n + 1
  OBVIOUS
<1>3. ASSUME NEW g, Earlier(s, g), Precedes(e, g) PROVE Earlier(t, g)
  BY <1>1, <1>2, <1>3 DEF Earlier
<1>4. ASSUME NEW c, Past(s, c), e.dir \in Directions => e.at < c PROVE Past(t, c)
  BY <1>1, <1>2, <1>4 DEF Past
<1> QED
  BY <1>1, <1>3, <1>4

LEMMA StampsAlike ==
    ASSUME NEW S, NEW x \in Seq(S), NEW y \in Seq(S), SameLines(x, y)
    PROVE  /\ Stamped(y) => Stamped(x)
           /\ \A g : Earlier(y, g) => Earlier(x, g)
           /\ \A c : Past(y, c) => Past(x, c)
<1>1. PICK n \in Nat : n = Len(x) /\ n = Len(y) /\ DOMAIN x = 1..n /\ DOMAIN y = 1..n
  BY LenProperties DEF SameLines
<1>2. \A a \in 1..n : x[a].dir = y[a].dir /\ x[a].payload = y[a].payload /\ x[a].at = y[a].at
  BY <1>1 DEF SameLines
<1>3. \A a \in 1..n : \A g : Precedes(y[a], g) => Precedes(x[a], g)
  BY <1>2 DEF Precedes
<1>4. \A a, b \in 1..n : Precedes(y[a], y[b]) => Precedes(x[a], x[b])
  BY <1>2 DEF Precedes
<1>5. Stamped(y) => Stamped(x)
  <2> SUFFICES ASSUME Stamped(y), NEW b \in 1..n, NEW a \in 1..b-1
               PROVE  Precedes(x[a], x[b])
    BY <1>1 DEF Stamped
  <2>1. a \in 1..n
    OBVIOUS
  <2>2. Precedes(y[a], y[b])
    BY <1>1 DEF Stamped
  <2> QED
    BY <1>4, <2>1, <2>2
<1> QED
  BY <1>1, <1>2, <1>3, <1>5 DEF Earlier, Past

LEMMA StampedFirst ==
    ASSUME NEW S, NEW s \in Seq(S), NEW t \in Seq(S), Stamped(s \o t)
    PROVE  Stamped(s)
<1>1. PICK m \in Nat, n \in Nat : m = Len(s) /\ n = Len(s \o t) /\ m <= n
                                 /\ \A k \in 1..m : (s \o t)[k] = s[k]
  BY FirstPlaces
<1>2. DOMAIN s = 1..m /\ DOMAIN (s \o t) = 1..n
  BY <1>1, ConcatProperties, LenProperties
<1>3. ASSUME NEW b \in 1..m, NEW a \in 1..b-1 PROVE Precedes(s[a], s[b])
  <2>1. a \in 1..m /\ b \in 1..n
    BY <1>1
  <2>2. Precedes((s \o t)[a], (s \o t)[b])
    BY <1>2, <2>1 DEF Stamped
  <2> QED
    BY <1>1, <2>1, <2>2
<1> QED
  BY <1>2, <1>3 DEF Stamped

(* A request in the hands of the client thread is not the one that a line  *)
(* in the hands of the main thread answers: it was not forwarded yet.      *)
LEMMA HeldApart ==
    ASSUME TypeOK, TracesOK, obs = "up", PeersOK,
           \A d \in Directions : DirectionOK(d) /\ MeasuredOK(d) /\ pc[d] = "send"
    PROVE  Precedes(held["c2s"], held["s2c"])
<1>1. "c2s" \in Directions /\ "s2c" \in Directions
  BY DEF Directions
<1>2. ASSUME NEW d \in Directions
      PROVE  \E m \in Seq(Payloads), l \in Seq(Payloads), g \in Seq(Payloads), p \in Payloads :
                /\ m = Measured(d) /\ l = log[d] /\ g = got[d] /\ p = held[d].payload
                /\ IsPrefix(g, m) /\ IsPrefix(Append(m, p), l)
  <2>1. TraceTyped
    BY RecordedTypes
  <2>2. PICK g \in Seq(Payloads), o \in Seq(Payloads), i \in Seq(Payloads),
             m \in Seq(Payloads), l \in Seq(Payloads), p \in Payloads :
           /\ g = got[d] /\ o = out[d] /\ i = inn[d] /\ m = Measured(d) /\ l = log[d]
           /\ p = held[d].payload
    <3>1. held[d] \in Frame
      BY DEF TypeOK
    <3>2. held[d].payload \in Payloads
      BY <3>1 DEF Frame
    <3> QED
      BY <2>1, <3>2, SegmentTypes, ObservedTypes
  <2>3. pc[d] = "send" /\ held[d] # None
    BY DEF TypeOK
  <2>4. m = Cat(g, o)
    BY <2>2, <2>3 DEF MeasuredOK, HasEnded, Forwarded, Cat
  <2>5. PICK c \in Seq(Payloads) : c = <<p>> /\ Append(m, p) = Cat(m, c)
    BY AppendIsCat
  <2>6. l = Cat(g, Cat(Cat(o, c), i))
    BY <2>2, <2>3, <2>5 DEF DirectionOK, InFlight, Carried, Cat
  <2>7. l = Cat(Cat(m, c), i)
    <3>1. PICK oc \in Seq(Payloads) : oc = Cat(o, c)
      BY CatClosed
    <3>2. Cat(g, Cat(oc, i)) = Cat(Cat(g, oc), i)
      BY CatAssociative
    <3>3. Cat(g, Cat(o, c)) = Cat(Cat(g, o), c)
      BY CatAssociative
    <3> QED
      BY <2>4, <2>6, <3>1, <3>2, <3>3
  <2>8. PICK mc \in Seq(Payloads) : mc = Cat(m, c)
    BY CatClosed
  <2>9. IsPrefix(mc, mc \o i) /\ IsPrefix(g, g \o o)
    BY PrefixOfConcat
  <2> QED
    BY <2>2, <2>4, <2>5, <2>7, <2>8, <2>9 DEF Cat
<1>3. PICK m \in Seq(Payloads), l \in Seq(Payloads), g \in Seq(Payloads), p \in Payloads :
         /\ m = Measured("c2s") /\ l = log["c2s"] /\ g = got["c2s"] /\ p = held["c2s"].payload
         /\ IsPrefix(g, m) /\ IsPrefix(Append(m, p), l)
  BY <1>1, <1>2
<1>4. PICK r \in Seq(Payloads), y \in Seq(Payloads), h \in Seq(Payloads), q \in Payloads :
         /\ r = Measured("s2c") /\ y = log["s2c"] /\ h = got["s2c"] /\ q = held["s2c"].payload
         /\ IsPrefix(h, r) /\ IsPrefix(Append(r, q), y)
  BY <1>1, <1>2
<1>5. ASSUME NEW i \in Asking, Asked(i, <<p>>) > 0, Answered(i, <<q>>) > 0
      PROVE  FALSE
  <2>1. PICK mp \in Seq(Payloads), rq \in Seq(Payloads) : mp = Append(m, p) /\ rq = Append(r, q)
    BY AppendProperties
  <2>2. Asked(i, mp) <= Asked(i, l) /\ Asked(i, g) <= Asked(i, m)
    BY <1>3, <2>1, CountsGrow
  <2>3. Answered(i, rq) <= Answered(i, y) /\ Answered(i, h) <= Answered(i, r)
    BY <1>4, <2>1, CountsGrow
  <2>4. Answered(i, y) <= Asked(i, g) /\ Asked(i, l) <= Answered(i, h) + 1
    BY <1>3, <1>4, <1>5 DEF PeersOK
  <2>5. Asked(i, mp) = Asked(i, m) + Asked(i, <<p>>)
    BY <2>1, CountsOfLines
  <2>6. Answered(i, rq) = Answered(i, r) + Answered(i, <<q>>)
    BY <2>1, CountsOfLines
  <2>7. Asked(i, l) \in Nat /\ Asked(i, g) \in Nat /\ Asked(i, m) \in Nat
    BY CountsOfLines
  <2>8. Answered(i, y) \in Nat /\ Answered(i, h) \in Nat /\ Answered(i, r) \in Nat
    BY CountsOfLines
  <2>9. Asked(i, <<p>>) \in Nat /\ Answered(i, <<q>>) \in Nat
    BY LineAsks, LineAnswers
  <2> QED
    BY <1>5, <2>2, <2>3, <2>4, <2>5, <2>6, <2>7, <2>8, <2>9
<1> QED
  BY <1>3, <1>4, <1>5 DEF Precedes

LEMMA StepKeepsHeld ==
    ASSUME "write" \notin Faults, TypeOK, TypeOK', TracesOK, [Next]_vars, HeldOK
    PROVE  HeldOK'
<1> SUFFICES ASSUME NEW d \in Directions, pc'[d] = "send"
             PROVE  held'[d].at < clock'
  BY DEF HeldOK
<1>1. CASE Still
  BY <1>1 DEF Still, HeldOK
<1>2. CASE SendShutdown
  BY <1>2, ShutdownMoves DEF HeldOK
<1>3. CASE ObserveFrame
  BY <1>3, ObserveMoves DEF HeldOK
<1>4. ASSUME NEW e \in Directions, ReadLine(e) PROVE held'[d].at < clock'
  <2>1. clock' = clock + 1 /\ held'[e].at = clock /\ clock \in Nat
    BY <1>4, ReadMoves DEF TypeOK
  <2>2. CASE e = d
    BY <2>1, <2>2
  <2>3. CASE e # d
    <3>1. held'[d] = held[d] /\ pc[d] = "send"
      BY <1>4, <2>3, ReadMoves
    <3>2. held[d].at < clock /\ held[d].at \in Nat
      BY <3>1 DEF HeldOK, TypeOK, Frame
    <3> QED
      BY <2>1, <3>1, <3>2
  <2> QED
    BY <2>2, <2>3
<1>5. ASSUME NEW e \in Directions, SendFrame(e) PROVE held'[d].at < clock'
  <2>1. e # d
    BY <1>5, SendMoves
  <2>2. pc[d] = "send" /\ held'[d] = held[d] /\ clock' = clock
    BY <1>5, <2>1, SendMoves
  <2> QED
    BY <2>2 DEF HeldOK
<1> QED
  BY <1>1, <1>2, <1>3, <1>4, <1>5, Moves

LEMMA StepKeepsStamps ==
    ASSUME "write" \notin Faults, TypeOK, TypeOK', TracesOK, [Next]_vars,
           PeersOK, HeldOK, StampsOK,
           \A d \in Directions : DirectionOK(d) /\ MeasuredOK(d)
    PROVE  StampsOK'
<1>1. TracesOK'
  BY StepKeepsTraces
<1>2. "c2s" \in Directions /\ "s2c" \in Directions /\ "main" \notin Directions
  BY DEF Directions
<1>3. CASE obs' # "up"
  <2>1. trace' = trace
    <3>1. ~ObserveFrame
      <4> SUFFICES ASSUME ObserveFrame PROVE FALSE
        OBVIOUS
      <4>1. PICK f \in Frame, e \in SessionEvents : Observes(f, e)
        BY ObserveIs
      <4> QED
        BY <1>3, <4>1 DEF Observes
    <3> QED
      BY <3>1, Moves, ReadMoves, SendMoves, ShutdownMoves DEF Still
  <2> QED
    BY <1>3, <2>1 DEF StampsOK, Stamped
<1>4. CASE obs' = "up"
  <2>0. PICK M \in Seq(AnyRecord) : M = Recorded
    BY RecordedTypes
  <2>1. PICK N : N = Recorded' /\ M = Recorded
    BY <2>0
  <2>2. obs = "up" /\ Stamped(M) /\ Past(M, clock)
        /\ (pc["s2c"] = "send" => Earlier(M, held["s2c"]))
    BY <1>4, <2>1, StepMovesRecords DEF StampsOK
  <2> DEFINE Goal == /\ Stamped(N) /\ Past(N, clock')
                     /\ pc'["s2c"] = "send" => Earlier(N, held'["s2c"])
  <2>3. ASSUME Still PROVE Goal
    <3>1. N = M
      BY <1>4, <2>1, <2>3 DEF Still, Recorded
    <3>2. clock' = clock /\ (pc'["s2c"] = "send" => pc["s2c"] = "send" /\ held'["s2c"] = held["s2c"])
      BY <1>2, <2>3 DEF Still
    <3> QED
      BY <2>2, <3>1, <3>2
  <2>4. ASSUME SendShutdown PROVE Goal
    <3>1. chan' = Append(chan, Shutdown) /\ trace' = trace /\ clock' = clock /\ held' = held
          /\ (pc'["s2c"] = "send" => pc["s2c"] = "send")
      BY <1>2, <2>2, <2>4, ShutdownMoves
    <3>2. Shutdown \in Messages
      BY DEF Messages
    <3>3. N = Append(M, Shutdown) /\ Shutdown \in AnyRecord
      BY <2>1, <3>1, <3>2, RecordedGrows
    <3>4. Shutdown.dir = "main"
      BY DEF Shutdown
    <3>5. \A g : Precedes(Shutdown, g) /\ Precedes(g, Shutdown)
      BY <3>4 DEF Precedes
    <3>6. Earlier(M, Shutdown)
      BY <3>5 DEF Earlier
    <3>7. Stamped(N)
      BY <2>2, <3>3, <3>6, StampedAppend
    <3>8. Past(N, clock)
      BY <1>2, <2>2, <3>3, <3>4, PlacesAppend
    <3>9. pc["s2c"] = "send" => Earlier(N, held["s2c"])
      BY <2>2, <3>3, <3>5, PlacesAppend
    <3> QED
      BY <3>1, <3>7, <3>8, <3>9
  <2>5. ASSUME ObserveFrame PROVE Goal
    <3>1. PICK f \in Frame, e \in SessionEvents : Observes(f, e)
      BY <2>5, ObserveIs
    <3>2. SameLines(N, M) /\ N \in Seq(AnyRecord)
      BY <2>1, <3>1, RecordedMoved
    <3>3. clock' = clock /\ held' = held /\ pc' = pc
      BY <3>1 DEF Observes
    <3>4. Stamped(N) /\ Past(N, clock) /\ (pc["s2c"] = "send" => Earlier(N, held["s2c"]))
      BY <2>2, <3>2, StampsAlike
    <3> QED
      BY <3>3, <3>4
  <2>6. ASSUME NEW d \in Directions, ReadLine(d) PROVE Goal
    <3>1. trace' = trace /\ chan' = chan /\ clock' = clock + 1 /\ held'[d].at = clock
          /\ \A e \in Directions : e # d => held'[e] = held[e] /\ pc'[e] = pc[e]
      BY <2>6, ReadMoves
    <3>2. N = M
      BY <2>1, <3>1 DEF Recorded
    <3>3. Past(M, clock')
      <4>1. \A a \in 1..Len(M) : M[a].dir \in Directions => M[a].at \in Nat
        <5>1. \A a \in 1..Len(M) : M[a] \in AnyRecord
          BY ElementOfSeq
        <5>2. \A f \in AnyRecord : f.dir \in Directions => f.at \in Nat
          BY <1>2 DEF AnyRecord, SessionEvents, AnyEvent, Messages, Frame, Shutdown
        <5> QED
          BY <5>1, <5>2
      <4>2. clock \in Nat
        BY DEF TypeOK
      <4> QED
        BY <2>2, <3>1, <4>1, <4>2 DEF Past
    <3>4. CASE d = "s2c"
      <4>1. \A a \in 1..Len(M) : Precedes(M[a], held'["s2c"])
        BY <1>2, <2>2, <3>1, <3>4 DEF Precedes, Past
      <4> QED
        BY <2>2, <3>2, <3>3, <4>1 DEF Earlier
    <3>5. CASE d # "s2c"
      BY <1>2, <2>2, <3>1, <3>2, <3>3, <3>5
    <3> QED
      BY <3>4, <3>5
  <2>7. ASSUME NEW d \in Directions, SendFrame(d) PROVE Goal
    <3>1. /\ trace' = trace /\ clock' = clock /\ held' = held /\ chan' = Append(chan, held[d])
          /\ held[d] \in Frame /\ held[d].dir = d /\ pc[d] = "send" /\ pc'[d] # "send"
          /\ \A e \in Directions : e # d => pc'[e] = pc[e]
      BY <2>2, <2>7, SendMoves
    <3>2. PICK f \in Messages : f = held[d]
      BY <3>1 DEF Messages
    <3>3. N = Append(M, f) /\ f \in AnyRecord
      BY <2>1, <3>1, <3>2, RecordedGrows
    <3>4. f.at < clock
      BY <3>1, <3>2 DEF HeldOK
    <3>5. Past(N, clock)
      BY <2>2, <3>3, <3>4, PlacesAppend
    <3>6. Earlier(M, f)
      <4>1. CASE d = "s2c"
        BY <2>2, <3>1, <3>2, <4>1
      <4>2. CASE d # "s2c"
        BY <3>1, <3>2, <4>2 DEF Earlier, Precedes
      <4> QED
        BY <4>1, <4>2
    <3>7. Stamped(N)
      BY <2>2, <3>3, <3>6, StampedAppend
    <3>8. ASSUME pc'["s2c"] = "send" PROVE Earlier(N, held["s2c"])
      <4>1. d # "s2c" /\ pc["s2c"] = "send"
        BY <1>2, <3>1, <3>8
      <4>2. d = "c2s"
        BY <4>1 DEF Directions
      <4>3. \A e \in Directions : DirectionOK(e) /\ MeasuredOK(e) /\ pc[e] = "send"
        BY <3>1, <4>1, <4>2 DEF Directions
      <4>4. Precedes(f, held["s2c"])
        BY <2>2, <3>2, <4>2, <4>3, HeldApart
      <4>5. Earlier(M, held["s2c"])
        BY <2>2, <4>1
      <4> QED
        BY <3>3, <4>4, <4>5, PlacesAppend
    <3> QED
      BY <3>1, <3>5, <3>7, <3>8
  <2>8. Goal
    <3> HIDE DEF Goal
    <3> QED
      BY <2>3, <2>4, <2>5, <2>6, <2>7, Moves
  <2>9. Stamped(trace')
    <3>1. trace' \in Seq(AnyRecord) /\ chan' \in Seq(AnyRecord)
      BY <1>1, SeqMonotonic DEF TypeOK, TracesOK, AnyRecord, Messages
    <3>2. Stamped(trace' \o chan')
      BY <2>1, <2>8 DEF Recorded
    <3> QED
      BY <3>1, <3>2, StampedFirst
  <2> QED
    BY <1>4, <2>1, <2>8, <2>9 DEF StampsOK, Stamped, Past, Earlier
<1> QED
  BY <1>3, <1>4

(***************************************************************************)
(* What is measured, and the session as a whole.                           *)
(***************************************************************************)
MeasuresOK ==
    /\ PendingOf(trace, pending)
    /\ \A k \in DOMAIN trace : RoundTripExact(trace, k) /\ CreditExact(trace, k)

LEMMA ObserveKeepsMeasures ==
    ASSUME TypeOK, TracesOK, MeasuresOK, NEW f \in Frame, NEW e \in SessionEvents,
           Observes(f, e), Turns(trace', BalancedPairs), Stamped(trace')
    PROVE  MeasuresOK'
<1>1. PICK t \in Seq(SessionEvents), P \in PendingMap : t = trace /\ P = pending
  BY DEF TracesOK
<1>2. PICK p \in Payloads, d \in Directions, at \in Nat : p = f.payload /\ d = f.dir /\ at = f.at
  BY DEF Frame
<1>3. PICK Q : Q = ObservePayloadAt(p, d, P, at).pending
  OBVIOUS
<1>4. e = ObservePayloadAt(p, d, P, at).event /\ trace' = Append(t, e) /\ pending' = Q
  BY <1>1, <1>2, <1>3 DEF Observes
<1>5. PendingOf(t, P) /\ \A k \in DOMAIN t : RoundTripExact(t, k) /\ CreditExact(t, k)
  BY <1>1 DEF MeasuresOK
<1>6. Turns(Append(t, e), BalancedPairs) /\ Stamped(Append(t, e))
  BY <1>4
<1>7. PICK n \in Nat, u \in Seq(SessionEvents) : Longer(u, t, n, e)
  BY AppendPlaces
<1>8. u = Append(t, e) /\ n = Len(t) /\ DOMAIN t = 1..n /\ DOMAIN u = 1..n \cup {n + 1}
  BY <1>7 DEF Longer
<1>9. RoundTripExact(u, n + 1) /\ CreditExact(u, n + 1) /\ PendingOf(u, Q)
  <2>1. CASE d = "c2s"
    <3>1. /\ e = ObservePayloadAt(p, "c2s", P, at).event
          /\ Q = ObservePayloadAt(p, "c2s", P, at).pending
      BY <1>3, <1>4, <2>1
    <3>2. /\ RoundTripExact(Append(t, e), Len(t) + 1) /\ CreditExact(Append(t, e), Len(t) + 1)
          /\ PendingOf(Append(t, e), Q)
      BY <1>5, <1>6, <3>1, CallEvent
    <3> QED
      BY <1>8, <3>2
  <2>2. CASE d = "s2c"
    <3>1. /\ e = ObservePayloadAt(p, "s2c", P, at).event
          /\ Q = ObservePayloadAt(p, "s2c", P, at).pending
      BY <1>3, <1>4, <2>2
    <3>2. /\ RoundTripExact(Append(t, e), Len(t) + 1) /\ CreditExact(Append(t, e), Len(t) + 1)
          /\ PendingOf(Append(t, e), Q)
      BY <1>5, <1>6, <3>1, AnswerEvent
    <3> QED
      BY <1>8, <3>2
  <2> QED
    BY <2>1, <2>2 DEF Directions
<1>10. \A k \in DOMAIN t : RoundTripExact(u, k) /\ CreditExact(u, k)
  <2> TAKE k \in DOMAIN t
  <2>1. RoundTripExact(t, k) /\ CreditExact(t, k)
    BY <1>5
  <2> QED
    BY <1>8, <2>1, EventStays
<1>11. \A k \in DOMAIN u : RoundTripExact(u, k) /\ CreditExact(u, k)
  BY <1>8, <1>9, <1>10
<1> QED
  BY <1>4, <1>8, <1>9, <1>11 DEF MeasuresOK

(* The inductive invariant of the session.                                 *)
SessionInv ==
    /\ TypeOK /\ TracesOK
    /\ \A d \in Directions : DirectionOK(d) /\ MeasuredOK(d)
    /\ PeersOK /\ TurnsOK(BalancedPairs) /\ HeldOK /\ StampsOK /\ MeasuresOK

LEMMA CountsInitially ==
    \A i : Asked(i, <<>>) = 0 /\ Answered(i, <<>>) = 0
  BY CountEmpty DEF Asked, Answered

LEMMA TurnsInitially ==
    ASSUME NEW G, <<(<<>>), (<<>>)>> \in G
    PROVE  Turns(<<>>, G)
<1>1. \A d : Before(<<>>, 0, d) = <<>>
  <2>1. <<>> \in Seq({})
    BY EmptySeq
  <2> QED
    BY <2>1, BeforeWhole
<1>2. Len(<<>>) = 0
  BY EmptySeq
<1>3. \A k \in 0..0 : k = 0
  OBVIOUS
<1> QED
  BY <1>1, <1>2, <1>3 DEF Turns

LEMMA SessionInitially ==
    ASSUME Init
    PROVE  SessionInv
<1>1. TypeOK
  BY NoFrameAssumption, StdioProxyAssumption DEF Init, TypeOK, Directions
<1>2. trace = <<>> /\ chan = <<>> /\ pending = NoPending
  BY DEF Init
<1>3. TracesOK
  <2>1. <<>> \in Seq(SessionEvents)
    BY EmptySeq
  <2>2. NoPending \in PendingMap
    BY DEF NoPending, PendingMap
  <2> QED
    BY <1>2, <2>1, <2>2 DEF TracesOK
<1>4. \A d \in Directions : DirectionOK(d) /\ MeasuredOK(d)
  BY ObservedInitially
<1>5. PeersOK
  <2>1. log["c2s"] = <<>> /\ log["s2c"] = <<>> /\ got["c2s"] = <<>> /\ got["s2c"] = <<>>
    BY DEF Init, Directions
  <2> QED
    BY <2>1, CountsInitially DEF PeersOK
<1>6. TurnsOK(BalancedPairs)
  <2>1. Balanced(<<>>, <<>>)
    BY CountsInitially DEF Balanced
  <2>2. <<(<<>>), (<<>>)>> \in BalancedPairs
    <3>1. <<>> \in Seq(Payloads)
      BY EmptySeq
    <3> QED
      BY <2>1, <3>1 DEF BalancedPairs
  <2>3. Recorded = <<>>
    <3>1. <<>> \in Seq({})
      BY EmptySeq
    <3> QED
      BY <1>2, <3>1, ConcatEmptySeq DEF Recorded
  <2> QED
    BY <1>2, <2>2, <2>3, TurnsInitially DEF TurnsOK
<1>7. HeldOK
  BY DEF Init, HeldOK, Directions
<1>8. StampsOK
  <2>1. Recorded = <<>>
    <3>1. <<>> \in Seq({})
      BY EmptySeq
    <3> QED
      BY <1>2, <3>1, ConcatEmptySeq DEF Recorded
  <2>2. \A g, c : Stamped(<<>>) /\ Past(<<>>, c) /\ Earlier(<<>>, g)
    BY DEF Stamped, Past, Earlier
  <2> QED
    BY <1>2, <2>1, <2>2 DEF StampsOK
<1>9. MeasuresOK
  <2>1. PayloadsOf("c2s", <<>>) = <<>> /\ PayloadsOf("s2c", <<>>) = <<>>
    BY PayloadsEmpty
  <2>2. PendingOf(<<>>, NoPending)
    <3> SUFFICES ASSUME NEW i \in Ids
                 PROVE  ~(Asked(i, <<>>) > Answered(i, <<>>)) /\ NoPending[i] = None
      BY <2>1 DEF PendingOf
    <3> QED
      BY CountsInitially DEF NoPending
  <2> QED
    BY <1>2, <2>2 DEF MeasuresOK
<1> QED
  BY <1>1, <1>3, <1>4, <1>5, <1>6, <1>7, <1>8, <1>9 DEF SessionInv

(* The same lemma as a formula of the state, which a step can carry over.  *)
Watched == TypeOK /\ TraceTyped /\ PeersOK /\ \A d \in Directions : DirectionOK(d) /\ MeasuredOK(d)

PairBalanced == obs = "up" => <<Measured("c2s"), Measured("s2c")>> \in BalancedPairs

LEMMA WatchedIsBalanced == Watched => PairBalanced
BY MeasuredBalanced DEF Watched, PairBalanced

LEMMA SessionStepKeeps ==
    ASSUME "write" \notin Faults, SessionInv, [SessionNext]_vars
    PROVE  SessionInv'
<1>1. [Next]_vars
  BY SessionStep
<1>2. TypeOK /\ TracesOK /\ PeersOK /\ TurnsOK(BalancedPairs) /\ HeldOK /\ StampsOK /\ MeasuresOK
      /\ \A d \in Directions : DirectionOK(d) /\ MeasuredOK(d)
  BY DEF SessionInv
<1>3. TypeOK' /\ TracesOK'
  BY <1>1, <1>2, StepKeepsTypes, StepKeepsTraces
<1>4. TraceTyped /\ TraceTyped'
  <2>1. TraceTyped
    BY <1>2, RecordedTypes
  <2> QED
    BY <1>1, <1>2, <2>1, TraceStaysTyped
<1>5. \A d \in Directions : DirectionOK(d)' /\ MeasuredOK(d)'
  BY <1>1, <1>2, <1>3, <1>4, StepKeepsOrder, StepKeepsMeasured
<1>6. PeersOK'
  BY <1>2, StepKeepsPeers
<1>7. HeldOK' /\ StampsOK'
  BY <1>1, <1>2, <1>3, StepKeepsHeld, StepKeepsStamps
<1>8. obs' = "up" => <<Measured("c2s")', Measured("s2c")'>> \in BalancedPairs
  <2>1. Watched'
    BY <1>3, <1>4, <1>5, <1>6 DEF Watched
  <2>2. PairBalanced'
    BY <2>1, WatchedIsBalanced, PTL
  <2> QED
    BY <2>2 DEF PairBalanced
<1>9. TurnsOK(BalancedPairs)'
  BY <1>1, <1>2, <1>3, <1>8, StepKeepsTurns
<1>10. MeasuresOK'
  <2>1. CASE UNCHANGED <<trace, pending>>
    BY <1>2, <2>1 DEF MeasuresOK
  <2>2. CASE ObserveFrame
    <3>1. PICK f \in Frame, e \in SessionEvents : Observes(f, e)
      BY <1>2, <2>2, ObserveIs
    <3>2. Turns(trace', BalancedPairs) /\ Stamped(trace')
      BY <1>7, <1>9 DEF TurnsOK, Turns, StampsOK, Stamped
    <3> QED
      BY <1>2, <3>1, <3>2, ObserveKeepsMeasures
  <2> QED
    BY <1>1, <1>2, <2>1, <2>2, Moves, ReadMoves, SendMoves, ShutdownMoves DEF Still
<1> QED
  BY <1>3, <1>5, <1>6, <1>7, <1>9, <1>10 DEF SessionInv

LEMMA PendingAreUnanswered ==
    ASSUME TracesOK, TurnsOK(BalancedPairs), MeasuresOK
    PROVE  PendingIsUnanswered
<1>1. PICK t \in Seq(SessionEvents), P \in PendingMap : t = trace /\ P = pending
  BY DEF TracesOK
<1>2. PICK x, y : x = PayloadsOf("c2s", t) /\ y = PayloadsOf("s2c", t)
  OBVIOUS
<1>3. ASSUME NEW i \in Ids
      PROVE  P[i] # None <=> i \in Asking /\ Asked(i, x) > Answered(i, y)
  <2>1. IF i \in Asking /\ Asked(i, x) > Answered(i, y)
        THEN \E k \in DOMAIN t : Explains(t, k, i, Asked(i, x), P[i])
        ELSE P[i] = None
    BY <1>1, <1>2 DEF MeasuresOK, PendingOf
  <2>2. CASE i \in Asking /\ Asked(i, x) > Answered(i, y)
    <3>1. PICK k \in DOMAIN t : Explains(t, k, i, Asked(i, x), P[i])
      BY <2>1, <2>2
    <3>2. x \in Seq(Payloads)
      BY <1>2, EventsAreLines, PayloadsType DEF Directions
    <3>3. Asked(i, x) \in Nat
      BY <3>2, CountsOfLines
    <3>4. Recalls(t, k, i, Asked(i, x), P[i])
      BY <3>1, <3>3, RequestItemIs
    <3> QED
      BY <2>2, <3>4 DEF Recalls
  <2>3. CASE ~(i \in Asking /\ Asked(i, x) > Answered(i, y))
    BY <2>1, <2>3
  <2> QED
    BY <2>2, <2>3
<1> QED
  BY <1>1, <1>2, <1>3 DEF PendingIsUnanswered

(* The inductive invariant is kept by a session in which no write to the   *)
(* trace fails: what a failed write loses is lost for the measurements.    *)
THEOREM SessionInvariant ==
    ASSUME "write" \notin Faults
    PROVE  SessionSpec => []SessionInv
<1>1. Init => SessionInv
  BY SessionInitially
<1>2. SessionInv /\ [SessionNext]_vars => SessionInv'
  BY SessionStepKeeps
<1> QED
  BY <1>1, <1>2, PTL DEF SessionSpec

(* The latencies of an event are the round trips of the answers in it, in  *)
(* their order, each from the stamp of the request it answers to its own:  *)
(* for any ids, reused and shared by both peers, any batches, a slow       *)
(* observer, and one that panics.  It is inspect_response of observer.rs.  *)
THEOREM RoundTripsAlwaysExact ==
    ASSUME "write" \notin Faults
    PROVE  SessionSpec => []RoundTripsExact
<1>1. SessionInv => RoundTripsExact
  BY DEF SessionInv, MeasuresOK, RoundTripsExact
<1> QED
  BY <1>1, SessionInvariant, PTL

(* The tools of an event are those of its calls and of the calls that the  *)
(* answers in it are for, in their order.                                  *)
THEOREM ToolsAlwaysCredited ==
    ASSUME "write" \notin Faults
    PROVE  SessionSpec => []ToolsCredited
<1>1. SessionInv => ToolsCredited
  BY DEF SessionInv, MeasuresOK, ToolsCredited
<1> QED
  BY <1>1, SessionInvariant, PTL

(* The map of pending requests, self.pending of observer.rs, holds exactly *)
(* the requests of the client that are not answered in the trace.          *)
THEOREM PendingAlwaysUnanswered ==
    ASSUME "write" \notin Faults
    PROVE  SessionSpec => []PendingIsUnanswered
<1>1. SessionInv => PendingIsUnanswered
  BY PendingAreUnanswered DEF SessionInv
<1> QED
  BY <1>1, SessionInvariant, PTL

-----------------------------------------------------------------------------
(***************************************************************************)
(* The fixture: what it answers, and that it is a server of the session.   *)
(***************************************************************************)
Response == {item \in AnyItem : Role(item) = "response"}

ItemReplies == [item \in AnyItem |-> HandleMessage(item)]

LEMMA NumberSingle ==
    ASSUME NEW S, NEW e \in S, NEW sort
    PROVE  Number(sort, <<e>>) = IF <<Role(e), e.id>> \in sort THEN 1 ELSE 0
<1>1. PICK z \in Seq(S) : z = <<>>
  BY EmptySeq
<1>2. Append(z, e) = <<e>>
  BY <1>1
<1>3. Number(sort, Append(z, e)) = Number(sort, z) + (IF <<Role(e), e.id>> \in sort THEN 1 ELSE 0)
  BY NumberAppend
<1>4. Number(sort, z) = 0
  BY <1>1, NumberEmpty
<1> QED
  BY <1>2, <1>3, <1>4

LEMMA WritesResponses ==
    ASSUME NEW i \in Ids
    PROVE  /\ Answers(i) \in Response /\ Answers(i).id = i
           /\ Fails(i) \in Response /\ Fails(i).id = i
           /\ Lists(i, 3) \in Response /\ Lists(i, 3).id = i
<1>1. PICK e \in AnyItem : e = Item /\ e.object /\ e.method = None
  <2>1. Item \in AnyItem
    BY DEF Item, AnyItem, Absent
  <2>2. Item.object /\ Item.method = None
    BY DEF Item
  <2> QED
    BY <2>1, <2>2
<1>2. PICK x \in AnyItem : x = [e EXCEPT !.id = i] /\ x.object /\ x.method = None /\ x.id = i
  <2>1. [e EXCEPT !.id = i] \in AnyItem
    BY DEF AnyItem
  <2> QED
    BY <1>1, <2>1 DEF AnyItem
<1>3. ASSUME NEW b \in {"result", "error"}
      PROVE  LET y == [x EXCEPT !.body = {b}] IN
             y \in AnyItem /\ y.object /\ y.method = None /\ y.id = i /\ y.body = {b}
  <2>1. {b} \in SUBSET {"result", "error"}
    OBVIOUS
  <2>2. [x EXCEPT !.body = {b}] \in AnyItem
    BY <2>1 DEF AnyItem
  <2> QED
    BY <1>2, <2>2 DEF AnyItem
<1>4. ASSUME NEW y \in AnyItem, y.object, y.method = None, y.body # {}
      PROVE  y \in Response
  BY <1>4 DEF Response, Role
<1>5. Answers(i) = [x EXCEPT !.body = {"result"}] /\ Fails(i) = [x EXCEPT !.body = {"error"}]
  BY <1>1, <1>2 DEF Answers, Fails
<1>6. PICK z \in AnyItem : z = Answers(i) /\ z.object /\ z.method = None /\ z.id = i /\ z.body # {}
  BY <1>3, <1>5
<1>7. PICK u \in AnyItem : /\ u = [z EXCEPT !.tools = 3]
                           /\ u.object /\ u.method = None /\ u.id = i /\ u.body # {}
  <2>1. [z EXCEPT !.tools = 3] \in AnyItem
    BY DEF AnyItem
  <2> QED
    BY <1>6, <2>1 DEF AnyItem
<1>8. PICK v \in AnyItem : /\ v = [u EXCEPT !.schema = 4]
                           /\ v.object /\ v.method = None /\ v.id = i /\ v.body # {}
  <2>1. [u EXCEPT !.schema = 4] \in AnyItem
    BY DEF AnyItem
  <2> QED
    BY <1>7, <2>1 DEF AnyItem
<1>9. v = Lists(i, 3)
  <2>1. Lists(i, 3) = [[Answers(i) EXCEPT !.tools = 3] EXCEPT !.schema = 3 + 1]
    BY DEF Lists
  <2>2. 3 + 1 = 4
    OBVIOUS
  <2> QED
    BY <1>6, <1>7, <1>8, <2>1, <2>2
<1> QED
  BY <1>3, <1>4, <1>5, <1>6, <1>8, <1>9

(* One answer under its id for a request, and none for anything else.      *)
LEMMA MessageReplies ==
    ASSUME NEW item \in AnyItem
    PROVE  /\ HandleMessage(item) \in Seq(Response)
           /\ HandleMessage(item) = <<>> \/ \E r \in Response : HandleMessage(item) = <<r>>
           /\ \A i \in Asking : Number(Rsp(i), HandleMessage(item)) = Number(Req(i), <<item>>)
<1>1. ASSUME NEW i \in Asking
      PROVE  Number(Req(i), <<item>>) = IF Role(item) = "call" /\ item.id = i THEN 1 ELSE 0
  BY NumberSingle DEF Req
<1>2. CASE ~Handled(item)
  <2>1. HandleMessage(item) = <<>>
    BY <1>2 DEF HandleMessage
  <2>2. \A i \in Asking : ~(Role(item) = "call" /\ item.id = i)
    BY <1>2, RoleCases, NoneAssumption DEF Handled, Asking
  <2>3. \A i \in Asking : Number(Rsp(i), <<>>) = 0
    BY NumberEmpty
  <2> QED
    BY <1>1, <2>1, <2>2, <2>3, EmptySeq
<1>3. CASE Handled(item)
  <2>1. item.id \in Ids /\ Role(item) = "call"
    BY <1>3 DEF Handled, AnyItem, Role
  <2>2. /\ Answers(item.id) \in Response /\ Answers(item.id).id = item.id
        /\ Fails(item.id) \in Response /\ Fails(item.id).id = item.id
        /\ Lists(item.id, 3) \in Response /\ Lists(item.id, 3).id = item.id
    BY <2>1, WritesResponses
  <2>3. HandleMessage(item) \in {<<Lists(item.id, 3)>>, <<Answers(item.id)>>, <<Fails(item.id)>>}
    BY <1>3 DEF HandleMessage
  <2>4. PICK r \in Response : HandleMessage(item) = <<r>> /\ r.id = item.id
    BY <2>2, <2>3
  <2>5. ASSUME NEW i \in Asking
        PROVE  Number(Rsp(i), <<r>>) = IF item.id = i THEN 1 ELSE 0
    <3>1. Number(Rsp(i), <<r>>) = IF <<Role(r), r.id>> \in Rsp(i) THEN 1 ELSE 0
      BY NumberSingle
    <3> QED
      BY <2>4, <3>1 DEF Rsp, Response
  <2>6. <<r>> \in Seq(Response)
    OBVIOUS
  <2> QED
    BY <1>1, <2>1, <2>4, <2>5, <2>6
<1> QED
  BY <1>2, <1>3

LEMMA ItemRepliesType == ItemReplies \in [AnyItem -> Seq(Response)]
  BY MessageReplies DEF ItemReplies

(* An array is answered request by request.                                *)
LEMMA RepliesOfItems ==
    \A s \in Seq(AnyItem) :
        /\ FlatMap(ItemReplies, s) \in Seq(Response)
        /\ \A i \in Asking : Number(Rsp(i), FlatMap(ItemReplies, s)) = Number(Req(i), s)
<1> DEFINE Same(s) == \A i \in Asking :
                         Number(Rsp(i), FlatMap(ItemReplies, s)) = Number(Req(i), s)
<1> DEFINE Q == {s \in Seq(AnyItem) : Same(s)}
<1>1. <<>> \in Q
  BY EmptySeq, FlatMapEmpty, NumberEmpty
<1>2. ASSUME NEW s \in Seq(AnyItem), NEW e \in AnyItem, s \in Q
      PROVE  Append(s, e) \in Q
  <2>1. PICK x \in Seq(Response), y \in Seq(Response) :
           x = FlatMap(ItemReplies, s) /\ y = HandleMessage(e)
    <3>1. FlatMap(ItemReplies, s) \in Seq(Response)
      BY ItemRepliesType, FlatMapType
    <3> QED
      BY <3>1, MessageReplies
  <2>2. FlatMap(ItemReplies, Append(s, e)) = Cat(x, y)
    <3>1. FlatMap(ItemReplies, Append(s, e)) = Cat(FlatMap(ItemReplies, s), ItemReplies[e])
      BY ItemRepliesType, FlatMapAppend
    <3> QED
      BY <2>1, <3>1 DEF ItemReplies
  <2>3. ASSUME NEW i \in Asking
        PROVE  Number(Rsp(i), Cat(x, y)) = Number(Req(i), Append(s, e))
    <3>1. Number(Rsp(i), Cat(x, y)) = Number(Rsp(i), x) + Number(Rsp(i), y)
      BY NumberCat
    <3>2. Number(Req(i), Append(s, e)) = Number(Req(i), s) + Number(Req(i), <<e>>)
      <4>1. PICK l \in Seq(AnyItem) : l = <<e>> /\ Append(s, e) = Cat(s, l)
        BY AppendIsCat
      <4>2. Number(Req(i), Cat(s, l)) = Number(Req(i), s) + Number(Req(i), l)
        BY NumberCat
      <4> QED
        BY <4>1, <4>2
    <3>3. Number(Rsp(i), x) = Number(Req(i), s)
      BY <1>2, <2>1
    <3>4. Number(Rsp(i), y) = Number(Req(i), <<e>>)
      BY <2>1, MessageReplies
    <3> QED
      BY <3>1, <3>2, <3>3, <3>4
  <2>4. Append(s, e) \in Seq(AnyItem)
    BY AppendProperties
  <2> QED
    BY <2>2, <2>3, <2>4
<1> HIDE DEF Q
<1>3. \A s \in Seq(AnyItem) : s \in Q
  BY <1>1, <1>2, SequenceInduction
<1> QED
  BY <1>3, ItemRepliesType, FlatMapType DEF Q

(* What is written to a line are answers, one for each request in it.      *)
AnswersOnly(q) == \A m \in DOMAIN q.items : Role(q.items[m]) = "response"

LineReplies(p, s) ==
    /\ \A k \in DOMAIN s : AnswersOnly(s[k])
    /\ \A i \in Asking : Answered(i, s) = Asked(i, <<p>>)

LEMMA LineIsReplied ==
    ASSUME NEW p \in ClientLines
    PROVE  HandleLine(p) \in Seq(Payloads) /\ LineReplies(p, HandleLine(p))
<1>1. PICK s \in Seq(AnyItem) : s = p.items
  BY FixtureSessionAssumption, StdioSessionAssumption DEF AnyPayload
<1>2. PICK r \in Seq(Response) : r = FlatMap(ItemReplies, s)
  BY RepliesOfItems
<1>3. r = FlattenSeq([k \in DOMAIN p.items |-> HandleMessage(p.items[k])])
  <2>1. \A k \in DOMAIN s : s[k] \in AnyItem
    BY ElementOfSeq, LenProperties
  <2>2. [k \in DOMAIN s |-> ItemReplies[s[k]]] = [k \in DOMAIN s |-> HandleMessage(s[k])]
    BY <2>1 DEF ItemReplies
  <2> QED
    BY <1>1, <1>2, <2>2 DEF FlatMap, Images
<1>4. /\ p \in Payloads
      /\ \A i \in Asking : /\ Number(Rsp(i), r) = Number(Req(i), s)
                           /\ Asked(i, <<p>>) = Number(Req(i), s)
  <2>1. p \in Payloads
    BY FixtureSessionAssumption
  <2>2. \A i : Asked(i, <<p>>) = Number(Req(i), s)
    BY <1>1, <2>1, CountOne DEF Asked, Req
  <2> QED
    BY <1>2, <2>1, <2>2, RepliesOfItems
<1>5. ASSUME HandleLine(p) = <<>>, \A i \in Asking : Number(Req(i), s) = 0
      PROVE  HandleLine(p) \in Seq(Payloads) /\ LineReplies(p, HandleLine(p))
  <2>1. \A i : Answered(i, <<>>) = 0
    BY CountsInitially
  <2> QED
    BY <1>4, <1>5, <2>1, EmptySeq DEF LineReplies
<1>6. ASSUME NEW q, HandleLine(p) = <<q>>, NEW u \in Seq(Response), q.items = u,
             \A i \in Asking : Number(Rsp(i), u) = Number(Req(i), s)
      PROVE  HandleLine(p) \in Seq(Payloads) /\ LineReplies(p, HandleLine(p))
  <2>1. q \in Payloads
    <3>1. q \in ToSet(<<q>>)
      BY DEF ToSet
    <3> QED
      BY <1>6, <3>1, FixtureLinesAssumption
  <2>2. <<q>> \in Seq(Payloads)
    BY <2>1
  <2>3. \A i \in Asking : Answered(i, <<q>>) = Asked(i, <<p>>)
    BY <1>4, <1>6, <2>1, CountOne DEF Answered, Rsp
  <2>4. AnswersOnly(q)
    BY <1>6, ElementOfSeq, LenProperties DEF AnswersOnly, Response
  <2>5. LineReplies(p, <<q>>)
    <3>1. \A k \in DOMAIN <<q>> : <<q>>[k] = q
      OBVIOUS
    <3> QED
      BY <2>3, <2>4, <3>1 DEF LineReplies
  <2> QED
    BY <1>6, <2>2, <2>5
<1>7. CASE ~p.json
  <2>1. s = <<>>
    BY <1>1, <1>4, <1>7, StdioSessionAssumption
  <2>2. \A i \in Asking : Number(Req(i), s) = 0
    BY <2>1, NumberEmpty
  <2>3. CASE p \in Blank
    BY <1>5, <2>2, <2>3 DEF HandleLine
  <2>4. CASE p \notin Blank
    <3>1. Line(Fails(Null)).items = <<Fails(Null)>>
      BY DEF Line
    <3>2. Role(Fails(Null)) = "response" /\ Fails(Null).id = Null
      BY DEF Fails, Item, Role
    <3>3. Fails(Null) \in Response
      <4>1. Line(Fails(Null)) \in ToSet(HandleLine(p))
        BY <1>7, <2>4 DEF HandleLine, ToSet
      <4>2. Line(Fails(Null)).items \in Seq(AnyItem)
        BY <4>1, FixtureLinesAssumption, StdioSessionAssumption DEF AnyPayload
      <4>3. <<Fails(Null)>>[1] \in AnyItem
        BY <3>1, <4>2, ElementOfSeq
      <4> QED
        BY <3>2, <4>3 DEF Response
    <3>4. PICK u \in Seq(Response) : u = <<Fails(Null)>>
      <4>1. <<Fails(Null)>> \in Seq(Response)
        BY <3>3
      <4> QED
        BY <4>1
    <3>5. ASSUME NEW i \in Asking PROVE Number(Rsp(i), u) = Number(Req(i), s)
      <4>1. Number(Rsp(i), <<Fails(Null)>>)
               = IF <<Role(Fails(Null)), Fails(Null).id>> \in Rsp(i) THEN 1 ELSE 0
        BY <3>3, NumberSingle
      <4>2. <<Role(Fails(Null)), Fails(Null).id>> \notin Rsp(i)
        BY <3>2, <3>5 DEF Rsp, Asking
      <4> QED
        BY <2>2, <3>4, <4>1, <4>2
    <3>6. HandleLine(p) = <<Line(Fails(Null))>>
      BY <1>7, <2>4 DEF HandleLine
    <3> QED
      BY <1>6, <3>1, <3>4, <3>5, <3>6
  <2> QED
    BY <2>3, <2>4
<1>8. CASE p.json /\ r = <<>>
  <2>1. HandleLine(p) = <<>>
    BY <1>3, <1>8, FixtureLinesAssumption DEF HandleLine
  <2>2. \A i \in Asking : Number(Req(i), s) = 0
    BY <1>4, <1>8, NumberEmpty
  <2> QED
    BY <1>5, <2>1, <2>2
<1>9. CASE p.json /\ r # <<>>
  <2>1. p \notin Blank
    BY <1>9, FixtureLinesAssumption
  <2>2. CASE p.batch
    <3>1. HandleLine(p) = <<Batch(r)>> /\ Batch(r).items = r
      BY <1>3, <1>9, <2>1, <2>2 DEF HandleLine, Batch
    <3> QED
      BY <1>4, <1>6, <3>1
  <2>3. CASE ~p.batch
    <3>1. PICK e \in AnyItem : s = <<e>>
      <4>1. Len(s) = 1
        BY <1>1, <1>9, <2>3, FixtureLinesAssumption
      <4>2. s[1] \in AnyItem /\ s = <<s[1]>>
        BY <4>1, ElementOfSeq
      <4> QED
        BY <4>2
    <3>2. r = HandleMessage(e)
      <4>1. FlatMap(ItemReplies, <<e>>) = ItemReplies[e]
        BY ItemRepliesType, FlatMapOne
      <4> QED
        BY <1>2, <3>1, <4>1 DEF ItemReplies
    <3>3. PICK v \in Response : r = <<v>>
      BY <1>9, <3>2, MessageReplies
    <3>4. HandleLine(p) = <<Line(r[1])>> /\ Line(r[1]).items = <<r[1]>>
      BY <1>3, <1>9, <2>1, <2>3 DEF HandleLine, Line
    <3>5. <<r[1]>> = r
      BY <3>3
    <3> QED
      BY <1>4, <1>6, <3>4, <3>5
  <2> QED
    BY <2>2, <2>3
<1> QED
  BY <1>7, <1>8, <1>9

(* Lines that ask under no id twice, and their answers.                    *)
AskingLines == {p \in ClientLines : \A i \in Asking : Asked(i, <<p>>) <= 1}

AnswerLines ==
    {q \in Payloads : AnswersOnly(q) /\ \A i \in Asking : Answered(i, <<q>>) <= 1}

HandledLines == [p \in AskingLines |-> HandleLine(p)]

(* A line counts for no more than the lines it is in.                      *)
LEMMA CountOfPart ==
    ASSUME NEW sort, NEW s \in Seq(Payloads), NEW k \in DOMAIN s
    PROVE  Count(sort, <<s[k]>>) <= Count(sort, s)
<1> DEFINE Part(t) == \A j \in DOMAIN t : Count(sort, <<t[j]>>) <= Count(sort, t)
<1> DEFINE Q == {t \in Seq(Payloads) : Part(t)}
<1>1. <<>> \in Q
  BY EmptySeq
<1>2. ASSUME NEW t \in Seq(Payloads), NEW p \in Payloads, t \in Q
      PROVE  Append(t, p) \in Q
  <2>1. PICK l \in Seq(Payloads), u \in Seq(Payloads) :
           l = <<p>> /\ u = Append(t, p) /\ Count(sort, u) = Count(sort, t) + Count(sort, l)
    <3>1. <<p>> \in Seq(Payloads) /\ Append(t, p) \in Seq(Payloads)
      BY AppendIsCat, AppendProperties
    <3> QED
      BY <3>1, CountAppend
  <2>2. Count(sort, t) \in Nat /\ Count(sort, l) \in Nat
    BY CountType
  <2>3. ASSUME NEW j \in DOMAIN u PROVE Count(sort, <<u[j]>>) <= Count(sort, u)
    <3>1. CASE u[j] = p
      BY <2>1, <2>2, <3>1
    <3>2. CASE u[j] # p
      <4>1. j \in DOMAIN t /\ u[j] = t[j]
        BY <2>1, <2>3, <3>2, AppendProperties, LenProperties
      <4>2. Count(sort, <<t[j]>>) <= Count(sort, t)
        BY <1>2, <4>1
      <4>3. t[j] \in Payloads
        BY <4>1, ElementOfSeq, LenProperties
      <4>4. Count(sort, <<t[j]>>) \in Nat
        <5>1. <<t[j]>> \in Seq(Payloads)
          BY <4>3
        <5> QED
          BY <5>1, CountType
      <4> QED
        BY <2>1, <2>2, <4>1, <4>2, <4>4
    <3> QED
      BY <3>1, <3>2
  <2> QED
    BY <2>1, <2>3
<1> HIDE DEF Q
<1>3. \A t \in Seq(Payloads) : t \in Q
  BY <1>1, <1>2, SequenceInduction
<1> QED
  BY <1>3 DEF Q

LEMMA LinesOfClient ==
    /\ AskingLines \subseteq Payloads /\ AnswerLines \subseteq Payloads
    /\ Seq(AskingLines) \subseteq Seq(Payloads) /\ Seq(AnswerLines) \subseteq Seq(Payloads)
<1>1. AskingLines \subseteq Payloads /\ AnswerLines \subseteq Payloads
  BY FixtureSessionAssumption DEF AskingLines, AnswerLines
<1> QED
  BY <1>1, SeqMonotonic

LEMMA HandledLinesType == HandledLines \in [AskingLines -> Seq(AnswerLines)]
<1>1. ASSUME NEW p \in AskingLines PROVE HandleLine(p) \in Seq(AnswerLines)
  <2>1. p \in ClientLines /\ \A i \in Asking : Asked(i, <<p>>) <= 1
    BY DEF AskingLines
  <2>2. PICK s \in Seq(Payloads) : s = HandleLine(p) /\ LineReplies(p, s)
    BY <2>1, LineIsReplied
  <2>3. ASSUME NEW k \in DOMAIN s PROVE s[k] \in AnswerLines
    <3>1. s[k] \in Payloads /\ AnswersOnly(s[k])
      BY <2>2, ElementOfSeq, LenProperties DEF LineReplies
    <3>2. ASSUME NEW i \in Asking PROVE Answered(i, <<s[k]>>) <= 1
      <4>1. Answered(i, <<s[k]>>) <= Answered(i, s)
        BY CountOfPart DEF Answered
      <4>2. Answered(i, s) <= 1
        BY <2>1, <2>2 DEF LineReplies
      <4>3. <<s[k]>> \in Seq(Payloads)
        BY <3>1
      <4>4. Answered(i, <<s[k]>>) \in Nat /\ Answered(i, s) \in Nat
        BY <4>3, CountsOfLines
      <4> QED
        BY <4>1, <4>2, <4>4
    <3> QED
      BY <3>1, <3>2 DEF AnswerLines
  <2>4. Len(s) \in Nat /\ DOMAIN s = 1..Len(s) /\ s = [k \in 1..Len(s) |-> s[k]]
    BY LenProperties
  <2>5. s \in Seq(AnswerLines)
    BY <2>3, <2>4, IsASeq
  <2> QED
    BY <2>2, <2>5
<1> QED
  BY <1>1 DEF HandledLines

(* What the fixture owes to the lines s.                                   *)
LEMMA RepliesType ==
    ASSUME NEW s \in Seq(AskingLines)
    PROVE  Replies(s) = FlatMap(HandledLines, s) /\ Replies(s) \in Seq(AnswerLines)
<1>1. \A k \in DOMAIN s : s[k] \in AskingLines
  BY ElementOfSeq, LenProperties
<1>2. [k \in DOMAIN s |-> HandleLine(s[k])] = [k \in DOMAIN s |-> HandledLines[s[k]]]
  BY <1>1 DEF HandledLines
<1>3. Replies(s) = FlatMap(HandledLines, s)
  BY <1>2 DEF Replies, FlatMap, Images
<1> QED
  BY <1>3, HandledLinesType, FlatMapType

(* More lines are owed the same answers, and more.                         *)
LEMMA RepliesGrow ==
    ASSUME NEW s \in Seq(AskingLines), NEW t \in Seq(AskingLines), IsPrefix(s, t)
    PROVE  IsPrefix(Replies(s), Replies(t))
<1>1. PICK u \in Seq(AskingLines) : t = Cat(s, u)
  BY PrefixIsCat
<1>2. PICK x \in Seq(AnswerLines), y \in Seq(AnswerLines) : x = Replies(s) /\ y = Replies(u)
  BY RepliesType
<1>3. Replies(t) = Cat(x, y)
  <2>1. \A r \in Seq(AskingLines) :
           FlatMap(HandledLines, Cat(s, r)) = Cat(FlatMap(HandledLines, s), FlatMap(HandledLines, r))
    BY HandledLinesType, FlatMapCat
  <2> QED
    BY <1>1, <1>2, <2>1, RepliesType
<1> QED
  BY <1>2, <1>3, PrefixOfConcat DEF Cat

(* Each request is answered once.                                          *)
LEMMA RepliesAnswerAll ==
    \A s \in Seq(AskingLines) : \A i \in Asking : Answered(i, Replies(s)) = Asked(i, s)
<1> DEFINE Same(s) == \A i \in Asking : Answered(i, Replies(s)) = Asked(i, s)
<1> DEFINE Q == {s \in Seq(AskingLines) : Same(s)}
<1>1. <<>> \in Q
  <2>1. PICK z \in Seq(AskingLines) : z = <<>>
    BY EmptySeq
  <2>2. Replies(z) = <<>>
    BY <2>1, RepliesType, FlatMapEmpty
  <2> QED
    BY <2>1, <2>2, CountsInitially
<1>2. ASSUME NEW s \in Seq(AskingLines), NEW p \in AskingLines, s \in Q
      PROVE  Append(s, p) \in Q
  <2>1. PICK t \in Seq(AskingLines) : t = Append(s, p)
    BY AppendProperties
  <2>2. PICK x \in Seq(Payloads), y \in Seq(Payloads) : x = Replies(s) /\ y = HandleLine(p)
    BY RepliesType, LinesOfClient, LineIsReplied DEF AskingLines
  <2>3. Replies(t) = Cat(x, y)
    <3>1. FlatMap(HandledLines, Append(s, p)) = Cat(FlatMap(HandledLines, s), HandledLines[p])
      BY HandledLinesType, FlatMapAppend
    <3> QED
      BY <2>1, <2>2, <3>1, RepliesType DEF HandledLines
  <2>4. ASSUME NEW i \in Asking PROVE Answered(i, Replies(t)) = Asked(i, t)
    <3>1. Answered(i, Cat(x, y)) = Answered(i, x) + Answered(i, y)
      BY CountCat DEF Answered
    <3>2. Asked(i, t) = Asked(i, s) + Asked(i, <<p>>)
      BY <2>1, LinesOfClient, CountsOfLines
    <3>3. Answered(i, x) = Asked(i, s) /\ Answered(i, y) = Asked(i, <<p>>)
      BY <1>2, <2>2, LineIsReplied DEF AskingLines, LineReplies
    <3> QED
      BY <2>3, <3>1, <3>2, <3>3
  <2> QED
    BY <2>1, <2>4
<1> HIDE DEF Q
<1>3. \A s \in Seq(AskingLines) : s \in Q
  BY <1>1, <1>2, SequenceInduction
<1> QED
  BY <1>3 DEF Q

(* What is part of sequences whose elements are in S.                      *)
LEMMA PrefixWithin ==
    ASSUME NEW S, NEW T, NEW s \in Seq(T), NEW t \in Seq(S), IsPrefix(s, t)
    PROVE  s \in Seq(S)
<1>1. PICK m \in Nat, n \in Nat : m = Len(s) /\ n = Len(t) /\ m <= n
  BY LenProperties DEF IsPrefix
<1>2. SubSeq(t, 1, m) \in Seq(S)
  BY <1>1, SubSeqPlaces
<1>3. s = SubSeq(t, 1, m)
  <2>1. SubSeq(s, 1, m) = s
    BY <1>1, SubSeqFull
  <2> QED
    BY <1>1, <2>1 DEF IsPrefix
<1> QED
  BY <1>2, <1>3

LEMMA PrefixWhole ==
    ASSUME NEW S, NEW s \in Seq(S), NEW t \in Seq(S), IsPrefix(s, t), Len(s) = Len(t)
    PROVE  s = t
<1>1. SubSeq(s, 1, Len(s)) = s /\ SubSeq(t, 1, Len(t)) = t
  BY SubSeqFull
<1> QED
  BY <1>1 DEF IsPrefix

(* A prefix that is not all of it, and the element behind it.              *)
LEMMA PrefixGoesOn ==
    ASSUME NEW S, NEW s \in Seq(S), NEW t \in Seq(S), IsPrefix(s, t), Len(s) # Len(t)
    PROVE  t[Len(s) + 1] \in S /\ IsPrefix(Append(s, t[Len(s) + 1]), t)
<1>1. PICK m \in Nat, n \in Nat : m = Len(s) /\ n = Len(t) /\ m <= n /\ m # n
  BY LenProperties DEF IsPrefix
<1>2. PICK e \in S : e = t[m + 1]
  <2>1. m + 1 \in 1..n
    BY <1>1
  <2> QED
    BY <1>1, <2>1, ElementOfSeq
<1>3. PICK u \in Seq(S) : u = Append(s, e) /\ Len(u) = m + 1 /\ u[m + 1] = e
                          /\ \A k \in 1..m : u[k] = s[k]
  <2>1. /\ Append(s, e) \in Seq(S) /\ Len(Append(s, e)) = m + 1
        /\ Append(s, e)[m + 1] = e /\ \A k \in 1..m : Append(s, e)[k] = s[k]
    BY <1>1, AppendProperties
  <2> QED
    BY <2>1
<1>4. \A k \in 1..m : s[k] = t[k]
  <2>1. SubSeq(s, 1, m) = SubSeq(t, 1, m)
    BY <1>1 DEF IsPrefix
  <2>2. /\ \A k \in 1..m : SubSeq(s, 1, m)[k] = s[1 + k - 1]
        /\ \A k \in 1..m : SubSeq(t, 1, m)[k] = t[1 + k - 1]
    BY <1>1, SubSeqProperties
  <2> QED
    BY <2>1, <2>2
<1>5. PICK v \in Seq(S) : v = SubSeq(t, 1, m + 1) /\ FirstOf(v, t, m + 1)
  <2>1. m + 1 \in 0..Len(t)
    BY <1>1
  <2> QED
    BY <2>1, SubSeqPlaces
<1>6. Len(v) = m + 1 /\ \A k \in 1..(m + 1) : v[k] = t[k]
  BY <1>5 DEF FirstOf
<1>7. u = v
  <2>1. \A k \in 1..(m + 1) : u[k] = v[k]
    <3> TAKE k \in 1..(m + 1)
    <3>1. k \in 1..m \/ k = m + 1
      BY <1>1
    <3> QED
      BY <1>2, <1>3, <1>4, <1>6, <3>1
  <2> QED
    BY <1>3, <1>6, <2>1, SeqEqual
<1>8. SubSeq(u, 1, m + 1) = u /\ m + 1 <= n
  BY <1>1, <1>3, SubSeqFull
<1> QED
  BY <1>1, <1>2, <1>3, <1>5, <1>7, <1>8 DEF IsPrefix

(* What the fixture has written is what it owes, or the first of it, and   *)
(* it has asked nothing.                                                   *)
FixtureOK ==
    /\ log["c2s"] \in Seq(AskingLines)
    /\ IsPrefix(log["s2c"], Owed)
    /\ AllAsked(log["s2c"]) = 0

LEMMA AnswersAskNothing ==
    ASSUME NEW q \in AnswerLines
    PROVE  AllAsked(<<q>>) = 0 /\ \A i : Asked(i, <<q>>) = 0
<1>1. PICK s \in Seq(AnyItem) : s = q.items
  BY StdioSessionAssumption DEF AnswerLines, AnyPayload
<1>2. ASSUME NEW sort, \A x \in sort : x[1] = "call"
      PROVE  Count(sort, <<q>>) = 0
  <2>1. \A k \in DOMAIN s : <<Role(s[k]), s[k].id>> \notin sort
    BY <1>1, <1>2 DEF AnswerLines, AnswersOnly
  <2>2. Number(sort, s) = 0
    BY <2>1, NumberNone
  <2> QED
    BY <1>1, <2>2, CountOne DEF AnswerLines
<1>3. \A x \in {"call"} \X Asking : x[1] = "call"
  OBVIOUS
<1>4. \A i : \A x \in {<<"call", i>>} : x[1] = "call"
  OBVIOUS
<1> QED
  BY <1>2, <1>3, <1>4 DEF AllAsked, Asked

(* What is owed, and what is written of it.                                *)
LEMMA OwedType ==
    ASSUME TypeOK, DirectionOK("c2s"), FixtureOK
    PROVE  /\ got["c2s"] \in Seq(AskingLines)
           /\ Owed \in Seq(AnswerLines) /\ log["s2c"] \in Seq(AnswerLines)
<1>1. "c2s" \in Directions /\ "s2c" \in Directions
  BY DEF Directions
<1>2. got["c2s"] \in Seq(AskingLines)
  BY <1>1, PrefixWithin DEF TypeOK, DirectionOK, FixtureOK
<1>3. Owed \in Seq(AnswerLines)
  BY <1>2, RepliesType DEF Owed
<1>4. log["s2c"] \in Seq(AnswerLines)
  BY <1>1, <1>3, PrefixWithin DEF TypeOK, FixtureOK
<1> QED
  BY <1>2, <1>3, <1>4

(* The next answer may be given: its requests are read and not answered.   *)
LEMMA NextAnswerIsLegal ==
    ASSUME TypeOK, DirectionOK("c2s"), FixtureOK, ~AllWritten,
           NEW p, p = Owed[Len(log["s2c"]) + 1]
    PROVE  /\ p \in AnswerLines /\ Legal("s2c", p)
           /\ IsPrefix(Append(log["s2c"], p), Owed)
           /\ AllAsked(Append(log["s2c"], p)) = 0
<1>1. PICK y \in Seq(AnswerLines), z \in Seq(AnswerLines), g \in Seq(AskingLines) :
         /\ y = log["s2c"] /\ z = Owed /\ g = got["c2s"] /\ z = Replies(g)
         /\ y \in Seq(Payloads) /\ z \in Seq(Payloads)
  BY OwedType, LinesOfClient DEF Owed
<1>2. p \in AnswerLines /\ IsPrefix(Append(y, p), z)
  BY <1>1, PrefixGoesOn DEF FixtureOK, AllWritten
<1>3. p \in Payloads /\ Append(y, p) \in Seq(Payloads)
  <2>1. p \in Payloads
    BY <1>2, LinesOfClient
  <2> QED
    BY <1>1, <2>1, AppendProperties
<1>4. AllAsked(Append(y, p)) = 0
  <2>1. AllAsked(Append(y, p)) = AllAsked(y) + AllAsked(<<p>>)
    BY <1>1, <1>3, CountAppend DEF AllAsked
  <2>2. AllAsked(y) = 0 /\ AllAsked(<<p>>) = 0
    BY <1>1, <1>2, AnswersAskNothing DEF FixtureOK
  <2> QED
    BY <2>1, <2>2
<1>5. ASSUME NEW i \in Asking
      PROVE  Answered(i, <<p>>) <= (IF MayAnswer("s2c", i) THEN 1 ELSE 0)
  <2>1. MayAnswer("s2c", i) <=> Answered(i, y) < Asked(i, g)
    BY <1>1 DEF MayAnswer, Opposite
  <2>2. Answered(i, y) + Answered(i, <<p>>) <= Asked(i, g)
    <3>1. Answered(i, Append(y, p)) <= Answered(i, z)
      BY <1>1, <1>2, <1>3, CountsGrow
    <3>2. Answered(i, z) = Asked(i, g)
      BY <1>1, <1>5, RepliesAnswerAll
    <3>3. Answered(i, Append(y, p)) = Answered(i, y) + Answered(i, <<p>>)
      BY <1>1, <1>3, CountsOfLines
    <3> QED
      BY <3>1, <3>2, <3>3
  <2>3. Answered(i, <<p>>) <= 1
    BY <1>2, <1>5 DEF AnswerLines
  <2>4. Answered(i, y) \in Nat /\ Answered(i, <<p>>) \in Nat /\ Asked(i, g) \in Nat
    <3>1. <<p>> \in Seq(Payloads) /\ g \in Seq(Payloads)
      BY <1>3, LinesOfClient
    <3> QED
      BY <1>1, <3>1, CountsOfLines
  <2> QED
    BY <2>1, <2>2, <2>3, <2>4
<1>6. ASSUME NEW i \in Asking
      PROVE  Asked(i, <<p>>) <= (IF MayAsk("s2c", i) THEN 1 ELSE 0)
  <2>1. Asked(i, <<p>>) = 0
    BY <1>2, AnswersAskNothing
  <2> QED
    BY <2>1
<1>7. AllAsked(Append(y, p)) <= MaxAsks["s2c"]
  <2>1. MaxAsks["s2c"] \in Nat
    BY StdioSessionAssumption DEF Directions
  <2> QED
    BY <1>4, <2>1
<1>8. Legal("s2c", p)
  BY <1>1, <1>2, <1>5, <1>6, <1>7, AnswersAskNothing DEF Legal
<1> QED
  BY <1>1, <1>2, <1>4, <1>8

LEMMA FixtureStep ==
    ASSUME TypeOK, DirectionOK("c2s"), FixtureOK, [FixtureNext]_vars
    PROVE  [SessionNext]_vars
<1>1. ASSUME Client PROVE Talk
  BY <1>1, FixtureSessionAssumption DEF Client, Talk, Says
<1>2. ASSUME FixtureReads PROVE Talk
  BY <1>2 DEF FixtureReads, Talk
<1>3. ASSUME FixtureWrites PROVE Talk
  <2>1. PICK p : p = Owed[Len(log["s2c"]) + 1] /\ Emit("s2c", p)
    BY <1>3 DEF FixtureWrites
  <2>2. p \in Payloads /\ Legal("s2c", p)
    BY <1>3, <2>1, NextAnswerIsLegal, LinesOfClient DEF FixtureWrites
  <2> QED
    BY <2>1, <2>2 DEF Talk, Says
<1>4. ASSUME FixtureExits PROVE Talk
  <2>1. log["s2c"] = Owed
    BY <1>4, OwedType, PrefixWhole DEF FixtureExits, AllWritten, FixtureOK
  <2>2. ASSUME NEW i \in Asking PROVE ~MayAnswer("s2c", i)
    <3>1. Answered(i, Owed) = Asked(i, got["c2s"])
      BY <2>2, OwedType, RepliesAnswerAll DEF Owed
    <3>2. Asked(i, got["c2s"]) \in Nat
      BY OwedType, LinesOfClient, CountsOfLines
    <3> QED
      BY <2>1, <3>1, <3>2 DEF MayAnswer, Opposite
  <2> QED
    BY <1>4, <2>2 DEF FixtureExits, ServerExit, ServerDone, Talk
<1> QED
  BY <1>1, <1>2, <1>3, <1>4 DEF FixtureNext, Fixture, SessionNext

LEMMA FixtureStepKeeps ==
    ASSUME TypeOK, TypeOK', DirectionOK("c2s"), DirectionOK("c2s")', FixtureOK,
           [FixtureNext]_vars
    PROVE  FixtureOK'
<1>1. "c2s" \in Directions /\ "s2c" \in Directions /\ "c2s" # "s2c"
  BY DEF Directions
<1>2. CASE UNCHANGED <<log, got>>
  BY <1>2 DEF FixtureOK, Owed
<1>3. ASSUME NEW p \in ClientLines, Emit("c2s", p), Legal("c2s", p)
      PROVE  FixtureOK'
  <2>1. got' = got /\ log'["c2s"] = Append(log["c2s"], p) /\ log'["s2c"] = log["s2c"]
    BY <1>1, <1>3 DEF Emit, TypeOK
  <2>2. p \in AskingLines
    <3>1. ASSUME NEW i \in Asking PROVE Asked(i, <<p>>) <= 1
      <4>1. Asked(i, <<p>>) <= (IF MayAsk("c2s", i) THEN 1 ELSE 0)
        BY <1>3 DEF Legal
      <4>2. Asked(i, <<p>>) \in Nat
        <5>1. <<p>> \in Seq(Payloads)
          BY FixtureSessionAssumption
        <5> QED
          BY <5>1, CountsOfLines
      <4> QED
        BY <4>1, <4>2
    <3> QED
      BY <3>1 DEF AskingLines
  <2>3. log'["c2s"] \in Seq(AskingLines)
    BY <2>1, <2>2, AppendProperties DEF FixtureOK
  <2> QED
    BY <2>1, <2>3 DEF FixtureOK, Owed
<1>4. ASSUME NEW d \in Directions, Consume(d) PROVE FixtureOK'
  <2>1. PICK p \in Payloads : /\ log' = log /\ got'[d] = Append(got[d], p)
                              /\ \A e \in Directions : e # d => got'[e] = got[e]
    BY <1>4, HeadTailProperties DEF Consume, TypeOK
  <2>2. CASE d = "s2c"
    BY <1>1, <2>1, <2>2 DEF FixtureOK, Owed
  <2>3. CASE d = "c2s"
    <3>1. PICK g \in Seq(AskingLines), h \in Seq(AskingLines) :
             g = got["c2s"] /\ h = got'["c2s"]
      <4>1. got'["c2s"] \in Seq(AskingLines)
        <5>1. IsPrefix(got'["c2s"], log'["c2s"]) /\ got'["c2s"] \in Seq(Payloads)
          BY <1>1 DEF DirectionOK, TypeOK
        <5>2. log'["c2s"] \in Seq(AskingLines)
          BY <2>1 DEF FixtureOK
        <5> QED
          BY <5>1, <5>2, PrefixWithin
      <4> QED
        BY <4>1, OwedType
    <3>2. IsPrefix(g, h)
      <4>1. PICK l \in Seq(Payloads) : h = Cat(g, l)
        <5>1. g \in Seq(Payloads) /\ h = Append(g, p)
          BY <2>1, <2>3, <3>1, LinesOfClient
        <5>2. Append(g, p) = Cat(g, <<p>>) /\ <<p>> \in Seq(Payloads)
          BY <5>1, AppendIsCat
        <5> QED
          BY <5>1, <5>2
      <4> QED
        BY <3>1, <4>1, LinesOfClient, PrefixOfConcat DEF Cat
    <3>3. PICK y \in Seq(AnswerLines), z \in Seq(AnswerLines), w \in Seq(AnswerLines) :
             y = log["s2c"] /\ z = Replies(g) /\ w = Replies(h)
      BY OwedType, RepliesType
    <3>4. IsPrefix(y, z) /\ IsPrefix(z, w)
      BY <3>1, <3>2, <3>3, RepliesGrow DEF FixtureOK, Owed
    <3>5. IsPrefix(y, w)
      BY <3>4, PrefixTransitive
    <3> QED
      BY <2>1, <3>1, <3>3, <3>5 DEF FixtureOK, Owed
  <2> QED
    BY <2>2, <2>3 DEF Directions
<1>5. ASSUME FixtureWrites PROVE FixtureOK'
  <2>1. PICK p : p = Owed[Len(log["s2c"]) + 1] /\ Emit("s2c", p)
    BY <1>5 DEF FixtureWrites
  <2>2. /\ got' = got /\ log'["s2c"] = Append(log["s2c"], p)
        /\ log'["c2s"] = log["c2s"]
    BY <1>1, <2>1 DEF Emit, TypeOK
  <2>3. /\ IsPrefix(Append(log["s2c"], p), Owed)
        /\ AllAsked(Append(log["s2c"], p)) = 0
    BY <1>5, <2>1, NextAnswerIsLegal DEF FixtureWrites
  <2> QED
    BY <2>2, <2>3 DEF FixtureOK, Owed
<1>6. ASSUME ClientCloses \/ FixtureExits PROVE UNCHANGED <<log, got>>
  BY <1>6 DEF ClientCloses, CloseSource, FixtureExits, ChildExit
<1>7. ASSUME ClientThread \/ MainThread \/ Observe \/ Over PROVE UNCHANGED <<log, got>>
  BY <1>7 DEF ClientThread, MainThread, Relay, WindDown, Observe, Over,
     ReadLine, ReadEof, SendFrame, WriteLine, WriteError, WaitChild, ReapClient,
     SendShutdown, RecvAck, JoinObserver, ObserveFrame, ObserveShutdown,
     ObserverPanic, vars, peerVars
<1>8. UNCHANGED vars => UNCHANGED <<log, got>>
  BY DEF vars, peerVars
<1>9. FixtureReads => Consume("c2s")
  BY DEF FixtureReads
<1> QED
  BY <1>1, <1>2, <1>3, <1>4, <1>5, <1>6, <1>7, <1>8, <1>9 DEF FixtureNext, Fixture, Client

LEMMA FixtureInitially ==
    ASSUME Init
    PROVE  FixtureOK
<1>1. PICK z \in Seq(AskingLines) : z = <<>>
  BY EmptySeq
<1>2. log["c2s"] = z /\ got["c2s"] = z /\ log["s2c"] = <<>>
  BY <1>1 DEF Init, Directions
<1>3. Owed = <<>>
  BY <1>1, <1>2, RepliesType, FlatMapEmpty DEF Owed
<1>4. IsPrefix(<<>>, <<>>)
  BY DEF IsPrefix
<1>5. AllAsked(<<>>) = 0
  BY CountEmpty DEF AllAsked
<1> QED
  BY <1>2, <1>3, <1>4, <1>5 DEF FixtureOK

(* The fixture is a server as StdioSession supposes it, whatever its       *)
(* client asks and whatever fails in the proxy: it answers what it has     *)
(* read, each request once, and exits only when it owes nothing.  (That it *)
(* answers and exits at all is for TLC.)  It is run of fixture.rs.         *)
THEOREM FixtureIsServer == FixtureSpec => SessionSpec
<1> DEFINE Inv == TypeOK /\ (\A d \in Directions : DirectionOK(d)) /\ FixtureOK
<1>1. Init => Inv
  BY SessionInitially, FixtureInitially DEF SessionInv
<1>2. Inv /\ [FixtureNext]_vars => Inv' /\ [SessionNext]_vars
  <2> SUFFICES ASSUME Inv, [FixtureNext]_vars PROVE Inv' /\ [SessionNext]_vars
    OBVIOUS
  <2>1. "c2s" \in Directions
    BY DEF Directions
  <2>2. [SessionNext]_vars /\ [Next]_vars
    BY <2>1, FixtureStep, SessionStep
  <2>3. TypeOK'
    BY <2>2, StepKeepsTypes
  <2>4. \A d \in Directions : DirectionOK(d)'
    BY <2>2, <2>3, StepKeepsOrder
  <2> QED
    BY <2>1, <2>2, <2>3, <2>4, FixtureStepKeeps
<1> QED
  BY <1>1, <1>2, PTL DEF FixtureSpec, SessionSpec

(* Lines of the client, and answers to them: all, or the first of them.    *)
AnswerPairs ==
    {r \in Seq(AskingLines) \X Seq(Payloads) : IsPrefix(r[2], Replies(r[1]))}

PairAnswers == obs = "up" => <<Measured("c2s"), Measured("s2c")>> \in AnswerPairs

LEMMA MeasuredAnswers == SessionInv /\ FixtureOK => PairAnswers
<1> SUFFICES ASSUME SessionInv, FixtureOK, obs = "up"
             PROVE  <<Measured("c2s"), Measured("s2c")>> \in AnswerPairs
  BY DEF PairAnswers
<1>1. /\ TypeOK /\ TraceTyped /\ "c2s" \in Directions /\ "s2c" \in Directions
      /\ \A d \in Directions : DirectionOK(d) /\ MeasuredOK(d)
  BY RecordedTypes DEF SessionInv, Directions
<1>2. PICK x \in Seq(AskingLines), m \in Seq(Payloads), g \in Seq(AskingLines),
           y \in Seq(Payloads), r \in Seq(Payloads) :
         /\ x = log["c2s"] /\ m = Measured("c2s") /\ g = got["c2s"]
         /\ y = log["s2c"] /\ r = Measured("s2c")
  BY <1>1, OwedType, ObservedTypes DEF TypeOK, FixtureOK
<1>3. IsPrefix(g, m) /\ IsPrefix(m, x) /\ IsPrefix(r, y)
  BY <1>1, <1>2, MeasuredBetween
<1>4. PICK n \in Seq(AskingLines) : n = m
  BY <1>2, <1>3, PrefixWithin
<1>5. PICK z \in Seq(Payloads), w \in Seq(Payloads) : z = Replies(g) /\ w = Replies(n)
  BY RepliesType, LinesOfClient
<1>6. IsPrefix(y, z) /\ IsPrefix(z, w)
  <2>1. IsPrefix(y, z)
    BY <1>2, <1>5 DEF FixtureOK, Owed
  <2>2. IsPrefix(g, n)
    BY <1>3, <1>4
  <2> QED
    BY <1>5, <2>1, <2>2, RepliesGrow
<1>7. IsPrefix(r, w)
  <2>1. IsPrefix(r, z)
    BY <1>3, <1>6, PrefixTransitive
  <2> QED
    BY <1>6, <2>1, PrefixTransitive
<1>8. <<n, r>> \in Seq(AskingLines) \X Seq(Payloads)
  OBVIOUS
<1> QED
  BY <1>2, <1>4, <1>5, <1>7, <1>8 DEF AnswerPairs

LEMMA TracesAnswer ==
    ASSUME TracesOK, TurnsOK(AnswerPairs)
    PROVE  AnswersFollow
<1>1. Len(trace) \in 0..Len(trace)
  <2>1. Len(trace) \in Nat
    BY LenProperties DEF TracesOK
  <2> QED
    BY <2>1
<1>2. <<Before(trace, Len(trace), "c2s"), Before(trace, Len(trace), "s2c")>> \in AnswerPairs
  BY <1>1 DEF TurnsOK, Turns
<1>3. /\ Before(trace, Len(trace), "c2s") = PayloadsOf("c2s", trace)
      /\ Before(trace, Len(trace), "s2c") = PayloadsOf("s2c", trace)
  BY BeforeWhole DEF TracesOK
<1> QED
  BY <1>2, <1>3 DEF AnswerPairs, AnswersFollow

(* The trace of a session with the fixture tells of no answer before what  *)
(* it answers, although two threads and an observer are between the        *)
(* fixture and the trace: each line is sent to the observer before it is   *)
(* written to the peer that will act on it.                                *)
THEOREM AnswersAlwaysFollow ==
    ASSUME "write" \notin Faults
    PROVE  FixtureSpec => []AnswersFollow
<1> DEFINE Inv == FixtureOK /\ TurnsOK(AnswerPairs)
<1>1. Init => Inv
  <2> SUFFICES ASSUME Init PROVE Inv
    OBVIOUS
  <2>1. FixtureOK
    BY FixtureInitially
  <2>2. PICK z \in Seq(AskingLines), y \in Seq(Payloads) : z = <<>> /\ y = <<>>
    BY EmptySeq
  <2>3. Replies(z) = <<>> /\ IsPrefix(<<>>, <<>>)
    <3>1. Replies(z) = <<>>
      BY <2>2, RepliesType, FlatMapEmpty
    <3>2. IsPrefix(<<>>, <<>>)
      BY DEF IsPrefix
    <3> QED
      BY <3>1, <3>2
  <2>4. <<z, y>> \in AnswerPairs
    BY <2>2, <2>3 DEF AnswerPairs
  <2>5. trace = <<>> /\ Recorded = <<>>
    <3>1. <<>> \in Seq({})
      BY EmptySeq
    <3> QED
      BY <3>1, ConcatEmptySeq DEF Init, Recorded
  <2> QED
    BY <2>1, <2>2, <2>4, <2>5, TurnsInitially DEF TurnsOK
<1>2. SessionInv /\ SessionInv' /\ Inv /\ [FixtureNext]_vars => Inv'
  <2> SUFFICES ASSUME SessionInv, SessionInv', Inv, [FixtureNext]_vars PROVE Inv'
    OBVIOUS
  <2>1. /\ TypeOK /\ TypeOK' /\ TracesOK /\ "c2s" \in Directions
        /\ \A d \in Directions : DirectionOK(d) /\ DirectionOK(d)'
    BY DEF SessionInv, Directions
  <2>2. FixtureOK' /\ [Next]_vars
    BY <2>1, FixtureStepKeeps, FixtureStep, SessionStep
  <2>3. PairAnswers'
    BY <2>2, MeasuredAnswers, PTL
  <2>4. TurnsOK(AnswerPairs)'
    BY <2>1, <2>2, <2>3, StepKeepsTurns DEF PairAnswers
  <2> QED
    BY <2>2, <2>4
<1>3. SessionInv /\ Inv => AnswersFollow
  BY TracesAnswer DEF SessionInv
<1> QED
  BY <1>1, <1>2, <1>3, FixtureIsServer, SessionInvariant, PTL DEF FixtureSpec
=============================================================================
