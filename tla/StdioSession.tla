---------------------------- MODULE StdioSession ----------------------------
(***************************************************************************)
(* The stdio proxy between peers that follow JSON-RPC.  A peer does not    *)
(* reuse the id of a request of its own before it has read the answer, it  *)
(* answers a request it has read, and that at most once; both peers use    *)
(* the same ids, and some requests are never answered.  The server exits   *)
(* when its input ends, the client closes that input when it has all its   *)
(* answers, and both read what they are sent.                              *)
(***************************************************************************)
EXTENDS StdioProxy, FiniteSets

CONSTANTS Null,      \* the id null, under which nobody asks
          MaxAsks    \* bound: requests each peer makes in its life

(* Answers are not bounded by themselves: there is always room for one.    *)
ASSUME StdioSessionAssumption ==
    /\ Payloads \subseteq AnyPayload
    /\ \A p \in Payloads : ~p.json => p.items = <<>>
    /\ MaxAsks \in [Directions -> Nat]
    /\ \A d \in Directions : MaxAsks["c2s"] + MaxAsks["s2c"] <= MaxLines[d]

(* An error that cannot name the request it is about has the id null.      *)
Asking == Ids \ {Null}

Opposite(d) == IF d = "c2s" THEN "s2c" ELSE "c2s"

(* A request or notification has a method; a response has a result or an   *)
(* error instead.                                                          *)
Role(item) ==
    CASE item.object /\ item.method # None -> "call"
      [] item.object /\ item.method = None /\ item.body # {} -> "response"
      [] OTHER -> "other"

IsRequest(item, i) == Role(item) = "call" /\ item.id = i

ItemsOf(s) == FlattenSeq([k \in DOMAIN s |-> s[k].items])

(* The number of items in the lines s that have one of these roles and ids.*)
Count(sort, s) ==
    LET items == ItemsOf(s)
    IN  Cardinality({k \in DOMAIN items : <<Role(items[k]), items[k].id>> \in sort})

Asked(i, s) == Count({<<"call", i>>}, s)

Answered(i, s) == Count({<<"response", i>>}, s)

AllAsked(s) == Count({"call"} \X Asking, s)

(* The peer that writes direction d has no request with this id under way. *)
MayAsk(d, i) == Asked(i, log[d]) = Answered(i, got[Opposite(d)])

MayAnswer(d, i) == Answered(i, log[d]) < Asked(i, got[Opposite(d)])

Legal(d, p) ==
    /\ AllAsked(Append(log[d], p)) <= MaxAsks[d]
    /\ Asked(Null, <<p>>) = 0
    /\ \A i \in Asking :
        /\ Asked(i, <<p>>) <= (IF MayAsk(d, i) THEN 1 ELSE 0)
        /\ Answered(i, <<p>>) <= (IF MayAnswer(d, i) THEN 1 ELSE 0)

Says(d) == \E p \in Payloads : Emit(d, p) /\ Legal(d, p)

(* A server that keeps its word: it owes no answer to what it has read.    *)
ServerDone == \A i \in Asking : ~MayAnswer("s2c", i)

ClientDone == \A i \in Asking : MayAsk("c2s", i)

InputEnded == out["c2s"] = <<>> /\ (pc["c2s"] \in {"done", "failed"} \/ ~Running)

ServerExit == InputEnded /\ ServerDone /\ ChildExit

ClientCloses == ClientDone /\ CloseSource("c2s")

Talk == Says("c2s") \/ Says("s2c") \/ ServerExit \/ ClientCloses
            \/ Consume("c2s") \/ Consume("s2c")

SessionNext == ClientThread \/ MainThread \/ Observe \/ Talk \/ Over

SessionSpec == Init /\ [][SessionNext]_vars

Answer == \E p \in Payloads :
             /\ Emit("s2c", p)
             /\ Legal("s2c", p)
             /\ \E i \in Asking : Answered(i, <<p>>) > 0

(* The server answers what it reads and exits at the end of its input.     *)
ServerFairness == WF_vars(Answer) /\ WF_vars(ServerExit)

-----------------------------------------------------------------------------
(* Properties.  They speak of the trace only, as its readers do: an event  *)
(* and its facts against the payloads of the events up to it.              *)

Before(t, k, d) == PayloadsOf(d, SubSeq(t, 1, k))

(* The n-th request of the client with id i, as an event and an item.      *)
IsRequestEvent(t, k, i, n) ==
    /\ t[k].dir = "c2s"
    /\ Asked(i, Before(t, k, "c2s")) = n
    /\ \A j \in 1..k-1 : Asked(i, Before(t, j, "c2s")) < n

RequestEvent(t, i, n) == CHOOSE k \in DOMAIN t : IsRequestEvent(t, k, i, n)

RequestItem(t, i, n) ==
    LET items == t[RequestEvent(t, i, n)].payload.items
    IN  items[CHOOSE m \in DOMAIN items : IsRequest(items[m], i)]

Responds(e, item) ==
    e.dir = "s2c" /\ Role(item) = "response" /\ item.id \in Asking

(* Which request of the client the response `item' of event k is for: its  *)
(* n-th response answers its n-th request, because neither peer reuses an  *)
(* id too early.                                                           *)
AnsweredBy(t, k, item) == Answered(item.id, Before(t, k - 1, "s2c")) + 1

RoundTrip(t, k, item) ==
    IF Responds(t[k], item)
    THEN <<t[k].at - t[RequestEvent(t, item.id, AnsweredBy(t, k, item))].at>>
    ELSE <<>>

RoundTripExact(t, k) ==
    LET items == t[k].payload.items IN
    /\ t[k].facts.latencies =
          FlattenSeq([m \in DOMAIN items |-> RoundTrip(t, k, items[m])])
    /\ \A m \in DOMAIN items :
          Responds(t[k], items[m]) =>
            \E j \in 1..k-1 :
               /\ IsRequestEvent(t, j, items[m].id, AnsweredBy(t, k, items[m]))
               /\ t[j].at < t[k].at

(* Every answer the server gave is credited to the request it answers, the *)
(* round trip being the time between the moments the two lines crossed the *)
(* proxy: reuse of ids, requests of the server under the same ids, batches *)
(* and a slow observer do not disturb it.                                  *)
RoundTripsExact == \A k \in DOMAIN trace : RoundTripExact(trace, k)

ToolOf(item) ==
    IF item.method = "tools/call" /\ item.name # None THEN <<item.name>> ELSE <<>>

(* The tool that an item of event k is about.                              *)
Credit(t, k, item) ==
    IF Role(item) = "call" THEN ToolOf(item)
    ELSE IF Responds(t[k], item)
    THEN ToolOf(RequestItem(t, item.id, AnsweredBy(t, k, item)))
    ELSE <<>>

CreditExact(t, k) ==
    LET items == t[k].payload.items
    IN  t[k].facts.tools =
          FlattenSeq([m \in DOMAIN items |-> Credit(t, k, items[m])])

(* A call of a tool is credited twice, to its request and to its response, *)
(* and to nothing else: the tools of an event are those of its own calls   *)
(* and of the calls it answers, in their order.                            *)
ToolsCredited == \A k \in DOMAIN trace : CreditExact(trace, k)

(* The map of pending requests holds the client's unanswered requests and  *)
(* nothing else, so it does not grow with the length of the session.       *)
PendingIsUnanswered ==
    \A i \in Ids :
        (pending[i] # None) <=>
            /\ i \in Asking
            /\ Asked(i, PayloadsOf("c2s", trace)) > Answered(i, PayloadsOf("s2c", trace))
=============================================================================
