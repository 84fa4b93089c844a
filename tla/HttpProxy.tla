----------------------------- MODULE HttpProxy -----------------------------
(***************************************************************************)
(* The HTTP proxy: src/src/http_proxy.rs, with the clients, the upstream   *)
(* server and the two HTTP libraries (tiny_http, ureq) around it.          *)
(*                                                                         *)
(* Connections are accepted at any time and their requests wait in the     *)
(* order of their numbers; one thread handles them one by one, from the    *)
(* first to the last byte of the answer.  A direct body is a payload (see  *)
(* Observer), None when empty or Oversize when beyond 64 MiB; a stream is  *)
(* made of chunks of the bytes of SseParser, in which a payload is one     *)
(* byte.                                                                   *)
(***************************************************************************)
EXTENDS HttpHeaders, SseParser

CONSTANTS Requests,        \* what clients send: records of target, head, body
          Replies,         \* Replies[q]: what the server may do with request q
          Oversize,
          MaxRequests,     \* bound
          Faults           \* subset of {"client", "upstream", "disk"}

NoReply == [kind |-> "none", head |-> <<>>, body |-> None, chunks |-> <<>>,
            ends |-> TRUE]

AnyByte == {LF, CR, Colon, Space, DataField} \cup AnyPayload

AnyBody == {None, Oversize} \cup AnyPayload

IsHead(head) ==
    /\ head \in Seq(ToSet(head))
    /\ \A h \in ToSet(head) : /\ h = [name |-> h.name, value |-> h.value]
                              /\ h.value # None

ASSUME HttpProxyAssumption ==
    /\ MaxRequests \in Nat
    /\ Faults \subseteq {"client", "upstream", "disk"}
    /\ DOMAIN Replies = Requests
    /\ \A q \in Requests : \A r \in Replies[q] :
          /\ r.kind \in {"error", "direct", "stream"} /\ r.ends \in BOOLEAN
          /\ IsHead(r.head) /\ r.body \in AnyBody
          /\ r.chunks \in Seq(Seq(AnyByte))
    /\ \A q \in Requests : IsHead(q.head) /\ q.body \in AnyBody

VARIABLES exchanges,   \* the requests accepted so far and their answers
          waiting,     \* the numbers of those not yet taken
          gone,        \* the numbers of those whose client has hung up
          pc,          \* the handler: idle, calling, stream or deliver
          current,     \* the number of the request being handled
          up,          \* the upstream's side of it
          parser,      \* of the SSE response being streamed
          pending,
          disk,        \* whether events can be written: "ok" or "full"
          trace,       \* the events written
          clock        \* counts the events observed

httpVars == <<exchanges, waiting, gone, pc, current, up, parser, pending,
              disk, trace, clock>>

NoUpstream == [state |-> "none", left |-> <<>>, ready |-> <<>>]

Statuses == {"waiting", "stream", "done", "413", "502", "dropped", "cut"}

Over == {"done", "413", "502", "dropped", "cut"}

TypeOK ==
    /\ \A n \in DOMAIN exchanges : exchanges[n].status \in Statuses
    /\ Len(exchanges) <= MaxRequests
    /\ \A i \in DOMAIN waiting : exchanges[waiting[i]].status = "waiting"
    /\ gone \subseteq DOMAIN exchanges
    /\ pc \in {"idle", "calling", "stream", "deliver"}
    /\ pc # "idle" <=> up.state # "none"
    /\ pc # "idle" => exchanges[current].status \notin Over
    /\ pc \in {"stream", "deliver"} => exchanges[current].reply.kind = "stream"
    /\ pc = "deliver" => up.ready # <<>>
    /\ pending \in PendingMap
    /\ disk \in {"ok", "full"}
    /\ IF disk = "ok" THEN Len(trace) = clock ELSE Len(trace) <= clock

Init ==
    /\ exchanges = <<>>
    /\ waiting = <<>>
    /\ gone = {}
    /\ pc = "idle"
    /\ current = 0
    /\ up = NoUpstream
    /\ parser = NewParser
    /\ pending = NoPending
    /\ disk = "ok"
    /\ trace = <<>>
    /\ clock = 0

-----------------------------------------------------------------------------
(* Observation.                                                            *)

(* JSON-RPC: every item carries jsonrpc "2.0", here those with a method or *)
(* an id, and there is one.                                                *)
is_json_rpc_payload(p) ==
    /\ p.json
    /\ p.items # <<>>
    /\ \A i \in DOMAIN p.items :
          p.items[i].object /\ (p.items[i].method # None \/ p.items[i].id # None)

(* Each payload is observed in turn, `call' being what Observe was called  *)
(* with; an event that cannot be written is lost, and write_event returns  *)
(* nothing that would tell.                                                *)
ObserveNext(call, seen, p) ==
    LET o == ObservePayloadAt(p, call.dir, seen.pending, call.at + Len(seen.events))
    IN  [events |-> Append(seen.events, [n |-> call.n, event |-> o.event,
                                         routing |-> call.routing]),
         pending |-> o.pending]

Observe(n, payloads, dir, routing) ==
    LET call  == [n |-> n, dir |-> dir, routing |-> routing, at |-> clock]
        start == [events |-> <<>>, pending |-> pending]
        all   == FoldLeft(LAMBDA seen, p : ObserveNext(call, seen, p), start, payloads)
    IN  /\ pending' = all.pending
        /\ clock' = clock + Len(all.events)
        /\ trace' = IF disk = "ok" THEN trace \o all.events ELSE trace
        /\ UNCHANGED disk

ObserveBody(b, dir, routing) ==
    Observe(current', IF b = None THEN <<>> ELSE <<b>>, dir, routing)

(* What a stream's events hold, if each is one payload, with white space   *)
(* around it or none.                                                      *)
JsonRpc(texts) ==
    LET bare == [i \in DOMAIN texts |->
                    Keep(texts[i], ToSet(texts[i]) \ {LF, CR, Space})]
        messages == { text \in ToSet(bare) : /\ Len(text) = 1
                                             /\ text[1] \notin {Colon, DataField}
                                             /\ is_json_rpc_payload(text[1]) }
        kept == Keep(bare, messages)
    IN  [i \in DOMAIN kept |-> kept[i][1]]

-----------------------------------------------------------------------------
(* Clients and upstream.                                                   *)

Send ==
    /\ Len(exchanges) < MaxRequests
    /\ \E q \in Requests :
         exchanges' = Append(exchanges,
             [ask |-> q, sent |-> None, reply |-> NoReply, broken |-> FALSE,
              status |-> "waiting", answered |-> None, got |-> <<>>])
    /\ waiting' = Append(waiting, Len(exchanges'))
    /\ UNCHANGED <<gone, pc, current, up, parser, pending, disk, trace, clock>>

HangUp(n) ==
    /\ "client" \in Faults
    /\ exchanges[n].status \notin Over
    /\ n \notin gone
    /\ gone' = gone \cup {n}
    /\ UNCHANGED <<exchanges, waiting, pc, current, up, parser, pending, disk, trace, clock>>

UpstreamReplies ==
    /\ up.state = "asked"
    /\ \E r \in Replies[exchanges[current].ask] :
         /\ up' = [up EXCEPT !.state = "sending", !.left = r.chunks]
         /\ exchanges' = [exchanges EXCEPT ![current].reply = r]
    /\ UNCHANGED <<waiting, gone, pc, current, parser, pending, disk, trace, clock>>

UpstreamSends ==
    /\ up.state = "sending" /\ up.left # <<>> /\ up.ready = <<>>
    /\ up' = [up EXCEPT !.ready = Head(up.left), !.left = Tail(@)]
    /\ UNCHANGED <<exchanges, waiting, gone, pc, current, parser, pending, disk, trace, clock>>

UpstreamCloses ==
    /\ up.state = "sending" /\ up.left = <<>>
    /\ exchanges[current].reply.ends
    /\ up' = [up EXCEPT !.state = "closed"]
    /\ UNCHANGED <<exchanges, waiting, gone, pc, current, parser, pending, disk, trace, clock>>

UpstreamBreaks ==
    /\ "upstream" \in Faults
    /\ up.state = "sending"
    /\ up' = [up EXCEPT !.state = "broken"]
    /\ exchanges' = [exchanges EXCEPT ![current].broken = TRUE]
    /\ UNCHANGED <<waiting, gone, pc, current, parser, pending, disk, trace, clock>>

DiskFills ==
    /\ "disk" \in Faults /\ disk = "ok"
    /\ disk' = "full"
    /\ UNCHANGED <<exchanges, waiting, gone, pc, current, up, parser, pending,
                   trace, clock>>

-----------------------------------------------------------------------------
(* The handler.                                                            *)

(* Mistakes for the mutants: the connection to the upstream is kept; a     *)
(* parser for each chunk; an event that cannot be written ends the stream; *)
(* a stream that breaks before its first chunk is asked for again.         *)
ConcludeKeepingUpstream(n, status) ==
    /\ exchanges' = [exchanges EXCEPT ![n].status = status]
    /\ pc' = "idle"
    /\ UNCHANGED up

Conclude(n, status) ==
    /\ exchanges' = [exchanges EXCEPT ![n].status = status]
    /\ pc' = "idle"
    /\ up' = NoUpstream

(* Requests that are not forwarded: a target without a path, a body that   *)
(* cannot be read to its end, one that is too large.                       *)
Refuse ==
    /\ pc = "idle" /\ waiting # <<>>
    /\ LET n == Head(waiting)
           q == exchanges[n].ask
       IN  \/ q.target = "absolute" /\ Conclude(n, "dropped")
           \/ /\ q.target # "absolute"
              /\ \/ n \in gone /\ Conclude(n, "dropped")
                 \/ q.body = Oversize /\ Conclude(n, "413")
    /\ waiting' = Tail(waiting)
    /\ UNCHANGED <<gone, current, parser, pending, disk, trace, clock>>

Forward ==
    /\ pc = "idle" /\ waiting # <<>>
    /\ current' = Head(waiting)
    /\ LET q == exchanges[current'].ask IN
         /\ q.target # "absolute"
         /\ q.body # Oversize
         /\ ObserveBody(q.body, "c2s", CollectRequestRoutingMetadata(q.head))
         /\ exchanges' = [exchanges EXCEPT ![current'].sent = UpstreamHeaders(q.head)]
    /\ waiting' = Tail(waiting)
    /\ pc' = "calling"
    /\ up' = [up EXCEPT !.state = "asked"]
    /\ UNCHANGED <<gone, parser>>

Replied(kind) == pc = "calling" /\ exchanges[current].reply.kind = kind

BadGateway ==
    /\ Replied("error")
    /\ Conclude(current, "502")
    /\ UNCHANGED <<waiting, gone, current, parser, pending, disk, trace, clock>>

(* A direct body that cannot be read, or that is too large, is measured no *)
(* more than it is passed on.                                              *)
LoseDirect ==
    /\ Replied("direct")
    /\ \/ up.state = "broken" /\ Conclude(current, "dropped")
       \/ /\ up.state = "closed"
          /\ exchanges[current].reply.body = Oversize
          /\ Conclude(current, "502")
    /\ UNCHANGED <<waiting, gone, current, parser, pending, disk, trace, clock>>

(* The body is measured whether or not the client can still be given it.   *)
AnswerDirect ==
    /\ Replied("direct")
    /\ up.state = "closed"
    /\ UNCHANGED <<waiting, gone, current, parser>>
    /\ LET r == exchanges[current].reply IN
         /\ r.body # Oversize
         /\ ObserveBody(r.body, "s2c", NoRouting)
         /\ \/ exchanges' = [exchanges EXCEPT ![current].status = "done",
                   ![current].answered = CollectResponseHeaders(r.head),
                   ![current].got = <<r.body>>]
            \/ /\ current \in gone
               /\ exchanges' = [exchanges EXCEPT ![current].status = "cut"]
    /\ pc' = "idle"
    /\ up' = NoUpstream

StartStream ==
    /\ Replied("stream")
    /\ pc' = "stream"
    /\ parser' = NewParser
    /\ exchanges' = [exchanges EXCEPT ![current].status = "stream",
          ![current].answered = CollectResponseHeaders(exchanges[current].reply.head)]
    /\ UNCHANGED <<waiting, gone, current, up, pending, disk, trace, clock>>

ReadChunkFresh ==
    /\ pc = "stream" /\ up.ready # <<>>
    /\ parser' = Push(NewParser, up.ready)
    /\ Observe(current, JsonRpc(parser'.events), "s2c", NoRouting)
    /\ pc' = "deliver"
    /\ UNCHANGED <<exchanges, waiting, gone, current, up>>

ReadChunkFailing ==
    /\ pc = "stream" /\ up.ready # <<>> /\ disk = "full"
    /\ Conclude(current, "cut")
    /\ UNCHANGED <<waiting, gone, current, parser, pending, disk, trace, clock>>

(* One read of SseObservingReader: what it completes is observed before    *)
(* the chunk goes on to the client.                                        *)
ReadChunk ==
    /\ pc = "stream" /\ up.ready # <<>>
    /\ parser' = Push(parser, up.ready)
    /\ Observe(current, JsonRpc(parser'.events), "s2c", NoRouting)
    /\ pc' = "deliver"
    /\ UNCHANGED <<exchanges, waiting, gone, current, up>>

Deliver ==
    /\ pc = "deliver"
    /\ exchanges' = [exchanges EXCEPT ![current].got = @ \o up.ready]
    /\ up' = [up EXCEPT !.ready = <<>>]
    /\ pc' = "stream"
    /\ UNCHANGED <<waiting, gone, current, parser, pending, disk, trace, clock>>

(* The head of the answer, or a chunk, cannot be written.                  *)
DeliverFails ==
    /\ current \in gone
    /\ pc = "deliver" \/ (pc = "stream" /\ exchanges[current].got = <<>>)
    /\ Conclude(current, "cut")
    /\ UNCHANGED <<waiting, gone, current, parser, pending, disk, trace, clock>>

ReadEnd ==
    /\ pc = "stream" /\ up.ready = <<>> /\ up.state = "closed"
    /\ parser' = Finish(parser)
    /\ Observe(current, JsonRpc(parser'.events), "s2c", NoRouting)
    /\ Conclude(current, "done")
    /\ UNCHANGED <<waiting, gone, current>>

ReadFailsRetried ==
    /\ pc = "stream" /\ up.ready = <<>> /\ up.state = "broken"
    /\ IF exchanges[current].got = <<>>
       THEN /\ exchanges' = [exchanges EXCEPT ![current].reply = NoReply]
            /\ pc' = "calling"
            /\ up' = [NoUpstream EXCEPT !.state = "asked"]
       ELSE Conclude(current, "cut")
    /\ UNCHANGED <<waiting, gone, current, parser, pending, disk, trace, clock>>

ReadFails ==
    /\ pc = "stream" /\ up.ready = <<>> /\ up.state = "broken"
    /\ Conclude(current, "cut")
    /\ UNCHANGED <<waiting, gone, current, parser, pending, disk, trace, clock>>

Handler ==
    \/ Refuse \/ Forward \/ BadGateway \/ LoseDirect \/ AnswerDirect
    \/ StartStream \/ ReadChunk \/ Deliver \/ DeliverFails \/ ReadEnd \/ ReadFails

Environment ==
    \/ Send \/ (\E n \in DOMAIN exchanges : HangUp(n))
    \/ UpstreamReplies \/ UpstreamSends \/ UpstreamCloses \/ UpstreamBreaks
    \/ DiskFills

Rest ==
    /\ Len(exchanges) = MaxRequests
    /\ \A n \in DOMAIN exchanges : exchanges[n].status \in Over
    /\ UNCHANGED httpVars

Next == Handler \/ Environment \/ Rest

Spec == Init /\ [][Next]_httpVars

(* Where the handler has a step: what it waits for is there.               *)
HandlerReady ==
    \/ pc = "idle" /\ waiting # <<>>
    \/ Replied("error") \/ Replied("stream")
    \/ Replied("direct") /\ up.state \in {"closed", "broken"}
    \/ /\ pc = "stream"
       /\ \/ up.ready # <<>> \/ up.state \in {"closed", "broken"}
          \/ current \in gone /\ exchanges[current].got = <<>>
    \/ pc = "deliver"

(* Only the handler takes from the queue and changes pc, and each of its   *)
(* steps does one or the other.                                            *)
HandlerMoves == pc' # pc \/ Len(waiting') < Len(waiting)

(* The thread of the handler runs, and a server it has called answers and  *)
(* sends what it has to send.  The first is WF_httpVars(Handler), written  *)
(* out: what the handler has to wait for is away again and again, or it    *)
(* moves again and again.                                                  *)
FairSpec ==
    /\ Spec
    /\ []<>~HandlerReady \/ []<><<HandlerMoves>>_httpVars
    /\ WF_httpVars(UpstreamReplies)
    /\ WF_httpVars(UpstreamSends)
    /\ WF_httpVars(UpstreamCloses)

-----------------------------------------------------------------------------
(* Properties.                                                             *)

Seen(n, dir) ==
    LET own == Keep(trace, {e \in ToSet(trace) : e.n = n /\ e.event.dir = dir})
    IN  [k \in DOMAIN own |-> own[k].event.payload]

Streamed(n) == exchanges[n].reply.kind = "stream"

(* The trace holds the JSON-RPC messages of every stream, whole and in     *)
(* order, however it was cut into chunks, and no others.  While events can *)
(* be written a client never has a message that is not in the trace, and   *)
(* between two reads, and at the end, the trace has exactly what the       *)
(* client has been given.                                                  *)
StreamMeasured ==
    disk = "ok" => \A n \in DOMAIN exchanges : Streamed(n) =>
        LET x     == exchanges[n]
            given == JsonRpc(StreamEvents(x.got))
        IN  /\ IsPrefix(given, Seen(n, "s2c"))
            /\ pc = "stream" /\ n = current => Seen(n, "s2c") = given
            /\ x.status = "done" => Seen(n, "s2c") = JsonRpc(StreamEvents(Ended(x.got)))

RequestItems(b) ==
    IF b \in {None, Oversize} THEN {}
    ELSE { b.items[k] : k \in { j \in DOMAIN b.items :
             b.items[j].method # None /\ b.items[j].id # None } }

AskedIn(n, i) == \E item \in RequestItems(exchanges[n].ask.body) : item.id = i

ResponseCount(n, p) ==
    Cardinality({ k \in DOMAIN p.items :
        /\ p.items[k].method = None /\ p.items[k].body # {}
        /\ p.items[k].id # None /\ AskedIn(n, p.items[k].id) })

(* An answer is timed against the request of its own exchange, also when   *)
(* an earlier exchange with the same id, of any client, came to nothing    *)
(* and left its request in the map; one that answers nothing is not timed. *)
OwnRoundTrips ==
    \A k \in DOMAIN trace : trace[k].event.dir = "s2c" =>
        LET e    == trace[k].event
            asks == { j \in 1..k-1 :
                        trace[j].n = trace[k].n /\ trace[j].event.dir = "c2s" }
        IN  IF asks = {} THEN e.facts.latencies = <<>>
            ELSE /\ Len(e.facts.latencies) = ResponseCount(trace[k].n, e.payload)
                 /\ \A m \in DOMAIN e.facts.latencies :
                       e.facts.latencies[m] = e.at - trace[Max(asks)].event.at

(* A request that stays in the map is the last one with its id, and its    *)
(* exchange is being handled or has failed.                                *)
LeftoversAreFailures ==
    \A i \in Ids : pending[i] # None =>
        \E n \in DOMAIN exchanges :
            /\ AskedIn(n, i)
            /\ \/ n = current /\ pc # "idle"
               \/ exchanges[n].status \in {"502", "dropped", "cut"}
            /\ \A m \in n+1..current : ~AskedIn(m, i) \/ exchanges[m].sent = None

(* A client gets the server's answer as it is: a prefix of it while it     *)
(* comes in, and in the end all of it, unless the client has hung up, the  *)
(* upstream has failed, or the answer is too large.  "Keep forwarding even *)
(* if observation, tokenization, or trace writing fails"                   *)
(* (docs/HTTP_MEASUREMENT.md:91): none of these is a fourth reason.        *)
AnswersUntouched ==
    \A n \in DOMAIN exchanges :
        LET x   == exchanges[n]
            all == IF Streamed(n) THEN FlattenSeq(x.reply.chunks) ELSE <<x.reply.body>>
        IN  /\ IsPrefix(x.got, all)
            /\ x.status = "done" => x.got = all
            /\ x.status \in {"cut", "dropped"} =>
                  n \in gone \/ x.broken \/ x.ask.target = "absolute"
            /\ x.status = "502" => x.reply.kind = "error" \/ x.reply.body = Oversize
            /\ x.status = "413" => x.ask.body = Oversize

OfConnection == HopByHop \cup {"content-length"}

(* "Request methods, path/query, and ordinary end-to-end headers are       *)
(* forwarded unless they are hop-by-hop transport headers"                 *)
(* (docs/HTTP_MEASUREMENT.md:126) by "an observer, not an MCP gateway"     *)
(* (:20): as often as they were given, with their values in order, in both *)
(* directions.  The code does not do so for a header given more than once, *)
(* nor for an answer's header that tiny_http cannot represent.             *)
HeadersForwarded ==
    \A n \in DOMAIN exchanges :
        LET x == exchanges[n]
            forwarded(h, from, to) == Named(to, h.name) = Named(from, h.name)
        IN  x.status = "done" =>
               /\ \A h \in ToSet(x.ask.head) :
                     h.name \in OfConnection \cup {"host"} \/ forwarded(h, x.ask.head, x.sent)
               /\ \A h \in ToSet(x.reply.head) :
                     h.name \in OfConnection \/ forwarded(h, x.reply.head, x.answered)

(* What the code keeps of that: headers of the connection stop at the      *)
(* proxy, and it invents none.  A request's header crosses with its last   *)
(* value, or all of them if it is an extension.  An answer's crosses with  *)
(* each value that tiny_http can represent, and one that is given once     *)
(* crosses once.                                                           *)
HeadersEndToEnd ==
    \A n \in DOMAIN exchanges :
        LET x == exchanges[n]
            names(head) == { head[k].name : k \in DOMAIN head }
        IN  /\ x.sent # None =>
                  /\ names(x.sent) = names(x.ask.head) \ (OfConnection \cup {"host"})
                  /\ \A name \in names(x.sent) :
                        LET mine == Named(x.ask.head, name) IN
                        Named(x.sent, name) = IF name \in Extensions THEN mine
                                              ELSE <<Last(mine)>>
            /\ x.answered # None =>
                  LET crossing == { h \in ToSet(x.reply.head) :
                                      h.name \notin OfConnection /\ h.value # NonAscii }
                  IN  /\ ToSet(x.answered) = crossing
                      /\ \A h \in crossing :
                            Named(x.reply.head, h.name) = <<h>> =>
                                Named(x.answered, h.name) = <<h>>

(* What the trace says of how a request was routed is what the server was  *)
(* told: a value recorded for a header is the only one the client gave and *)
(* the only one the server got; no value of any other header is recorded   *)
(* (docs/HTTP_MEASUREMENT.md:104), and none with an answer.                *)
RoutingAsSent ==
    \A k \in DOMAIN trace : \A name \in RoutingNames :
        LET x     == exchanges[trace[k].n]
            value == trace[k].routing[name]
        IN  IF trace[k].event.dir = "s2c" THEN value = None
            ELSE /\ value # None =>
                       /\ Named(x.sent, name) = <<[name |-> name, value |-> value]>>
                       /\ Named(x.ask.head, name) = Named(x.sent, name)
                 /\ value = None => \/ Named(x.ask.head, name) = <<>>
                                    \/ Len(Named(x.ask.head, name)) > 1
                                    \/ Named(x.sent, name)[1].value = Blank

(* Every request is answered or given up in the end, so that again and     *)
(* again none is left: no failure of the upstream, and no client that has  *)
(* gone, holds up the others.                                              *)
EveryRequestServed ==
    []<>(\A n \in DOMAIN exchanges : exchanges[n].status \in Over)

(* The same of the requests with a body only, next to a client that        *)
(* listens: docs/HTTP_MEASUREMENT.md:141 says that a client and a server   *)
(* which understand each other keep their semantics through the proxy.     *)
PostsServed ==
    \A n \in 1..MaxRequests :
        n \in DOMAIN exchanges /\ exchanges[n].ask.body # None
          ~> n \in DOMAIN exchanges /\ exchanges[n].status \in Over
=============================================================================
