---------------------------- MODULE HttpFixture ----------------------------
(***************************************************************************)
(* The HTTP fixture, src/src/http_fixture.rs, as the upstream of the HTTP  *)
(* proxy.  It answers one request at a time, and each by itself, so it is  *)
(* a function from requests to replies; statuses are left out.             *)
(***************************************************************************)
EXTENDS HttpProxy, Traffic

CONSTANTS Null,             \* the id null
          FixtureTools,     \* "add" and "echo"
          Here,             \* the value of X-Fixture-Authorization
          Missing,
          Fragments         \* bound: sizes of the chunks that arrive

(* The members of the root: an array or a scalar has none.                 *)
Root(p) == IF p.json /\ ~p.batch /\ p.items[1].object THEN p.items[1] ELSE Item

IdOf(root) == IF root.id = None THEN Null ELSE root.id

(* response_for.  A notification is answered too, and a batch by an error. *)
ResponseFor(root) ==
    CASE root.method = "tools/list" ->
            [Answers(IdOf(root)) EXCEPT !.tools = 2, !.schema = 2]
      [] root.method = "tools/call" /\ root.name \in FixtureTools -> Answers(IdOf(root))
      [] OTHER -> Fails(IdOf(root))

(* sse_response_for: a comment, a notification, and a result in two lines, *)
(* whatever was asked.  The payload stands in the second line: whoever     *)
(* loses that line has nothing.                                            *)
SseResponseFor(root) ==
    LET blank == <<CR, LF, CR, LF>>
        data(text) == <<DataField, Colon, Space>> \o text
    IN  <<Colon, Space>> \o blank
        \o data(<<Line(Notifies)>>) \o blank
        \o data(<<CR, LF>>) \o data(<<Line(Answers(IdOf(root)))>>) \o blank

(* FragmentedReader gives five bytes at a time, and the connection cuts as *)
(* it likes.                                                               *)
InFragments(bytes, size) ==
    [k \in 1..((Len(bytes) + size - 1) \div size) |->
        SubSeq(bytes, (k - 1) * size + 1, Min({k * size, Len(bytes)}))]

HeaderValue(head, name) ==
    IF Named(head, name) = <<>> THEN None ELSE Named(head, name)[1].value

(* The headers of an answer tell what has come of those of the request.    *)
FixtureHead(q, type) ==
    LET sent   == UpstreamHeaders(q.head)
        method == HeaderValue(sent, "mcp-method")
    IN  <<[name |-> "content-type", value |-> type],
          [name |-> "x-fixture-target", value |-> q.target],
          [name |-> "x-fixture-mcp-method",
           value |-> IF method = None THEN Missing ELSE method],
          [name |-> "x-fixture-authorization",
           value |-> IF HeaderValue(sent, "authorization") = None THEN Missing ELSE Here]>>

(* One round of run: a body that does not parse is null to the stream and  *)
(* an error otherwise.                                                     *)
FixtureReplies(q) ==
    LET p == q.body
        parsed == p \notin {None, Oversize} /\ p.json
        root == IF parsed THEN Root(p) ELSE Item
        answer == [NoReply EXCEPT !.head = FixtureHead(q, "json"), !.kind = "direct",
                                  !.body = Line(ResponseFor(root))]
    IN  IF q.target = "/mcp?case=sse"
        THEN { [answer EXCEPT !.head = FixtureHead(q, "sse"), !.kind = "stream",
                              !.body = None,
                              !.chunks = InFragments(SseResponseFor(root), size)] :
                 size \in Fragments }
        ELSE {answer}

(* A body that is no UTF-8 ends the fixture, and then it answers nothing.  *)
FixtureOrFailure(q) == FixtureReplies(q) \cup {[NoReply EXCEPT !.kind = "error"]}

-----------------------------------------------------------------------------
Answer(n) ==
    LET own == SelectSeq(trace, LAMBDA e : e.n = n /\ e.event.dir = "s2c"
                                           /\ e.event.facts.responses > 0)
    IN  [k \in DOMAIN own |->
            [own[k].event.facts EXCEPT !.latencies = Len(own[k].event.facts.latencies)]]

(* A call is measured alike whether its answer comes as JSON or in two     *)
(* lines of an event, behind a comment and a notification and in pieces:   *)
(* one answer with one latency and the tool that was called                *)
(* (docs/HTTP_MEASUREMENT.md:129).                                         *)
MeasuredAlike ==
    disk = "ok" => \A n \in DOMAIN exchanges :
        LET root == Root(exchanges[n].ask.body) IN
        exchanges[n].status = "done" /\ exchanges[n].ask.body # None
          /\ root.method = "tools/call" /\ root.id # None /\ root.name \in FixtureTools =>
            Answer(n) = <<[NoFacts EXCEPT !.responses = 1, !.latencies = 1,
                              !.methods = <<"tools/call">>, !.tools = <<root.name>>]>>
=============================================================================
