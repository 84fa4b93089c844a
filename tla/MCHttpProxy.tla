---------------------------- MODULE MCHttpProxy ----------------------------
(***************************************************************************)
(* Clients and servers for HttpProxy.  A server answers each request of a  *)
(* POST once, in a direct body or in a stream with other events, or fails; *)
(* a GET opens a stream of notifications.  One of the servers is the HTTP  *)
(* fixture: its clients call the tool "add", at both of its endpoints.     *)
(***************************************************************************)
EXTENDS HttpFixture

CONSTANTS i1, i2, t1, add

MCIds == {i1, i2, Null}
MCTools == {t1, add}
MCFixtureTools == {add}

Call == Line(CallsTool(i1, t1))
Pair == Batch(<<CallsTool(i1, t1), Asks(i2, "tools/list")>>)
Add == Line(CallsTool(i1, add))

H(name, value) == [name |-> name, value |-> value]

Extended == {"x-trace"}

(* A secret, a header of the connection, an extension given twice.         *)
Plain == <<H("authorization", "secret"), H("mcp-method", "call"),
           H("connection", "close"), H("x-trace", "a"), H("x-trace", "b")>>

(* Values that say nothing, or two things.                                 *)
Unclear == <<H("mcp-method", "call"), H("mcp-name", Blank), H("host", "here"),
             H("mcp-method", "list"), H("mcp-protocol-version", "new")>>

Reply(kind, body, chunks) ==
    [kind |-> kind, body |-> body, chunks |-> chunks, ends |-> TRUE,
     head |-> <<H("set-cookie", "a"), H("content-length", "1"), H("x-name", NonAscii),
                H("set-cookie", "b"), H("transfer-encoding", "chunked"),
                H("content-type", "json")>>]

Direct(b) == Reply("direct", b, <<>>)
Stream(chunks) == Reply("stream", None, chunks)
Failure == [NoReply EXCEPT !.kind = "error"]

Data == <<DataField, Colon, Space>>
Event(p) == Data \o <<p, LF, LF>>
Note == Line(Notifies)

(* Cut inside a line end, inside a line; two events in a chunk, one of     *)
(* them no JSON-RPC, and a last event without its end.                     *)
Cut(p) == Stream(<<Data \o <<p, CR>>, <<LF, CR, LF>>>>)
Packed(p) == Stream(<<Event(Note) \o Event(Garbage) \o Data, <<p>>>>)

Answered(i) == Line(Answers(i))

AnswersTo(b) ==
    CASE b = Call -> {Failure, Direct(Answered(i1)), Direct(Oversize),
                      Cut(Answered(i1)), Packed(Line(Fails(i1)))}
      [] b = Pair -> {Direct(Batch(<<Lists(i2, 1), Answers(i1)>>)),
                      Stream(<<Event(Line(Lists(i2, 1))) \o Event(Answered(i1))>>)}
      [] b = Note -> {Direct(None)}
      [] OTHER -> {Stream(<<Event(Note)>>)}

Post(head, b) == [target |-> "/mcp", head |-> head, body |-> b]

OwnRequests ==
    {Post(Plain, Call), Post(Plain, Pair), Post(Unclear, Note),
     Post(Unclear, Oversize), Post(Plain, None),
     [Post(Plain, Call) EXCEPT !.target = "absolute"]}

(* The call of one tool at both endpoints, routed by one header and by     *)
(* two, and a body that is no JSON.                                        *)
FixtureRequests ==
    {Post(<<H("mcp-method", "call"), H("authorization", "secret")>>, Add),
     [Post(<<H("mcp-method", "list"), H("mcp-method", "call")>>, Add)
         EXCEPT !.target = "/mcp?case=sse"],
     Post(<<>>, Garbage)}

AnyRequests == OwnRequests \cup FixtureRequests
AnyReplies ==
    [q \in AnyRequests |-> IF q \in FixtureRequests THEN FixtureOrFailure(q)
                           ELSE AnswersTo(q.body)]

(* A server of the 2025 era: a GET opens a stream the server keeps open.   *)
ListenRequests == {Post(<<>>, None), Post(<<>>, Call)}
ListenReplies ==
    [q \in ListenRequests |->
        IF q.body = None THEN {[Stream(<<Event(Note)>>) EXCEPT !.ends = FALSE]}
        ELSE {Direct(Answered(i1))}]

(* One call and its answer, each with a header in two lines.               *)
OneRequest == {Post(<<H("accept", "json"), H("accept", "stream")>>, Call)}
OneReply == [q \in OneRequest |-> {Direct(Answered(i1))}]
=============================================================================
