# TLA+ models of MCPMeter

MCPMeter stands between an MCP client and an MCP server, passes their JSON-RPC
messages on unchanged, and writes one event per message to a JSONL trace that
its other commands read. This directory models that program (the Rust sources
in `src/src/`), model-checks it with TLC and proves what matters most about the
stdio proxy and its sessions, the observer, the trace file, the parser and the
HTTP proxy with TLAPS.

Paths below are relative to the repository: `proxy.rs` is `src/src/proxy.rs`.

## 1. The system

| Component | State it keeps | Operations | What makes it correct | Modules |
|---|---|---|---|---|
| Stdio proxy, `proxy.rs` | two pipes each way, a line per thread, the channel to the observer | relay a line in either direction, observe a frame, shut down | FIFO, lossless, observed exactly, ends with its child | `StdioProxy`, `Relay`, `StdioSession`, `StdioProxyProofs` |
| Observer, `observer.rs` | the map of unanswered requests | observe one payload | each answer finds its own request | `Observer`, `ObserverLog`, `ObserverLogProofs` |
| Trace file, `write_event` in `proxy.rs` and `http_proxy.rs`, `read_events` in `trace.rs` | the file, a `BufWriter` per process | append an event, close, read all | a log of whole events, nothing twice or out of order | `TraceFile`, `TraceLog`, `TraceFileProofs` |
| Event schema, `event.rs` | - | to a line and back | old and new lines are read as they were meant | `MeasurementEvent`, `MeasuredRuns` |
| SSE parser, `sse.rs` | the open line, the data lines of the open event | `push`, `finish` | independent of the cuts, within its limit | `SseParser`, `SseStream`, `SseStreamProofs` |
| HTTP proxy, `http_proxy.rs` | the queue of requests, the exchange under way, the shared map of unanswered requests | refuse, forward, answer, stream; filter headers, take routing metadata | answers untouched, headers stop or cross, measured as given, no exchange spoils the next | `HttpHeaders`, `HttpProxy`, `HttpProxyProofs` |
| Stdio fixture, `fixture.rs` | - | answer a line | one answer for each request | `FixtureSession`, `SessionProofs` |
| HTTP fixture, `http_fixture.rs` | - | answer a request directly or in a stream | measured alike by both | `HttpFixture` |
| Run selection, run list, `trace.rs`, `runs.rs` | none (read the trace) | `select_run`, `aggregate_runs` | the latest run is the first of the list | `TraceReaders`, `MeasuredRuns` |
| Report, compare, `report.rs`, `compare.rs` | none | `build_report`, `percentile_ms`, `compare_reports` | the totals agree, percentiles exact | `TraceReaders`, `MeasuredRuns` |
| Token ledger, tool cost, `token_ledger.rs`, `tool_cost.rs` | none | `build_from_selected`, `summarize_selected` | in time order, each token charged once | `TraceReaders`, `MeasuredRuns` |
| Export, `export.rs` | none | `render_csv`, `render_html` | values survive quoting and escaping | `Export`, `MeasuredRuns` |
| Tokenizer, `tokenizer.rs` | none | `count` | the estimate and its flag go together | `MeasuredRuns` (partly) |
| Command line, `main.rs` | none | find the run of a command | | `TraceReaders` (partly) |

How they interact. The two relaying threads of the stdio proxy send copies of
the lines through one `mpsc` channel to the observer thread, which calls the
observer for each and appends the event to the trace; the main thread ends the
observer with a message in the same channel. The HTTP proxy is one thread that
calls the observer itself, for a streamed answer from inside the `Read` that
`tiny_http` pulls the answer through. Several proxies may append to one trace.
The readers never talk to the proxies: they read the file, at any moment, and
the file may hold lines of older proxies. The fixtures are the servers the
repository tests its proxies with.

What makes it hard:

* *Interleaving.* Three threads, a client, a child and the operating system
  move independently; the child may exit, either peer may hang up, the process
  may be killed, the observer may panic and the disk may fail at each step.
* *Ordering.* Latencies and tools are found by matching an answer with its
  request, and the two travel through different threads. The shutdown message
  shares the channel with the last frames.
* *Ending.* The exit waits for the child and for an acknowledgement, and must
  not wait for a client thread stuck in a read.
* *Ids.* The peers choose them, reuse them, and both use the same ones; in the
  HTTP proxy all clients share one map, and a failed exchange leaves its
  request in it.
* *Chunks.* A stream may be cut anywhere, and an event may be too large.
* *Files.* An event may reach the file in several writes, and its line may lack
  fields that a later version added.
* *Headers.* Two libraries keep repeated headers in different ways, and the
  proxy's own reading of them is a third.
* *Agreement.* Five readers add the same events up independently, and two
  exports write them out again with their own quoting.

`PROJECT.json` lists each hazard at its line, with the properties that cover it.

## 2. The modules

```
Observer --+-- StdioProxy --+-- StdioSession --+-- MCStdioSession
           |    (Relay)     |                  +-- FixtureSession --+-- MCFixtureSession
           |                |                                      +-- SessionProofs
           |                +-- MCStdioProxy
           |                +-- StdioProxyProofs
           +-- ObserverLog -+-- MCObserverLog
           |                +-- ObserverLogProofs
           +-- HttpHeaders --+
           |                 +-- HttpProxy --+-- HttpFixture -- MCHttpProxy
           |   SseParser ----+               |
           |           |                     +-- HttpProxyProofs
           |           +-- SseStream --+-- MCSseStream
           |                           +-- SseStreamProofs
           +-- TraceReaders -- Export --+
           +-- MeasurementEvent --------+-- MeasuredRuns -- MCMeasuredRuns
TraceFile --+-- MCTraceFile                          Traffic: payloads of the MC modules
 (TraceLog) +-- TraceFileProofs                      and of HttpFixture

SequenceLemmas, PayloadLemmas: lemmas of the *Proofs modules
SessionProofs extends StdioProxyProofs as well
```

| Abstract specification | Implemented by | Shown as |
|---|---|---|
| `Relay`: two FIFO pipes that may break | `StdioProxy` | `ImplementsPipes` |
| `TraceLog`: a log that grows by whole events | `TraceFile` | `ImplementsLog` |
| the server of `StdioSession` with its fairness | `FixtureSession` | `ImplementsServer`; without fairness `FixtureIsServer` |

**Observer** (pure). A payload is what the branches of `inspect_value` look at:
whether it is JSON, whether its root is an array, and for every value its
method, tool name, id, result or error, and the sizes of a tool list. Nested
arrays are flattened, since the recursion visits them in that order and with
the same facts. `ObservePayloadAt` returns the event and the new pending map,
an id going to a request or to `None`. Ids that serialise alike are one id, as
`id_key` makes them.

**StdioProxy.** `pc["c2s"]` and `pc["s2c"]` are the client thread and the main
thread. Each goes round `ReadLine` (the `read_until` with the stamp of the
frame), `SendFrame`, `WriteLine` or `WriteError`; `ReadEof` ends the loop. Then
the main thread takes `WaitChild`, `ReapClient`, `SendShutdown`, `RecvAck`,
`JoinObserver`. The observer thread has `ObserveFrame`, `ObserveShutdown` and
`ObserverPanic`. Reading and stamping are one step because nothing shared
happens between them; sending and writing are two because the other threads may
run between them. The end of each peer is modelled separately for its two pipe
ends, and `ChildExit` closes both of the child's. `got` and `log` are history
variables: what the sinks have read and the sources written.

**Relay** is the abstract specification of the traffic: two unbounded FIFO pipes
that may break. `StdioProxy` maps its pipes and the line in a thread's hands to
one sequence in flight and implements it (`ImplementsPipes`).

**StdioSession** adds peers that follow JSON-RPC: no id is reused before the
answer to it is read, each request is answered at most once, the server exits at
the end of its input. Its properties look at the trace alone, the way a user
does.

**FixtureSession** puts the stdio fixture in the server's place. It has no
state of its own: what it owes is what `HandleLine` makes of the lines it has
read, and it reads the next line only when all of that is written, so a full
pipe stops it as it stops the program. The client is not the one of
`StdioSession`: it sends batches, notifications, blank lines and lines that are
no JSON, and does not wait. That the fixture nevertheless does what
`StdioSession` supposes of servers, with their fairness, is `ImplementsServer`.

**ObserverLog** feeds the observer any payload in any order, as a client or
server that follows no protocol would.

**TraceFile.** Events are sequences of pieces (what `serde_json` hands to the
`BufWriter` in one call) that end in a newline. `Put` fills the buffer, `Spill`
empties a full one in the middle of an event, `Flush` ends an event, `Close`
ends the process, `Kill` loses the buffer. A failed write leaves part of the
buffer in the file and the rest in the buffer, as `BufWriter` does. Each write
appends as a whole, which `O_APPEND` gives on a local file system.
`read_events` is written over the pieces of the file. A piece names its event
and its place in it; nothing in the model looks at that but the reader and the
properties. **TraceLog** is what users are promised: a log of events that grows
at its end, none of them torn or mixed. Its lines are those of the file as
`read_events` takes them apart (`LogOf`): what stands between two newlines is an
event only if it is all the pieces of that event, in order and nothing else.

**SseParser** translates `push` and `finish` byte by byte (the loop of `push`
takes a line as soon as there is a newline, so nothing depends on more than the
next byte); the four bytes of "data" are one symbol. `StreamEvents` is the
reference: the events of a whole stream, by the positions of its newlines,
without a parser. **SseStream** runs the parser over chunks.

**HttpHeaders** (pure). Which headers are forwarded each way, which values
become routing metadata, and what the libraries do with repeated headers, as far
as the calls in `http_proxy.rs` show it: `ureq`'s `set` replaces an earlier
header of the name unless the name begins with `x-`, `headers_names` names a
repeated header each time, and `all` returns all its values.

**HttpProxy.** `exchanges` holds each request with what came of it, `waiting`
the queue of accepted connections, `pc` the handler. A request is refused
(`Refuse`: absolute target, unreadable body, 413), or observed and forwarded
(`Forward`); the answer is an error (`BadGateway`), a direct body
(`AnswerDirect`, or `LoseDirect` if it breaks or is too large) or a stream
(`StartStream`, then `ReadChunk` and `Deliver` in turn, until `ReadEnd`,
`ReadFails` or `DeliverFails`). `Observe` goes through the payloads one by one;
`trace` holds the events that could be written: `DiskFills` may happen at any
time, after it no event is, and nothing else changes, since `write_event` of the
HTTP proxy returns nothing. How a failed write leaves the file is `TraceFile`'s
question. The upstream sends a chunk at a time, so an error is seen after every
chunk before it; `Deliver` hands a chunk to `tiny_http`.

**HttpFixture** is the HTTP fixture as the upstream: a function from requests
to replies, since it keeps nothing between requests. Its stream is a comment, a
notification, and an answer spread over two `data` lines, in fragments. A
payload is one byte, so it cannot be spread: it stands in the second line, and
the first is empty.

**TraceReaders** (pure) holds `select_run`, `aggregate_runs`, `build_report`,
`percentile_ms`, `compare_reports`, the ledger and the tool cost, and how each
command finds its run.

**MeasurementEvent** (pure) is one event as a record and as the object of its
line: a field that is skipped when empty is not in the domain of the object, and
`Deserialize` gives it back its default. `SerializeAt` is what proxies of older
schemas wrote.

**Export** (pure) renders a report as CSV and HTML, character by character only
where quoting and escaping look at characters.

**MeasuredRuns** grows a trace from two proxies that write at once, with events
a little out of time order, and evaluates all readers and exports in every
state: a reader may run at any time. `setup` says what proxies these are: a
stdio and an HTTP proxy of now, two that count with different tokenizers, or an
old one and a new one that estimates and captures payloads. The readers are
given what `Deserialize` makes of the lines, the properties compare that with
`measured`, what the proxies had in memory.

Operators named as mistakes (`WriteErrorIgnored`, `InspectCallFirstWins`, ...)
are not part of any specification. Each is a plausible bug in the definition it
is named after, and for each property there is one that makes TLC refute it;
`PROJECT.json` pairs them.

## 3. The runs

Every run is `tlc -config <cfg> <module>`.

| Run | Shows |
|---|---|
| `stdio_safety` | `LinesInOrder`: both directions are FIFO, and until a write fails no line is lost. `ObservedExactly`: trace and channel hold exactly the forwarded lines, in order. `RecordedAtExit`: a normal exit leaves nothing of what either side received unrecorded, though the client thread is joined only if it has finished. |
| `stdio_live` | `ImplementsPipes`: no failed trace write and no panic of the observer is visible in the traffic. `ExitsAfterChild`: once the child is gone, the proxy ends, whatever the client and the observer do. `DeliversLines`: a line written is delivered, unless its direction broke or its reader hung up. |
| `session` | `RoundTripsExact`: each answer is timed against its own request. `ToolsCredited`: a call is credited to its request and its answer and nowhere else. `PendingIsUnanswered`: the map holds the unanswered requests only. |
| `session_end` | `ImplementsServer`: the fixture is a server as `session` supposes it. `AnswersFollow`: the trace never has an answer ahead of what it answers, for a client that does not wait either. `RequestsMeasured`: every request gets its answer, whatever becomes of the observer, and a latency unless the observer has panicked. `SessionEnds`: a client that closes its input sees the proxy exit, also when the observer has panicked. No state is a deadlock. |
| `observer_log` | `PendingIsLatest`, `RequestsConserved`, `KindsTellTheTruth`: the pending map, latencies and kinds against a reference reading of all payloads, for peers without discipline. |
| `trace_file` | `InterruptedRunsReadable`, `WrittenIsRead`: with events that fit the buffer, a trace written by two proxies that may be killed can be read until a write fails, and has every event written. `ImplementsLog`: until then it is, line by line as its readers take it, a log that grows by whole events. `EventsInOrder`: after failed writes nothing is in the file twice or out of order. |
| `trace_interrupted` | `InterruptedRunsInspectable` **violated**, finding 1 |
| `sse_stream` | `EventsOfStream`: however it is cut, the parser returns the events of the stream. `KeepsWithinLimit`: it never keeps more of an event than the limit. |
| `http_traffic` | `StreamMeasured`: what is observed of a stream is the JSON-RPC messages the client has been given. `AnswersUntouched`: the client's answer is the server's, with a full disk too. `OwnRoundTrips`, `LeftoversAreFailures`: what a failed exchange leaves in the shared map never reaches the next one. `HeadersEndToEnd`: headers of the connection stop at the proxy, none is invented, and of the others everything crosses but what finding 3 is about. `RoutingAsSent`: recorded routing is what the server was told, and no other header is recorded. `MeasuredAlike`: a call is measured alike whether the fixture answers it directly or in a stream in pieces. `EveryRequestServed`: no failure of an upstream or a client holds up the others. |
| `http_listen` | `PostsServed` **violated**, finding 2 |
| `http_headers` | `HeadersForwarded` **violated**, finding 3 |
| `measured_runs` | `TraceReadBack`: what was measured is read back from its line, and what an older proxy had no field for is unknown, not zero. `TotalsAgree`, `LatestIsFirst`, `LedgerInOrder`, `ChargedOnce`: the readers agree with each other and account for every token once. `PercentilesExact`: nearest ranks, for every number of samples up to 210 and in every report, and no latency below zero. `CsvReadBack`, `HtmlReadBack`: a spreadsheet or a browser that opens an export sees the values of the report. |

### Findings

1. `docs/ARCHITECTURE.md:58` promises that interrupted runs remain inspectable.
   An event longer than the `BufWriter` (8 KiB) is written in pieces. TLC shows
   a trace in which one run has written its event and ended, and another is
   killed between two pieces: on the half line it leaves `read_events` gives up
   the whole trace, the run that had ended included. For events that fit, the
   promise holds (`trace_file`).
2. `docs/HTTP_MEASUREMENT.md:141` says a client and a server that understand
   each other keep their HTTP semantics. The handler is single-threaded, so a
   stream the server keeps open, as a 2025-era GET does, holds up every other
   request; TLC shows it without any fault. If every answer ends, every request is
   served (`http_traffic`).
3. `docs/HTTP_MEASUREMENT.md:126` says that ordinary end-to-end headers are
   forwarded, and `:20` that MCPMeter is an observer, not a gateway. TLC shows
   one exchange with three that are not forwarded as they were given. A
   request's header in two lines reaches the server with its last value only
   (`http_proxy.rs:255`, unless its name begins with `x-`). An answer's header
   in k lines reaches the client in k times k: `headers_names` names it k times,
   and each time all its values are taken (`http_proxy.rs:352-356`). And a value
   that `tiny_http` cannot represent is dropped (`http_proxy.rs:357`). What is
   kept is `HeadersEndToEnd`. The routing metadata says nothing of a header in
   two lines, so the trace does not contradict what the server got.

Met on the way, and not made runs of their own; the model does what the code
does:

* A direct body that is not JSON is observed and its tokens counted
  (`http_proxy.rs:324`), while `docs/HTTP_MEASUREMENT.md:54` speaks of JSON text
  only.
* The HTTP fixture answers a batch with one error, and answers notifications;
  the stdio fixture does neither.
* The run list, unlike `compare` and the ledger, does not refuse a run with two
  tokenizers; one proxy never writes such a run.

### Bounds

* *Pipes of one line.* A line more makes blocking rarer, not different; with one
  line each, a direction holds three lines (pipe, thread, pipe).
* *Two lines in each direction* (`stdio_*`): one to be overtaken and one to
  overtake, or one delivered and one in flight when something fails. In
  `stdio_safety` the lines of a direction differ, so a swap or repetition shows;
  the relay never looks into a line. `stdio_live` uses one line to the child
  and two back.
* *Three requests of the client and one of the server* (`session`): two in a
  batch and one more that reuses an id of theirs, while the server asks under
  the same id.
* *Two lines of five, with up to two requests* (`session_end`): a call and a
  batch, a line that is no JSON, a blank one. Pipes of one line make each pipe
  full at times, so each thread and the fixture block in a write; all of them
  are never full at once, which takes eight lines under way and a client that
  does not read.
* *Four payloads of twelve shapes* (`observer_log`): request, displacing
  request, answer, second answer.
* *Buffer of three pieces, two events of each proxy* (`trace_*`): events of two
  and three pieces fit, alone or on top of what a failed write has left; one of
  five does not, and what is torn off it is no whole event. `trace_interrupted`
  has one event of each proxy, of two or of five pieces.
* *Ten bytes, events of at most two* (`sse_stream`): two events with their blank
  lines, or one oversized by a second data line and one after it.
* *Two requests* (`http_*`): one that fails or stays and one after it with the
  same ids, of nine kinds of requests, three of them to the HTTP fixture, and
  up to five answers to each. The chunks of the fixture's stream are cut inside
  its second event and inside the end of its last line. `http_headers` is one
  exchange, `http_listen` a GET and a POST.
* *Two runs, four events* (`measured_runs`): a call, its answer, and two events
  of the other run between them; or a batch and its answers. Traces of old or
  mixed proxies have two events, one of each or two of one; only their reports
  are exported, as exports look at a report and no further. 210 samples have the
  ranks of all three percentiles change at least twice.

`trace_file` treats its two writers as interchangeable (`SYMMETRY`), which is
sound because no definition names one of them, and what is checked are
invariants and a refinement without fairness.
Deadlock is checked in every run but `http_listen`, whose server may keep its
stream open and have nothing more to say.

Counters are bounded by these guards alone; the clocks count observations, so
equal stamps happen only where the code's do (`MeasuredRuns` takes stamps that
repeat and go back).

### Fairness

`StdioProxy!FairSpec`: each of the three threads takes a step if it can go on
(the operating system schedules threads that are not blocked), and whoever holds
the reading end of a pipe reads or closes it. The peers need not write, close or
exit. `FairFixture` has the same for the proxy, and for the peers that the
fixture, a loop in a process, takes its next step when it can and that the client
reads what comes back; it need not send or close. That the answers then come is
shown, not supposed: `ImplementsServer` contains `ServerFairness`.
`HttpProxy!FairSpec`: the handler's thread runs, and an
upstream that has been asked answers and sends what it has to send. The first
is written with `HandlerReady` for `ENABLED <<Handler>>_httpVars`, since TLC
evaluates that by trying the actions, with all they parse and observe; TLC has
found the two equal in every state of a smaller instance, and `HandlerMoves`
true of the steps of `Handler` and of no others. Clients need not do anything, and a client that reads nothing is left to the time limits of
the operating system. Weak fairness is enough everywhere, since a thread that
can go on stays able to until it does.

`stdio_live` uses payloads without items: what is measured does not decide
whether a thread of the proxy goes on.

## 4. What is proved

Six modules have the proofs of the components and of the sessions, two more the
lemmas that these share. Each theorem holds for every value of the constants: any
number of ids, payloads, connections and proxies, any capacity and any bound.

| Module | Theorem | States |
|---|---|---|
| `StdioProxyProofs` | `TypeCorrect` | `[]TypeOK` |
| | `RelayInOrder` | `[]LinesInOrder` |
| | `ProxyImplementsPipes` | `ImplementsPipes`, the refinement of `Relay` |
| | `TraceMatchesTraffic` | `[]ObservedExactly`, if no trace write fails |
| | `NothingMissing` | `[]RecordedAtExit`, if neither a trace write nor the observer fails |
| `SessionProofs` | `SessionInvariant` | `[]SessionInv`, if no trace write fails |
| | `RoundTripsAlwaysExact` | `[]RoundTripsExact`, likewise |
| | `ToolsAlwaysCredited` | `[]ToolsCredited`, likewise |
| | `PendingAlwaysUnanswered` | `[]PendingIsUnanswered`, likewise |
| | `FixtureIsServer` | `SessionSpec`: the fixture is a server as `StdioSession` supposes it |
| | `AnswersAlwaysFollow` | `[]AnswersFollow`, if no trace write fails |
| `TraceFileProofs` | `TraceTypeCorrect` | `[]TypeOK`, and an event taken for written has been begun and is not the one being written |
| | `EventsOrdered` | `[]EventsInOrder` |
| | `WrittenEventsRead` | `[]WrittenIsRead` |
| | `TraceImplementsLog` | `ImplementsLog`, the refinement of `TraceLog`, if every event fits the buffer |
| | `InterruptedReadable` | `[]InterruptedRunsReadable`, if every event fits the buffer |
| `ObserverLogProofs` | `TheMapIsLatest` | `[]PendingIsLatest` |
| | `NoRequestIsLost` | `[]RequestsConserved` |
| | `EventsAreHonest` | `[]KindsTellTheTruth` |
| `SseStreamProofs` | `ParserIsBounded` | `[]KeepsWithinLimit` |
| | `EventsAreOfStream` | `[]EventsOfStream` |
| `HttpProxyProofs` | `AlwaysIInv`, `AlwaysTypeOK` | `[]IInv`, `[]TypeOK` |
| | `AnswersAreUntouched` | `[]AnswersUntouched` |
| | `HeadersCross` | `[]HeadersEndToEnd` |
| | `RoutingIsAsSent` | `[]RoutingAsSent` |
| | `StreamsAreMeasured` | `[]StreamMeasured` |

### The stdio proxy

`TypeOK` is inductive by itself. `LinesInOrder` is not: that what the sink has
read is a prefix of what the source has written says nothing of what is on the
way. The strengthening `DirectionOK` says for each direction that until a write
has failed `log` is exactly `got`, the sink's pipe, the line in the thread's
hands and the source's pipe, one after the other; and that afterwards the sink's
end is closed, so that nothing more is read. Each action moves one line across
one of the three boundaries, or touches none.

The refinement of `Relay` needs one fact more (`EofOK`): a child that is gone has
closed its ends, and once the main thread has seen the end of the child's output,
that pipe is empty and no line can enter it later. With it, each step of the
proxy is one of the pipes: a line written is `Send`, a line
read is `Recv`, an end closed is `HangUp`, a failed write or a kill is `Break`,
and everything that the observer does is a stutter, whatever becomes of it.

`ObservedExactly` speaks of the trace and the channel, so its invariant
(`MeasuredOK`) ties them to the lines by phase: while a thread is writing, the
line in its hands has been observed already; otherwise what is observed is what
is forwarded. It also has what is needed after a failure, when the two part:
what is forwarded is a prefix of what is observed, and that one of `log`.
`RecordedAtExit` adds the order of the channel (`ChannelOK`): Shutdown is in it
exactly while the main thread waits for the acknowledgement, no line of the
child is behind it, and every line the child has read is before it; the thread
of the client may still be putting frames behind it. Once the observer is gone
(`Complete`), the trace has all of that.

### Sessions

`RoundTripsExact` and `ToolsCredited` compare each event with the trace before
it. Four things have to hold for the event that the observer appends next, and
`SessionInv` has them for the trace and what is still in the channel:

* `PeersOK`: what the peers keep to, in terms of what each has written and read.
  A server answers no more than it has read, and a client has at most one
  request under way with an id.
* `TurnsOK`: the same of the record (`trace \o chan`), at each of its places.
  This is where the proxy matters. The record is in no order that a peer has
  seen: two threads put lines into it. But a line is sent to the observer before
  it is written on, so what a server has read is recorded, and what is recorded
  was written (`MeasuredOK`, `DirectionOK`). Asked and answered therefore stay
  in step however the threads run.
* `HeldOK` and `StampsOK`: a request is stamped before its answer, also when the
  answer is still in the hands of the other thread. Without it the difference of
  two stamps need not be a latency.
* `MeasuresOK`: the map is a function of the trace (`PendingOf`): an id that has
  been asked once more than answered has its last request, with the tool and
  stamp of that; any other has none. And what the properties say holds of all
  events so far, which an event appended behind them does not change.

One item of a payload either asks (`Remembers`), answers (`Takes`) or does
neither (`Ignores`), and induction over the items gives the event. Requests of
the server under ids that its client uses as well are among those that do
neither.

That no write to the trace fails is a hypothesis, as in `TraceMatchesTraffic`: the
event of a failed write is lost, so an answer may be timed against a request that
the trace does not have. The run `session` has no such fault either. A panic of
the observer is allowed.

`FixtureOK` says that what the fixture has written is what it owes for the lines
it has read, or the first of it, and asks nothing. From that and
`DirectionOK` each of its steps is one that `StdioSession` allows its server
(`FixtureIsServer`): it answers what it has read, and exits when it owes
nothing. That it does answer, the fairness in `ImplementsServer`, is for TLC.
`AnswersAlwaysFollow` then is `TurnsOK` once more, for another relation: at each
place of the record the answers are `Replies` of the lines before, or the first
of them.

### The trace file

The order of the file says nothing of what is still in a buffer, and that order
nothing of what is yet to be put there. `IInv` has all three for each writer:
its pieces in the file are in order and come before those in its buffer, these
are in order, and all come before the piece it would put next. A write, whole or
torn off by an error, moves the first k pieces from buffer to file, and moving
keeps the order whatever k is, so `Spill`, `Flush` and `Close` need one
argument; what `Kill` loses can only leave gaps. `Kept` adds for `WrittenIsRead`
that each piece of an event under way is in the file or in the buffer, and that
an event reported as written is in the file as a whole.

Until a write fails (`Tidy`), a buffer holds the last pieces put of the event
under way, in their order and without gaps; it is empty when there is no such
event, and not when the newline has been put. `NeverSpills`: if every event fits,
a buffer is not emptied in the middle of one, so that it holds all that has been
put of its event (`Unspilled`), and the file is at every moment a sequence of
whole events. `InterruptedReadable` is that, said of `read_events`.

The refinement of `TraceLog` follows the reader through the file, piece by piece
(`LogOf`). Between writes no line is open (`Tidy` and `Unspilled`: the file ends
with a newline), and a buffer that is flushed is the pieces of one event in
order (`BufferIsEvent`), so what the reader makes of it is one line more, of that
event (`LogAddsEvent`). That the line is a later one than all of its proxy so
far is `LinesAreOlder`, which rests on the order of the pieces. A write that
fails, or a file that grows after one, takes no line away (`LogGrows`).
`trace_interrupted` shows that the condition on the size is needed.

### The observer

`Inspected` is a fold over the items of a payload, and each property looks at all
items of all payloads. `LogInv` has them for the whole log: `Met`, the items in
the order they were met, is the concatenation of those of the events. An item
appended to it keeps two facts. `LatestAll`, for `PendingIsLatest`: an item of
the client with an id and a method is the latest of its id and is what the map
has; an answer claims it; nothing else touches it (`LatestStep`). `Balance`, for
`RequestsConserved`: a request enters the map, or displaces the one there, which
is by `LatestAll` the last to have touched its id, and so the one that the
property calls displaced; an answer moves one from the map to the latencies
(`BalanceStep`). `AccountedItems` carries both through a payload, by induction
over its items, and `FeedInv` through the log.

### The parser

`EventsOfStream` compares what the parser has returned with a reading of the
whole stream by the positions of its newlines, which are known when the stream
is over. The link is what of a stream is open (`OpenLine`, `OpenValues`): the
bytes behind its last newline, and the data lines behind its last blank line. A
parser that has been given `s` has exactly that (`Keeps`), unless the values are
over the limit, when it only knows so. A byte that is no newline makes the open
line longer; a newline closes a line, which is blank, or adds a value, or says
nothing; and a blank line makes an event of the open values. In each case the
events of `s` with the byte are those of `s` and what the parser has just
returned (`Tracks`), so a chunk returns what it adds, wherever it was cut.
`finish` does what two more newlines would.

`KeepsWithinLimit` is inductive for one byte (`TakeByteGood`), and `Push` is a
fold of that over a chunk of any length. `PayloadLemmas` has it over any set of
bytes, so the HTTP proxy, whose bytes are payloads as well, uses the same lemma
to type its parser.

### The HTTP proxy

`IInv` says where every connection is. `QueueOK`: requests are taken in the order
they came, and nothing has happened to those that wait. `HandlerOK`: there is an
upstream exactly while one is handled, and what its client has, the chunk that
is about to be passed on and what the upstream has yet to send are together the
answer that was sent. `ExchangesOK`: a finished exchange has its whole answer, or
a reason not to. `TraceOK`: each entry is about a request that has been
forwarded, with the routing of the head that was sent. From that
`AnswersUntouched` follows, however the answer is cut and whether or not there
is room for the trace.

`HeadersEndToEnd` and `RoutingAsSent` then are about the functions of
`HttpHeaders`, for heads of any length: what `UpstreamHeaders` leaves of a name
is all its values, or the last one; each header of an answer adds all those of
its name, one that is given once adds itself once (`ResponseOnce`); and what
`AllowlistedHeaderValue` returns is the only value of its name.

`StreamsAreMeasured` puts the parser, the observer and the handler together.
`StreamMeasured` alone is not inductive: it knows nothing of the parser, nor of a
chunk that is observed and not yet delivered. `MeasuresOK` adds both, while
events can be written: of a request that waits nothing is recorded; what is
recorded of a stream begins with the messages of what its client has; and while
the stream goes on, the parser `Keeps` what it has been given (`Held`: with the
chunk in hand, if there is one) and the record is exactly the messages of that.
Three facts carry it through `ReadChunk`: the parser returns the events a chunk
adds (`Tracks`), the filter on JSON-RPC distributes over concatenation
(`JsonRpcCat`), and `Observe` appends the events of its payloads and no others
(`ObservePayloads`). The end of a stream, whether the upstream closes or fails,
is `finish`. What the record has of one exchange is `Keep` of the trace, and
entries of others do not count (`SeenStays`).

### Induction, folds, and what the proofs assume

An induction theorem that takes a predicate cannot be used here, so
`SequenceLemmas` proves the two forms the proofs need about sets: a set of numbers
has a least element, and a set with the empty sequence that is closed under
`Append` has every sequence. It also has what holds of every left fold (the empty
sequence, `Append`, the type, and what is mapped or filtered by one); a module
names the step of its fold and takes these facts through `INSTANCE SequenceLemmas
WITH op <- ...`. So what a fold computes can be proved of sequences of any length
where one step has an invariant.

The assumptions on constants, which TLC evaluates in every run of their modules:

* `NoneAssumption`, `NoFrameAssumption`: the absent value is none of the values
  that may be present.
* `StdioProxyAssumption`, `TraceFileAssumption`: capacities are positive, bounds
  are natural numbers, an event has a newline and something before it.
* `ObserverLogAssumption`: payloads are payloads, and one that is JSON and no
  array is one item, which is how `inspect_value` meets it.
* `SseParserAssumption`, `SseStreamAssumption`: the bytes that the parser knows
  are five different ones, the limit is a natural number, chunks are sequences.
* `HttpProxyAssumption`: requests and replies have a head and a body of the
  kinds that the model knows, and a reply is an error, direct or a stream.

The theorems with hypotheses of their own, in the table, are about runs in which
a kind of fault does not happen, as the properties are in the runs that check
them; runs with the fault are in the other theorems.

## 5. What is only model-checked

* *Liveness*, and refinements that contain fairness: `ExitsAfterChild`,
  `DeliversLines`, `SessionEnds`, `RequestsMeasured`, `EveryRequestServed`,
  `ImplementsServer`. Fairness is outside the prover.
* *Properties about what an earlier exchange left* (`OwnRoundTrips`,
  `LeftoversAreFailures`, `MeasuredAlike`). They hold for the servers of the runs,
  which answer what they were asked and nothing else. `Spec` of `HttpProxy` lets a
  server answer anything, and with one that answers another exchange's request, or
  leaves its own unanswered, the first two are false, as they should be. For any
  value of the constants they need a hypothesis about answers, and with it what
  `SessionInv` has for two peers.
* *The readers* (`MeasuredRuns`). They sort, sum and render whole traces;
  `PercentilesExact`, `CsvReadBack` and `HtmlReadBack` compare recursive functions
  and sorts (`SortSeq`, a `CHOOSE` over permutations) with a reference.

## 6. Plan

Done: all components that keep state, each with its composition (stdio proxy,
sessions and fixture; HTTP proxy and fixture; trace, schema, readers and
exports), three abstract specifications, of which two are proved to be
implemented and the third but for its fairness, and the theorems of section 4.
Left:

1. *HTTP.* `LeftoversAreFailures` and `OwnRoundTrips` under a named hypothesis
   that an answer carries only ids of its request, with the map as a function of
   the trace, as `PendingOf` is.
2. *Readers.* `LatestIsFirst` and `LedgerInOrder`, whose definitions are by
   maximum and count, and the totals as folds.
3. *Model.* `stdio_safety` with faults of the trace and kills together.

## 7. What is not modelled

* Failures before the first line or request (no command, an upstream without a
  scheme, no directory, no child, no socket): `run` returns at once.
* Errors of `read_until`, which a pipe does not have, and panics of the relaying
  threads.
* Time limits and buffering inside `tiny_http` and `ureq`, and the URL that is
  put together for the upstream; a client that sends its body slowly.
* Headers that `tiny_http` and `ureq` add of their own (`Date`, `Server`,
  `User-Agent`, `Accept`), and status codes other than MCPMeter's own.
* A session in which all pipes are full at once, with a client that does not
  read: see the bounds of `session_end`.
* The encodings of `tokenizer.rs`, which are `tiktoken`'s: a payload has its
  number of tokens, and the estimate is made of its length. Hashes of payloads,
  texts of errors.
* Printing, and in the exports the style sheet, units and decimals and the one
  call that writes the file.
* `main.rs` but for how commands find their run: arguments are `clap`'s, and
  dispatch is a match. Names of runs.
* Overflow of the 64-bit totals, which add up sizes of messages that were in
  memory.
* Of the fixtures, the numbers and texts in their results; a body that is no
  UTF-8 ends the HTTP fixture and is an upstream that fails.
