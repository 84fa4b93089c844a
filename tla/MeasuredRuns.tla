---------------------------- MODULE MeasuredRuns ----------------------------
(***************************************************************************)
(* A trace that several runs append to at once, as the proxies write it,   *)
(* and what the readers of TraceReaders say of it at every moment.         *)
(*                                                                         *)
(* The two threads of a proxy take the time of a frame before they send it *)
(* to the observer, so the events of a run may be a little out of order in *)
(* the file.                                                               *)
(***************************************************************************)
EXTENDS Export, MeasurementEvent

CONSTANTS Runs,          \* a set of numbers
          Setups,        \* which proxies have written the trace
          Payloads,      \* by setup
          Exported,      \* bound: those of them whose reports are exported
          MaxEvents,     \* bound, by setup
          MaxSamples     \* bound: latencies of a run

Transports == {"stdio", "streamable_http"}

Profiles == {"o200k_base", "cl100k_base", "bytes4_estimate"}

(* The proxy of a run: its transport, the schema it writes, the tokenizer  *)
(* it counts with, and whether it captures payloads.  Before version 4     *)
(* there were events of the stdio proxy only.                              *)
Proxy == { p \in [transport : Transports, version : 1..5, tokenizer : Profiles,
                  capture : BOOLEAN] : p.version < 4 => p.transport = "stdio" }

ASSUME MeasuredRunsAssumption ==
    /\ Runs \subseteq Nat
    /\ Setups \subseteq [Runs -> Proxy] /\ Exported \subseteq Setups
    /\ MaxEvents \in [Setups -> Nat] /\ MaxSamples \in Nat

VARIABLES setup,
          measured,   \* the events as the proxies had them in memory
          trace,      \* what read_events makes of the lines they became
          pending     \* pending[r]: the map of the proxy of run r

runVars == <<setup, measured, trace, pending>>

clock == Len(trace)

Init ==
    /\ setup \in Setups
    /\ measured = <<>>
    /\ trace = <<>>
    /\ pending = [r \in Runs |-> NoPending]

(* Peers that follow JSON-RPC: the client asks under a free id, the server *)
(* answers what it was asked.                                              *)
Legal(r, dir, p) ==
    \A k \in DOMAIN p.items :
        LET item == p.items[k] IN
        IF item.id = None THEN TRUE
        ELSE IF item.method # None
        THEN dir = "c2s" /\ pending[r][item.id] = None
        ELSE dir = "s2c" /\ pending[r][item.id] # None

(* The length of a text of so many tokens, by and large.                   *)
Bytes(p) == 3 * p.tokens + 2

(* TokenizerProfile::count, and is_estimate.                               *)
Count(profile, p) ==
    IF profile = "bytes4_estimate" THEN (Bytes(p) + 3) \div 4 ELSE p.tokens

Some(n) == IF n = Absent THEN None ELSE n

(* The event of a payload.  A proxy without wire bytes is one of HTTP,     *)
(* where a request may have a header that names its method.                *)
EventOf(r, dir, p, ts, observed) ==
    LET facts == observed.facts
        stdio == setup[r].transport = "stdio"
    IN  [schema_version |-> 5, run_id |-> r, ts_unix_ns |-> ts,
         transport |-> setup[r].transport,
         http_mcp_method |-> IF stdio \/ dir = "s2c" \/ p.batch THEN None ELSE "other",
         direction |-> dir, kind |-> observed.kind,
         wire_bytes |-> IF stdio THEN Bytes(p) + 1 ELSE None,
         payload_bytes |-> Bytes(p),
         serialized_tokens |-> Count(setup[r].tokenizer, p),
         tokenizer |-> setup[r].tokenizer,
         token_count_estimated |-> setup[r].tokenizer = "bytes4_estimate",
         raw_payload |-> IF setup[r].capture THEN p ELSE None,
         methods |-> facts.methods, tools |-> facts.tools,
         request_count |-> facts.requests, response_count |-> facts.responses,
         notification_count |-> facts.notifications, tool_call_count |-> facts.calls,
         tools_exposed |-> Some(facts.exposed), schema_tokens |-> Some(facts.schema),
         latencies_us |-> facts.latencies, ok |-> facts.ok,
         parse_error |-> IF p.json THEN None ELSE "expected value"]

Record(r, dir, p, ts) ==
    LET o == ObservePayloadAt(p, dir, pending[r], ts)
        e == EventOf(r, dir, p, ts, o.event)
    IN  /\ measured' = Append(measured, e)
        /\ trace' = Append(trace, Deserialize(SerializeAt(setup[r].version, e)))
        /\ pending' = [pending EXCEPT ![r] = o.pending]
        /\ UNCHANGED setup

Next ==
    \/ /\ Len(trace) < MaxEvents[setup]
       /\ \E r \in Runs, dir \in Directions, p \in Payloads[setup] :
            /\ Legal(r, dir, p)
            /\ \E ts \in {Max({clock - 1, 0}), clock + 1} : Record(r, dir, p, ts)
    \/ Len(trace) = MaxEvents[setup] /\ UNCHANGED runVars

Spec == Init /\ [][Next]_runVars

-----------------------------------------------------------------------------
Own(r) == SelectRun(trace, r)

(* Reading a trace gives back what was measured, whatever proxy wrote it:  *)
(* what its schema had no field for is unknown and never made up, and an   *)
(* event without a transport is one of stdio (docs/TRACE_FORMAT.md:7).     *)
TraceReadBack ==
    \A k \in DOMAIN trace : \A f \in Fields :
        LET r == measured[k].run_id IN
        trace[k][f] =
            CASE f = "schema_version"          -> setup[r].version
              [] Since[f] <= setup[r].version  -> measured[k][f]
              [] f = "transport"               -> "stdio"
              [] OTHER                         -> None

(* runs, report and tokens count the same events in different ways, in     *)
(* orders of their own, and come to the same totals for each run; compare  *)
(* shows the differences of these, and none that one side does not have or *)
(* that would be one of different tokenizers (docs/TRACE_FORMAT.md:136).   *)
TotalsAgree ==
    LET entries == AggregateRuns(trace)
        reports == [r \in RunsIn(trace) |-> ReportCommand(trace, r)]
    IN  \A k \in DOMAIN entries :
        LET entry  == entries[k]
            report == reports[entry.run_id]
            row    == Last(TokensCommand(trace, entry.run_id))
            next   == entries[(k % Len(entries)) + 1]
            delta  == CompareReports(report, reports[next.run_id])
        IN  /\ entry.messages = report.messages
            /\ entry.tokens = report.tokens_total
            /\ entry.calls = report.calls
            /\ entry.errors = report.errors
            /\ entry.wire = report.wire_total
            /\ entry.payload = report.payload_total
            /\ entry.estimated = report.estimated
            /\ row.tokens = report.tokens
            /\ row.total = report.tokens_total
            /\ report.schema # None => report.schema <= row.schema
            /\ IF delta = None THEN entry.tokenizer # next.tokenizer
               ELSE /\ entry.tokenizer = next.tokenizer
                    /\ delta.tokens = next.tokens - entry.tokens
                    /\ delta.wire = None <=> None \in {entry.wire, next.wire}
                    /\ delta.payload = None <=> None \in {entry.payload, next.payload}

(* The run the commands take when none is named is the first one of the    *)
(* list, which is sorted "newest first" (src/src/main.rs:137), also while  *)
(* several proxies write; events of one instant are left out.              *)
LatestIsFirst ==
    LET at(k) == trace[k].ts_unix_ns
        newest == { k \in DOMAIN trace : \A j \in DOMAIN trace : at(j) <= at(k) }
    IN  Cardinality(newest) = 1 =>
            ReportCommand(trace, None).run_id = AggregateRuns(trace)[1].run_id

(* The ledger never goes back, in time or in tokens, though the file may.  *)
LedgerInOrder ==
    \A r \in RunsIn(trace) :
        LET rows == TokenLedger(Own(r)) IN
        \A k \in DOMAIN rows :
            /\ rows[k].elapsed >= 0
            /\ k > 1 => /\ rows[k - 1].elapsed <= rows[k].elapsed
                        /\ rows[k - 1].total <= rows[k].total

(* The tokens of every call and of every answer to one are charged once: a *)
(* tool is charged for the payloads that hold its call, or the answer to   *)
(* it, and nothing else; the rest is the batches' (README.md:28).          *)
ChargedOnce ==
    \A r \in RunsIn(trace) :
        LET cost == ToolsCommand(trace, r)
            of(t) == cost.tools[t].cost
            own(dir, lone) == SelectSeq(measured, LAMBDA e :
                /\ e.run_id = r /\ e.direction = dir /\ e.tools # <<>>
                /\ lone => e.kind # "batch")
            lone(t, dir) == SelectSeq(own(dir, TRUE), LAMBDA e : e.tools = <<t>>)
            sum(f(_)) == FoldSet(LAMBDA t, n : n + f(of(t)), 0, Tools)
        IN  /\ \A t \in Tools :
                 /\ \A d \in Directions : of(t).tokens[d] = Total(lone(t, d), Tokens)
                 /\ cost.tools[t].total_tokens =
                        Total(lone(t, "c2s"), Tokens) + Total(lone(t, "s2c"), Tokens)
                 /\ of(t).errors <= of(t).calls
                 /\ cost.tools[t].samples <= of(t).calls
            /\ \A d \in Directions :
                 sum(LAMBDA c : c.tokens[d]) + cost.batch.tokens[d]
                    = Total(own(d, FALSE), Tokens)
            /\ sum(LAMBDA c : c.calls) = BuildReport(Own(r)).calls

(* The least sample that p% of the samples do not exceed.                  *)
IsPercentile(v, p, samples) ==
    LET upto  == Cardinality({ k \in DOMAIN samples : samples[k] <= v })
        under == Cardinality({ k \in DOMAIN samples : samples[k] < v })
    IN  IF samples = <<>> THEN v = None
        ELSE /\ v \in ToSet(samples)
             /\ 100 * upto >= p * Len(samples)
             /\ 100 * under < p * Len(samples)

RanksExact ==
    \A n \in 0..MaxSamples, p \in {50, 95, 99} :
        LET samples == [k \in 1..n |-> k]
        IN  IsPercentile(Percentile(samples, p), p, samples)

(* percentile_ms is exact and never out of range for every number of       *)
(* samples, and a report gives the percentiles of all latencies of its     *)
(* run, none where there are none, in whatever order they were measured;   *)
(* and no latency is negative, whatever clock stamped request and answer.  *)
PercentilesExact ==
    /\ RanksExact
    /\ \A r \in RunsIn(trace) :
          LET report == BuildReport(Own(r))
              all    == Concat(Own(r), LAMBDA e : e.latencies_us)
          IN  /\ all \in Seq(Nat)
              /\ IsPercentile(report.p50, 50, all)
              /\ IsPercentile(report.p95, 95, all)
              /\ IsPercentile(report.p99, 99, all)

-----------------------------------------------------------------------------
(* A reader of CSV as RFC 4180 has it: commas and newlines behind an even  *)
(* number of quotes end a field; of the quotes in a field the first of two *)
(* is dropped, and so are those around it.                                 *)
Quotes(text, k) == Cardinality({ j \in 1..k : text[j] = "\"" })

Places(text) == [k \in DOMAIN text |-> k]

Unquoted(field) ==
    LET kept == SelectSeq(Places(field), LAMBDA k :
                    field[k] = "\"" => k > 1 /\ Quotes(field, k) % 2 = 1)
    IN  [n \in DOMAIN kept |-> field[kept[n]]]

ReadCsv(text) ==
    LET ends == SelectSeq(Places(text), LAMBDA k :
                    text[k] \in {",", "\n"} /\ Quotes(text, k) % 2 = 0)
        start(n) == IF n = 1 THEN 1 ELSE ends[n - 1] + 1
    IN  [n \in DOMAIN ends |->
            <<Unquoted(SubSeq(text, start(n), ends[n] - 1)), text[ends[n]]>>]

(* A spreadsheet that opens the exported CSV sees every value of the       *)
(* report as it is, whatever is in the names of the tools.                 *)
CsvReadBack ==
    setup \in Exported => \A r \in RunsIn(trace) :
        LET report == ReportCommand(trace, r)
            cells  == ReadCsv(RenderCsv(report))
            rows   == CsvRows(report)
        IN  /\ Len(cells) = 2 * Len(rows)
            /\ \A n \in DOMAIN rows :
                  cells[2 * n - 1] = <<rows[n][1], ",">> /\ cells[2 * n] = <<rows[n][2], "\n">>

(* What a browser makes of a text: entities decoded, one after the other.  *)
Decoded(text) ==
    LET at(k, e) == IsPrefix(e[2], SubSeq(text, k, Len(text)))
        from[k \in 1..Len(text) + 1] ==
            IF k > Len(text) THEN <<>>
            ELSE LET here == SelectSeq(Entities, LAMBDA e : at(k, e))
                 IN  IF here = <<>> THEN <<text[k]>> \o from[k + 1]
                     ELSE <<here[1][1]>> \o from[k + Len(here[1][2])]
    IN  from[1]

(* The exported page shows the names of the tools as they are, and they    *)
(* add no markup to it.                                                    *)
HtmlReadBack ==
    setup \in Exported => \A r \in RunsIn(trace) :
        LET report == ReportCommand(trace, r)
            page   == RenderHtml(report)
            start  == SelectInSeq(page, LAMBDA c : c = "Tools")
            rest   == SubSeq(page, start + 2, Len(page))
            cell   == SubSeq(rest, 1, SelectInSeq(rest, LAMBDA c : c = "</td></tr>\n") - 1)
        IN  /\ ToSet(page) \cap {"<", ">", "\"", "'"} = {}
            /\ report.tools # {} => Decoded(cell) = Joined(report.tools, <<",", " ">>)
=============================================================================
