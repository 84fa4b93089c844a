---------------------------- MODULE TraceReaders ----------------------------
(***************************************************************************)
(* What the commands report, runs, tokens, tools and compare make of the   *)
(* events of a trace: src/src/main.rs, trace.rs, runs.rs, report.rs,       *)
(* token_ledger.rs, tool_cost.rs, compare.rs.  Events are those of         *)
(* MeasurementEvent; an optional number that is not there is None.  Runs   *)
(* are numbers, ordered as their ids are.  What is printed is left out.    *)
(***************************************************************************)
EXTENDS Observer, FiniteSetsExt

(* Sums over a sequence; one absent value makes the sum of bytes absent.   *)
Total(s, f(_)) == FoldLeft(LAMBDA n, e : n + f(e), 0, s)

AddOptional(total, value) ==
    IF None \in {total, value} THEN None ELSE total + value

Sum(s, f(_)) == FoldLeft(LAMBDA n, e : AddOptional(n, f(e)), 0, s)

Wire(e) == e.wire_bytes
Payload(e) == e.payload_bytes
Calls(e) == e.tool_call_count
Tokens(e) == e.serialized_tokens
Failed(e) == IF e.ok THEN 0 ELSE 1

Estimated(s) == \E k \in DOMAIN s : s[k].token_count_estimated

Concat(s, f(_)) == FoldLeft(LAMBDA all, e : all \o f(e), <<>>, s)

Sorted(s) == SortSeq(s, <)

(* Mistakes for the mutants, before the definition each one changes: a     *)
(* rank rounded down; the run of the last event of the file; the ledger in *)
(* the order of the file, or without what came before; a batch with one    *)
(* call charged to its tool.                                               *)
PercentileFloor(samples, p) ==
    IF samples = <<>> THEN None
    ELSE samples[Max({1, (p * Len(samples)) \div 100})]

(* percentile_ms: the sample of rank ceil(p% of their number).  (The code  *)
(* multiplies doubles; for 50, 95 and 99% they round to the same rank.)    *)
Percentile(samples, p) ==
    IF samples = <<>> THEN None
    ELSE samples[Min({Len(samples),
                      Max({1, (p * Len(samples) + 99) \div 100})})]

-----------------------------------------------------------------------------
LatestRunInFile(events) == Last(events).run_id

(* select_run without a run: that of the latest event, the last such event *)
(* of the file if there are several.                                       *)
LatestRun(events) ==
    LET newest == Max({ events[k].ts_unix_ns : k \in DOMAIN events })
    IN  events[Max({ k \in DOMAIN events : events[k].ts_unix_ns = newest })].run_id

SelectRun(events, run) == SelectSeq(events, LAMBDA e : e.run_id = run)

(* What a command reads; it fails when there is nothing.                   *)
Selected(events, requested) ==
    IF events = <<>> THEN <<>>
    ELSE SelectRun(events, IF requested = None THEN LatestRun(events) ELSE requested)

RunsIn(events) == { events[k].run_id : k \in DOMAIN events }

OneTokenizer(own) ==
    \A k \in DOMAIN own : own[k].tokenizer = own[1].tokenizer

(* aggregate_runs: the entry of one run, and the runs from the one with    *)
(* the latest event on.                                                    *)
RunEntry(events, run) ==
    LET own == SelectRun(events, run)
    IN  [run_id |-> run, messages |-> Len(own), tokens |-> Total(own, Tokens),
         calls |-> Total(own, Calls), errors |-> Total(own, Failed),
         wire |-> Sum(own, Wire), payload |-> Sum(own, Payload),
         first |-> Min({ own[k].ts_unix_ns : k \in DOMAIN own }),
         last |-> Max({ own[k].ts_unix_ns : k \in DOMAIN own }),
         tokenizer |-> IF OneTokenizer(own) THEN own[1].tokenizer ELSE "mixed",
         estimated |-> Estimated(own) \/ ~OneTokenizer(own)]

AggregateRuns(events) ==
    LET entries == { RunEntry(events, run) : run \in RunsIn(events) }
    IN  SetToSortSeq(entries, LAMBDA a, b :
            a.last > b.last \/ (a.last = b.last /\ a.run_id < b.run_id))

-----------------------------------------------------------------------------
(* build_report, of the events of one run.                                 *)
BuildReport(own) ==
    LET way(dir)  == SelectSeq(own, LAMBDA e : e.direction = dir)
        latencies == Sorted(Concat(own, LAMBDA e : e.latencies_us))
        last(f(_)) == LET some == SelectSeq(own, LAMBDA e : f(e) # None)
                      IN  IF some = <<>> THEN None ELSE f(Last(some))
        wire      == [d \in Directions |-> Sum(way(d), Wire)]
        payload   == [d \in Directions |-> Sum(way(d), Payload)]
    IN  [run_id        |-> own[1].run_id,
         tokenizer     |-> own[1].tokenizer,
         estimated     |-> Estimated(own),
         messages      |-> Len(own),
         requests      |-> Total(own, LAMBDA e : e.request_count),
         responses     |-> Total(own, LAMBDA e : e.response_count),
         notifications |-> Total(own, LAMBDA e : e.notification_count),
         calls         |-> Total(own, Calls),
         errors        |-> Total(own, Failed),
         tools         |-> UNION { ToSet(own[k].tools) : k \in DOMAIN own },
         exposed       |-> last(LAMBDA e : e.tools_exposed),
         schema        |-> last(LAMBDA e : e.schema_tokens),
         wire          |-> wire,
         wire_total    |-> AddOptional(wire["c2s"], wire["s2c"]),
         payload       |-> payload,
         payload_total |-> AddOptional(payload["c2s"], payload["s2c"]),
         tokens        |-> [d \in Directions |-> Total(way(d), Tokens)],
         tokens_total  |-> Total(own, Tokens),
         samples       |-> Len(latencies),
         p50           |-> Percentile(latencies, 50),
         p95           |-> Percentile(latencies, 95),
         p99           |-> Percentile(latencies, 99),
         max           |-> IF latencies = <<>> THEN None ELSE Last(latencies)]

(* compare_reports: None when the tokenizers differ, and None for what one *)
(* of the reports does not have.                                           *)
Delta(a, b) == IF None \in {a, b} THEN None ELSE b - a

CompareReports(a, b) ==
    IF a.tokenizer # b.tokenizer THEN None
    ELSE [tokens    |-> Delta(a.tokens_total, b.tokens_total),
          estimated |-> a.estimated \/ b.estimated,
          wire      |-> Delta(a.wire_total, b.wire_total),
          payload   |-> Delta(a.payload_total, b.payload_total),
          calls     |-> Delta(a.calls, b.calls),
          errors    |-> Delta(a.errors, b.errors),
          schema    |-> Delta(a.schema, b.schema),
          exposed   |-> Delta(a.exposed, b.exposed),
          p50       |-> Delta(a.p50, b.p50),
          p95       |-> Delta(a.p95, b.p95),
          p99       |-> Delta(a.p99, b.p99)]

-----------------------------------------------------------------------------
ByFile(own) == own

(* build_from_selected of the token ledger: the events in the order of     *)
(* their times (equal ones as in the file) with the tokens so far.         *)
ByTime(own) ==
    LET at(k) == own[k].ts_unix_ns
        earlier(j, k) == at(j) < at(k) \/ (at(j) = at(k) /\ j < k)
        order == SetToSortSeq(DOMAIN own, earlier)
    IN  [n \in DOMAIN own |-> own[order[n]]]

NoRow == [elapsed |-> 0, tokens |-> [d \in Directions |-> 0], total |-> 0, schema |-> 0]

CountedLast(tokens, e) == [tokens EXCEPT ![e.direction] = Tokens(e)]

Counted(tokens, e) == [tokens EXCEPT ![e.direction] = @ + Tokens(e)]

LedgerRow(rows, first, e) ==
    LET past == IF rows = <<>> THEN NoRow ELSE Last(rows)
        now  == Counted(past.tokens, e)
    IN  [elapsed |-> e.ts_unix_ns - first, tokens |-> now,
         total |-> now["c2s"] + now["s2c"],
         schema |-> past.schema + (IF e.schema_tokens = None THEN 0 ELSE e.schema_tokens)]

TokenLedger(own) ==
    LET sorted == ByTime(own)
        step(rows, e) == Append(rows, LedgerRow(rows, sorted[1].ts_unix_ns, e))
    IN  IF OneTokenizer(own) THEN FoldLeft(step, <<>>, sorted) ELSE None

-----------------------------------------------------------------------------
(* summarize_selected of tool_cost: what each tool cost, and what cannot   *)
(* be attributed because several messages share a payload.  A tool without *)
(* an accumulator is one that has cost nothing.                            *)
NoCost ==
    LET zero == [d \in Directions |-> 0]
    IN  [calls |-> 0, tokens |-> zero, wire |-> zero, payload |-> zero,
         errors |-> 0, latencies |-> <<>>]

Charge(cost, e) ==
    LET d == e.direction
    IN  [cost EXCEPT !.tokens[d] = @ + Tokens(e),
                     !.wire[d] = AddOptional(@, Wire(e)),
                     !.payload[d] = AddOptional(@, Payload(e))]

SharedUnlessOneCall(e) == Len(e.tools) # 1

Shared(e) == e.kind = "batch" \/ Len(e.tools) # 1

ChargeRequest(sum, e) ==
    IF Shared(e)
    THEN [sum EXCEPT
            !.tools = FoldLeft(LAMBDA c, t : [c EXCEPT ![t].calls = @ + 1], @, e.tools),
            !.batch = Charge(@, e)]
    ELSE LET t == e.tools[1]
         IN  [sum EXCEPT !.tools[t] = [Charge(@, e) EXCEPT !.calls = @ + Calls(e)]]

ChargeResponse(sum, e) ==
    IF Shared(e) THEN [sum EXCEPT !.batch = Charge(@, e)]
    ELSE IF e.kind # "tools_call_response" THEN sum
    ELSE LET t == e.tools[1]
         IN  [sum EXCEPT !.tools[t] = [Charge(@, e) EXCEPT
                                         !.errors = @ + Failed(e),
                                         !.latencies = @ \o e.latencies_us]]

(* The row of a tool: its costs with their totals.                         *)
ToolRow(cost) ==
    LET sorted == Sorted(cost.latencies)
        both(f) == AddOptional(f["c2s"], f["s2c"])
    IN  [cost |-> cost, samples |-> Len(sorted),
         total_tokens |-> both(cost.tokens), total_wire |-> both(cost.wire),
         total_payload |-> both(cost.payload),
         p50 |-> Percentile(sorted, 50), p95 |-> Percentile(sorted, 95),
         p99 |-> Percentile(sorted, 99)]

ToolCost(own) ==
    LET start == [tools |-> [t \in Tools |-> NoCost], batch |-> NoCost]
        step(sum, e) ==
            CASE e.direction = "c2s" /\ Calls(e) > 0      -> ChargeRequest(sum, e)
              [] e.direction = "s2c" /\ e.tools # <<>>    -> ChargeResponse(sum, e)
              [] OTHER                                    -> sum
        sum == FoldLeft(step, start, own)
    IN  IF ~OneTokenizer(own) THEN None
        ELSE [tools |-> [t \in Tools |-> ToolRow(sum.tools[t])], batch |-> sum.batch,
              estimated |-> Estimated(own)]

-----------------------------------------------------------------------------
(* The commands, which give nothing when their run has no event.           *)
ReportCommand(events, requested) ==
    LET own == Selected(events, requested)
    IN  IF own = <<>> THEN None ELSE BuildReport(own)

TokensCommand(events, requested) ==
    LET own == Selected(events, requested)
    IN  IF own = <<>> THEN None ELSE TokenLedger(own)

ToolsCommand(events, requested) ==
    LET own == Selected(events, requested)
    IN  IF own = <<>> THEN None ELSE ToolCost(own)
=============================================================================
