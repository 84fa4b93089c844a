------------------------------- MODULE Export -------------------------------
(***************************************************************************)
(* The files that the command export writes: src/src/export.rs.  A text is *)
(* a sequence of characters; a number, a key and a tag of the template are *)
(* one character each.  Names of tools are texts.  The style sheet, units  *)
(* and decimals are left out.                                              *)
(***************************************************************************)
EXTENDS TraceReaders

Replace(text, c, by) ==
    IF ~Contains(text, c) THEN text
    ELSE FlattenSeq([k \in DOMAIN text |-> IF text[k] = c THEN by ELSE <<text[k]>>])

Number(n) == IF n = None THEN <<>> ELSE <<ToString(n)>>

Dash(n) == IF n = None THEN <<"no value">> ELSE <<ToString(n)>>

(* unique_tools.join; the report has the names in some fixed order.        *)
Joined(names, separator) ==
    FoldLeft(LAMBDA text, name : IF text = <<>> THEN name ELSE text \o separator \o name,
             <<>>, SetToSeq(names))

-----------------------------------------------------------------------------
(* Mistakes for the mutants: quotes are not doubled; "&" comes last.       *)
CsvEscapeBare(value) ==
    IF ToSet(value) \cap {",", "\"", "\n", "\r"} = {} THEN value
    ELSE <<"\"">> \o value \o <<"\"">>

CsvEscape(value) ==
    IF ToSet(value) \cap {",", "\"", "\n", "\r"} = {} THEN value
    ELSE <<"\"">> \o Replace(value, "\"", <<"\"", "\"">>) \o <<"\"">>

CsvRow(row) == CsvEscape(row[1]) \o <<",">> \o CsvEscape(row[2]) \o <<"\n">>

CsvRows(r) ==
    << <<<<"metric">>, <<"value">>>>,
       <<<<"run_id">>, Number(r.run_id)>>,
       <<<<"tokenizer">>, <<r.tokenizer>>>>,
       <<<<"token_count_estimated">>, Number(r.estimated)>>,
       <<<<"messages">>, Number(r.messages)>>,
       <<<<"requests">>, Number(r.requests)>>,
       <<<<"responses">>, Number(r.responses)>>,
       <<<<"notifications">>, Number(r.notifications)>>,
       <<<<"tool_calls">>, Number(r.calls)>>,
       <<<<"unique_tools_called">>, Number(Cardinality(r.tools))>>,
       <<<<"tools">>, Joined(r.tools, <<",">>)>>,
       <<<<"tools_exposed">>, Number(r.exposed)>>,
       <<<<"schema_tokens">>, Number(r.schema)>>,
       <<<<"wire_bytes_client_to_server">>, Number(r.wire["c2s"])>>,
       <<<<"wire_bytes_server_to_client">>, Number(r.wire["s2c"])>>,
       <<<<"wire_bytes_total">>, Number(r.wire_total)>>,
       <<<<"payload_bytes_client_to_server">>, Number(r.payload["c2s"])>>,
       <<<<"payload_bytes_server_to_client">>, Number(r.payload["s2c"])>>,
       <<<<"payload_bytes_total">>, Number(r.payload_total)>>,
       <<<<"serialized_tokens_client_to_server">>, Number(r.tokens["c2s"])>>,
       <<<<"serialized_tokens_server_to_client">>, Number(r.tokens["s2c"])>>,
       <<<<"serialized_tokens_total">>, Number(r.tokens_total)>>,
       <<<<"error_events">>, Number(r.errors)>>,
       <<<<"latency_samples">>, Number(r.samples)>>,
       <<<<"latency_p50_ms">>, Number(r.p50)>>,
       <<<<"latency_p95_ms">>, Number(r.p95)>>,
       <<<<"latency_p99_ms">>, Number(r.p99)>>,
       <<<<"latency_max_ms">>, Number(r.max)>> >>

RenderCsv(r) == Concat(CsvRows(r), CsvRow)

-----------------------------------------------------------------------------
(* The five characters and what stands for them, in the order in which     *)
(* escape_html replaces them.                                              *)
Entities ==
    << <<"&", <<"&", "a", "m", "p", ";">>>>,
       <<"<", <<"&", "l", "t", ";">>>>,
       <<">", <<"&", "g", "t", ";">>>>,
       <<"\"", <<"&", "q", "u", "o", "t", ";">>>>,
       <<"'", <<"&", "#", "3", "9", ";">>>> >>

EscapeHtmlLate(value) ==
    FoldLeft(LAMBDA text, e : Replace(text, e[1], e[2]), value, Reverse(Entities))

EscapeHtml(value) ==
    FoldLeft(LAMBDA text, e : Replace(text, e[1], e[2]), value, Entities)

HtmlRow(row) ==
    <<"<tr><th>">> \o EscapeHtml(row[1]) \o <<"</th><td>">> \o row[2] \o <<"</td></tr>\n">>

Slash(f) == Dash(f["c2s"]) \o <<" / ">> \o Dash(f["s2c"])

HtmlRows(r) ==
    << <<<<"Messages">>, Dash(r.messages)>>,
       <<<<"Requests / responses">>, Dash(r.requests) \o <<" / ">> \o Dash(r.responses)>>,
       <<<<"Notifications">>, Dash(r.notifications)>>,
       <<<<"Tool calls">>, Dash(r.calls)>>,
       <<<<"Unique tools called">>, Dash(Cardinality(r.tools))>>,
       <<<<"Tools">>, IF r.tools = {} THEN Dash(None)
                      ELSE EscapeHtml(Joined(r.tools, <<",", " ">>))>>,
       <<<<"Tools exposed">>, Dash(r.exposed)>>,
       <<<<"Schema tokens">>, Dash(r.schema)>>,
       <<<<"Wire bytes C-S / S-C">>, Slash(r.wire)>>,
       <<<<"Wire bytes total">>, Dash(r.wire_total)>>,
       <<<<"Payload bytes C-S / S-C">>, Slash(r.payload)>>,
       <<<<"Payload bytes total">>, Dash(r.payload_total)>>,
       <<<<"Serialized tokens C-S / S-C">>, Slash(r.tokens)>>,
       <<<<"Serialized tokens total">>, Dash(r.tokens_total)>>,
       <<<<"Error events">>, Dash(r.errors)>>,
       <<<<"Latency p50">>, Dash(r.p50)>>,
       <<<<"Latency p95">>, Dash(r.p95)>>,
       <<<<"Latency p99">>, Dash(r.p99)>>,
       <<<<"Latency max">>, Dash(r.max)>> >>

RenderHtml(r) ==
    <<"<title>">> \o EscapeHtml(Number(r.run_id)) \o <<"</title>">>
    \o <<"Run <code>">> \o EscapeHtml(Number(r.run_id))
    \o <<"</code><br>Tokenizer <code>">> \o EscapeHtml(<<r.tokenizer>>) \o <<"</code>">>
    \o (IF r.estimated THEN <<"<span>estimated</span>">> ELSE <<>>)
    \o <<"<table><tbody>">> \o Concat(HtmlRows(r), HtmlRow) \o <<"</tbody></table>">>
=============================================================================
