-------------------------- MODULE MeasurementEvent --------------------------
(***************************************************************************)
(* One event of a trace, src/src/event.rs, as a record in memory and as    *)
(* the JSON object of its line: a function from the fields that are there. *)
(* The hash of the payload is left out; of the routing metadata one field  *)
(* stands for the three.                                                   *)
(***************************************************************************)
EXTENDS Observer

CONSTANT Malformed    \* what is read instead of an object that lacks a field

(* Fields that are skipped when they are None, or when they are empty.     *)
Optional == {"http_mcp_method", "wire_bytes", "payload_bytes", "raw_payload",
             "tools_exposed", "schema_tokens", "parse_error"}

Sequential == {"methods", "tools", "latencies_us"}

Required == {"schema_version", "run_id", "ts_unix_ns", "direction", "kind",
             "serialized_tokens", "tokenizer", "token_count_estimated",
             "request_count", "response_count", "notification_count",
             "tool_call_count", "ok"}

Fields == Optional \cup Sequential \cup Required \cup {"transport"}

(* serde_json::to_writer.                                                  *)
Serialize(e) ==
    LET skipped == { f \in Optional : e[f] = None } \cup { f \in Sequential : e[f] = <<>> }
    IN  [f \in Fields \ skipped |-> e[f]]

(* A mistake for the mutants: a missing size is read as zero.              *)
DeserializeZero(o) ==
    IF ~Required \subseteq DOMAIN o THEN Malformed
    ELSE [f \in Fields |->
            CASE f \in DOMAIN o      -> o[f]
              [] f = "payload_bytes" -> 0
              [] f \in Optional      -> None
              [] f \in Sequential    -> <<>>
              [] OTHER               -> "stdio"]

(* serde_json::from_str: what may be missing has a default.                *)
Deserialize(o) ==
    IF ~Required \subseteq DOMAIN o THEN Malformed
    ELSE [f \in Fields |->
            CASE f \in DOMAIN o   -> o[f]
              [] f \in Optional   -> None
              [] f \in Sequential -> <<>>
              [] OTHER            -> "stdio"]

(* The lines of older proxies, which the trace may also hold: they have    *)
(* none of the fields that came later (docs/TRACE_FORMAT.md:5).            *)
Since == [f \in Fields |-> CASE f = "transport"       -> 2
                             [] f = "payload_bytes"   -> 3
                             [] f = "http_mcp_method" -> 5
                             [] OTHER                 -> 1]

SerializeAt(version, e) ==
    LET o == Serialize([e EXCEPT !.schema_version = version])
    IN  [f \in { g \in DOMAIN o : Since[g] <= version } |-> o[f]]
=============================================================================
