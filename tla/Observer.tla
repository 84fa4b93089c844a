------------------------------ MODULE Observer ------------------------------
(***************************************************************************)
(* What MCPMeter makes of one JSON-RPC payload: src/src/observer.rs.       *)
(*                                                                         *)
(* A payload is abstracted to what the code's branches look at.  `json' is *)
(* FALSE when the bytes are not UTF-8 or not JSON; `batch' when the root   *)
(* is an array; `items' are the values inspect_value meets, nested arrays  *)
(* flattened (the recursion visits them in that order, with the same       *)
(* facts); `tokens' is the size of the text.  An item has                  *)
(*   object   FALSE for a JSON scalar                                      *)
(*   method   the string member "method", or None                          *)
(*   name     the string params.name, or None                              *)
(*   id       the member "id", or None (ids that serialise alike are one)  *)
(*   body     which of the members "result" and "error" it has             *)
(*   tools    the length of the array result.tools, or Absent              *)
(*   schema   the size of result.tools, array or not, or Absent            *)
(***************************************************************************)
EXTENDS Integers, Sequences, SequencesExt

CONSTANTS Ids,     \* the JSON-RPC ids, as id_key writes them
          Tools,   \* names of tools
          None     \* an absent member

Absent == -1       \* Option::None of a count

Methods == {"tools/list", "tools/call", "other"}

Directions == {"c2s", "s2c"}

(* What is known of an item and of a payload, whoever wrote them.          *)
AnyItem ==
    [object : BOOLEAN, method : Methods \cup {None}, name : Tools \cup {None},
     id : Ids \cup {None}, body : SUBSET {"result", "error"},
     tools : Nat \cup {Absent}, schema : Nat \cup {Absent}]

AnyPayload ==
    [json : BOOLEAN, batch : BOOLEAN, items : Seq(AnyItem), tokens : Nat]

-----------------------------------------------------------------------------
(* Requests waiting for a response: PendingMap, a map from ids.            *)

Request == [method : Methods, tool : Tools \cup {None}, at : Nat]

PendingMap == [Ids -> Request \cup {None}]

NoPending == [i \in Ids |-> None]

(* An absent member is none of the values that may be present.             *)
ASSUME NoneAssumption == None \notin Ids \cup Tools \cup Methods \cup Request

(* What one payload contributes to its event: struct Facts.                *)
NoFacts ==
    [methods |-> <<>>, tools |-> <<>>, requests |-> 0, responses |-> 0,
     notifications |-> 0, calls |-> 0, exposed |-> Absent,
     schema |-> Absent, latencies |-> <<>>, ok |-> TRUE]

(* get_or_insert(0) += n                                                   *)
AddTo(total, n) == IF total = Absent THEN n ELSE total + n

(* checked_duration_since(..).unwrap_or(ZERO); for a mutant, without it.   *)
ElapsedSigned(from, to) == to - from

Elapsed(from, to) == IF to >= from THEN to - from ELSE 0

AppendSome(s, x) == IF x = None THEN s ELSE Append(s, x)

-----------------------------------------------------------------------------
(* inspect_value threads facts and the pending map: seen is the pair.      *)

(* Mistakes for the mutants: a request of the server is remembered too; an *)
(* id in use keeps its first request; a response leaves its request in the *)
(* map; the tool of an answered call is forgotten; the last item decides   *)
(* whether the payload is ok; only the first item of a batch is read.      *)
InspectCallBothWays(seen, item, dir, at) ==
    LET tool  == IF item.method = "tools/call" THEN item.name ELSE None
        facts == [seen.facts EXCEPT
                    !.methods = Append(@, item.method),
                    !.tools = AppendSome(@, tool),
                    !.calls = IF tool = None THEN @ ELSE @ + 1,
                    !.requests = IF item.id = None THEN @ ELSE @ + 1,
                    !.notifications = IF item.id = None THEN @ + 1 ELSE @]
    IN  [facts |-> facts,
         pending |-> IF item.id # None
                     THEN [seen.pending EXCEPT ![item.id] =
                             [method |-> item.method, tool |-> tool, at |-> at]]
                     ELSE seen.pending]

InspectCallFirstWins(seen, item, dir, at) ==
    LET both == InspectCallBothWays(seen, item, dir, at)
    IN  IF item.id # None /\ dir = "c2s" /\ seen.pending[item.id] = None
        THEN both ELSE [both EXCEPT !.pending = seen.pending]

(* An object with a method: a request or a notification.  Its tool counts  *)
(* whatever its direction and whether or not it has an id; only a request  *)
(* of the client is remembered, over any earlier one with that id.         *)
InspectCall(seen, item, dir, at) ==
    LET tool  == IF item.method = "tools/call" THEN item.name ELSE None
        facts == [seen.facts EXCEPT
                    !.methods = Append(@, item.method),
                    !.tools = AppendSome(@, tool),
                    !.calls = IF tool = None THEN @ ELSE @ + 1,
                    !.requests = IF item.id = None THEN @ ELSE @ + 1,
                    !.notifications = IF item.id = None THEN @ + 1 ELSE @]
    IN  [facts |-> facts,
         pending |-> IF item.id # None /\ dir = "c2s"
                     THEN [seen.pending EXCEPT ![item.id] =
                             [method |-> item.method, tool |-> tool, at |-> at]]
                     ELSE seen.pending]

CorrelateNoTool(facts, request, item, at) ==
    [facts EXCEPT
       !.methods = Append(@, request.method),
       !.latencies = Append(@, Elapsed(request.at, at))]

(* A response of the server to a remembered request takes it out of the    *)
(* map and adds that request's method, tool and latency to the facts.      *)
Correlate(facts, request, item, at) ==
    LET list == request.method = "tools/list" IN
    [facts EXCEPT
       !.methods = Append(@, request.method),
       !.tools = AppendSome(@, request.tool),
       !.latencies = Append(@, Elapsed(request.at, at)),
       !.exposed = IF list /\ item.tools # Absent
                   THEN AddTo(@, item.tools) ELSE @,
       !.schema = IF list /\ item.schema # Absent
                  THEN AddTo(@, item.schema) ELSE @]

InspectResponseNotRemoved(seen, item, dir, at) ==
    LET facts == [seen.facts EXCEPT !.responses = @ + 1,
                    !.ok = @ /\ "error" \notin item.body]
        request == seen.pending[item.id]
    IN  [seen EXCEPT !.facts = IF dir = "s2c" /\ request # None
                               THEN Correlate(facts, request, item, at) ELSE facts]

InspectResponseLastDecides(seen, item, dir, at) ==
    LET facts == [seen.facts EXCEPT !.responses = @ + 1,
                    !.ok = "error" \notin item.body]
        request == seen.pending[item.id]
    IN  IF dir = "s2c" /\ request # None
        THEN [facts |-> Correlate(facts, request, item, at),
              pending |-> [seen.pending EXCEPT ![item.id] = None]]
        ELSE [seen EXCEPT !.facts = facts]

InspectResponse(seen, item, dir, at) ==
    LET facts == [seen.facts EXCEPT
                    !.responses = @ + 1,
                    !.ok = @ /\ "error" \notin item.body]
        request == seen.pending[item.id]
    IN  IF dir = "s2c" /\ request # None
        THEN [facts |-> Correlate(facts, request, item, at),
              pending |-> [seen.pending EXCEPT ![item.id] = None]]
        ELSE [seen EXCEPT !.facts = facts]

InspectValue(seen, item, dir, at) ==
    CASE ~item.object -> [seen EXCEPT !.facts.ok = FALSE]
      [] item.object /\ item.method # None -> InspectCall(seen, item, dir, at)
      [] item.object /\ item.method = None /\ item.id # None /\ item.body # {} ->
           InspectResponse(seen, item, dir, at)
      [] OTHER -> seen

-----------------------------------------------------------------------------
ClassifyKind(payload, facts) ==
    LET first == IF facts.methods = <<>> THEN None ELSE Head(facts.methods)
    IN  CASE ~payload.json -> "malformed"
          [] payload.json /\ payload.batch -> "batch"
          [] OTHER ->
               IF facts.requests = 1 /\ facts.responses = 0
               THEN CASE first = "tools/list" -> "tools_list_request"
                      [] first = "tools/call" -> "tools_call_request"
                      [] OTHER -> "request"
               ELSE IF facts.responses = 1
               THEN CASE first = "tools/list" -> "tools_list_response"
                      [] first = "tools/call" -> "tools_call_response"
                      [] OTHER -> "response"
               ELSE IF facts.notifications = 1 THEN "notification" ELSE "message"

InspectedFirstOnly(payload, dir, pending, at) ==
    LET start == [facts |-> NoFacts, pending |-> pending]
    IN  IF payload.json /\ payload.items # <<>>
        THEN InspectValue(start, Head(payload.items), dir, at)
        ELSE [start EXCEPT !.facts.ok = payload.json]

(* observe_payload_at: a payload that does not parse is an event as well,  *)
(* with its tokens counted and no facts.                                   *)
Inspected(payload, dir, pending, at) ==
    LET start == [facts |-> NoFacts, pending |-> pending]
        step(seen, item) == InspectValue(seen, item, dir, at)
    IN  IF payload.json
        THEN FoldLeft(step, start, payload.items)
        ELSE [start EXCEPT !.facts.ok = FALSE]

ObservePayloadAt(payload, dir, pending, at) ==
    LET seen == Inspected(payload, dir, pending, at)
    IN  [event |-> [dir |-> dir, at |-> at, payload |-> payload,
                    tokens |-> payload.tokens,
                    kind |-> ClassifyKind(payload, seen.facts),
                    facts |-> seen.facts],
         pending |-> seen.pending]
=============================================================================
