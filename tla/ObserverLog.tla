---------------------------- MODULE ObserverLog ----------------------------
(***************************************************************************)
(* The observer on its own, fed any payload from either side, as by peers  *)
(* that keep to no protocol: ids reused too early, answers nobody asked    *)
(* for, scalars, batches and text that is not JSON.  Both proxies call it  *)
(* in this way, one payload after the other.                               *)
(***************************************************************************)
EXTENDS Observer, FiniteSets

CONSTANTS Payloads, MaxEvents     \* bound: payloads fed

(* What is no array is one item.                                           *)
ASSUME ObserverLogAssumption ==
    /\ MaxEvents \in Nat
    /\ Payloads \subseteq AnyPayload
    /\ \A p \in Payloads : p.json /\ ~p.batch => Len(p.items) = 1

VARIABLES pending, events

logVars == <<pending, events>>

Init == pending = NoPending /\ events = <<>>

Feed(dir, payload) ==
    LET seen == ObservePayloadAt(payload, dir, pending, Len(events))
    IN  /\ Len(events) < MaxEvents
        /\ pending' = seen.pending
        /\ events' = Append(events, seen.event)

Next == \/ \E d \in Directions, p \in Payloads : Feed(d, p)
        \/ Len(events) = MaxEvents /\ UNCHANGED logVars

Spec == Init /\ [][Next]_logVars

-----------------------------------------------------------------------------
(* The items of all payloads so far, in the order inspect_value met them.  *)
Met == FlattenSeq([k \in DOMAIN events |->
          IF events[k].payload.json
          THEN [n \in DOMAIN events[k].payload.items |->
                  [dir |-> events[k].dir, at |-> events[k].at,
                   item |-> events[k].payload.items[n]]]
          ELSE <<>>])

Asks(m, i) == /\ m.dir = "c2s" /\ m.item.object
              /\ m.item.method # None /\ m.item.id = i

Answers(m, i) == /\ m.dir = "s2c" /\ m.item.object
                 /\ m.item.method = None /\ m.item.body # {} /\ m.item.id = i

(* Whatever the peers do, the map holds for each id the latest request of  *)
(* the client that no later answer of the server has claimed.              *)
PendingIsLatest ==
    LET met == Met IN
    \A i \in Ids :
      LET touched == { k \in DOMAIN met : Asks(met[k], i) \/ Answers(met[k], i) }
          last == CHOOSE k \in touched : \A j \in touched : j <= k
      IN  IF touched = {} \/ Answers(met[last], i) THEN pending[i] = None
          ELSE /\ pending[i] # None
               /\ pending[i].at = met[last].at
               /\ pending[i].method = met[last].item.method

(* Requests are conserved: each one of the client is timed exactly once,   *)
(* still waiting, or displaced by a later one that reused its id.          *)
RequestsConserved ==
    LET met == Met
        asked == { k \in DOMAIN met : \E i \in Ids : Asks(met[k], i) }
        displaced == { k \in asked : \E j \in asked :
                         /\ k < j /\ met[k].item.id = met[j].item.id
                         /\ \A l \in k+1..j :
                              l = j \/ ~(Asks(met[l], met[k].item.id)
                                           \/ Answers(met[l], met[k].item.id)) }
        timed == Len(FlattenSeq([k \in DOMAIN events |-> events[k].facts.latencies]))
    IN  Cardinality(asked) =
          timed + Cardinality(displaced)
                + Cardinality({ i \in Ids : pending[i] # None })

(* The kind of an event is what reports group by: an event called the      *)
(* response of a tool call carries the latency of exactly one request, and *)
(* an error, a scalar or bad JSON is never counted as a success.           *)
KindsTellTheTruth ==
    \A k \in DOMAIN events :
        LET e == events[k]
            bad == \E n \in DOMAIN e.payload.items :
                      LET item == e.payload.items[n] IN
                      \/ ~item.object
                      \/ item.method = None /\ item.id # None /\ "error" \in item.body
        IN  /\ e.kind \in {"tools_call_response", "tools_list_response"} =>
                 e.dir = "s2c" /\ Len(e.facts.latencies) = 1
            /\ e.facts.ok <=> (e.payload.json /\ ~bad)
=============================================================================
