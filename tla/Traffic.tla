------------------------------ MODULE Traffic ------------------------------
(***************************************************************************)
(* Ways to write down JSON-RPC traffic in the form Observer.tla looks at,  *)
(* for the modules that choose the lines of the peers.                     *)
(***************************************************************************)
EXTENDS Observer

Item ==
    [object |-> TRUE, method |-> None, name |-> None, id |-> None,
     body |-> {}, tools |-> Absent, schema |-> Absent]

Scalar == [Item EXCEPT !.object = FALSE]

Asks(i, m) == [Item EXCEPT !.method = m, !.id = i]

CallsTool(i, t) == [Asks(i, "tools/call") EXCEPT !.name = t]

Notifies == [Item EXCEPT !.method = "other"]

Answers(i) == [Item EXCEPT !.id = i, !.body = {"result"}]

Lists(i, n) == [Answers(i) EXCEPT !.tools = n, !.schema = n + 1]

Fails(i) == [Item EXCEPT !.id = i, !.body = {"error"}]

Line(item) ==
    [json |-> TRUE, batch |-> FALSE, items |-> <<item>>, tokens |-> 1]

Batch(items) ==
    [json |-> TRUE, batch |-> TRUE, items |-> items, tokens |-> Len(items)]

Garbage == [json |-> FALSE, batch |-> FALSE, items |-> <<>>, tokens |-> 1]
=============================================================================
