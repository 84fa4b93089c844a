--------------------------- MODULE MCMeasuredRuns ---------------------------
(***************************************************************************)
(* Two runs, one of each proxy, with calls, lists, errors and batches.     *)
(***************************************************************************)
EXTENDS MeasuredRuns, Traffic

CONSTANTS i1, i2

MCIds == {i1, i2}

(* Names that need quotes in CSV and entities in HTML.                     *)
t1 == <<"a", ",", "\"", "\n">>
t2 == <<"&", "l", "t", ";", "<", "'", ">">>
MCTools == {t1, t2}

NewProxy(transport, tokenizer) ==
    [transport |-> transport, version |-> 5, tokenizer |-> tokenizer, capture |-> FALSE]

(* A stdio proxy and an HTTP proxy of now; and a trace that one proxy of   *)
(* an older version began and a new one went on with.                      *)
Now == <<NewProxy("stdio", "o200k_base"), NewProxy("streamable_http", "o200k_base")>>

Older(version) ==
    <<[NewProxy("stdio", "o200k_base") EXCEPT !.version = version],
      [NewProxy("stdio", "bytes4_estimate") EXCEPT !.capture = TRUE]>>

MixedProxies == <<NewProxy("stdio", "cl100k_base"), NewProxy("streamable_http", "o200k_base")>>

MCExported == {MixedProxies, Older(1), Older(2), Older(3)}
MCSetups == {Now} \cup MCExported

MCMaxEvents == [s \in MCSetups |-> IF s = Now THEN 4 ELSE 2]

Messages ==
    {Line(CallsTool(i1, t1)), Line(CallsTool(i2, t2)), Line(Answers(i1)),
     Line(Fails(i2)),
     Batch(<<CallsTool(i1, t1), Asks(i2, "tools/list")>>),
     Batch(<<Answers(i1), Lists(i2, 1)>>)}

MCPayloads == [s \in MCSetups |-> IF s = Now THEN Messages ELSE Messages \cup {Garbage}]
=============================================================================
