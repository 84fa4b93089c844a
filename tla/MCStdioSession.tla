--------------------------- MODULE MCStdioSession ---------------------------
(***************************************************************************)
(* A client and a server that reuse ids, share them and batch.             *)
(***************************************************************************)
EXTENDS StdioSession, Traffic

CONSTANTS i1, i2, t1

MCTools == {t1}

TwoIds == {i1, i2}

Batches ==
    {Batch(<<CallsTool(i1, t1), Asks(i2, "tools/list")>>),
     Batch(<<Lists(i2, 1), Answers(i1)>>), Line(Fails(i1)), Line(Lists(i2, 1)),
     Line(Asks(i1, "other"))}

Asks31 == [c2s |-> 3, s2c |-> 1]
Lines == [d \in Directions |-> 4]
=============================================================================
