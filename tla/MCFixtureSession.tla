-------------------------- MODULE MCFixtureSession --------------------------
(***************************************************************************)
(* A client of the fixture that reuses an id, batches, notifies, and sends *)
(* lines that are blank or no JSON.                                        *)
(***************************************************************************)
EXTENDS FixtureSession

CONSTANTS i1, t1

MCIds == {i1, Null}
MCTools == {t1}

Empty == [Garbage EXCEPT !.tokens = 0]

MCBlank == {Empty}

MCClientLines ==
    {Line(CallsTool(i1, t1)), Batch(<<Notifies, Asks(i1, "tools/list")>>),
     Line(Asks(i1, "other")), Garbage, Empty}

MCPayloads ==
    MCClientLines \cup
    {Line(Answers(i1)), Batch(<<Lists(i1, 3)>>), Line(Fails(i1)), Line(Fails(Null))}

Asks20 == [c2s |-> 2, s2c |-> 0]
TwoLines == [d \in Directions |-> 2]
=============================================================================
