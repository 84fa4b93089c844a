---------------------------- MODULE MCStdioProxy ----------------------------
(***************************************************************************)
(* StdioProxy with peers that write any line at any time.                  *)
(***************************************************************************)
EXTENDS StdioProxy, Traffic

CONSTANTS i1, t1

MCIds == {i1}
MCTools == {t1}

Call == Line(CallsTool(i1, t1))
Answer == Line(Answers(i1))

BothLines == {Call, Answer}
OneLine == {Garbage}

TwoEach == [d \in Directions |-> 2]
OneAndTwo == [c2s |-> 1, s2c |-> 2]

(* The relay never looks into a line, so it is enough to let the peers     *)
(* write lines that differ from each other: repeated ones would only make  *)
(* a line out of place harder to see.                                      *)
DifferentLines ==
    /\ IsPrefix(log["c2s"], <<Call, Answer>>)
    /\ IsPrefix(log["s2c"], <<Answer, Call>>)
=============================================================================
