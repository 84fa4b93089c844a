---------------------------- MODULE MCTraceFile ----------------------------
(***************************************************************************)
(* Writers and capacities for TraceFile.                                   *)
(***************************************************************************)
EXTENDS TraceFile, TLC

CONSTANTS w1, w2

TwoWriters == {w1, w2}

SmallEvents == {2, 3}      \* they fit into a buffer of three pieces
LargeEvents == {2, 5}      \* one does not: three of its pieces are no event

Swap == Permutations(TwoWriters)
=============================================================================
