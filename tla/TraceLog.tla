------------------------------ MODULE TraceLog ------------------------------
(***************************************************************************)
(* What a trace promises those who write and read it at once: a log that   *)
(* grows by one whole event at a time, each writer's events in order,      *)
(* until a write to the disk fails; after that its lines still only grow.  *)
(***************************************************************************)
EXTENDS Integers, Sequences, SequencesExt

CONSTANTS Writers, MaxEvents

VARIABLES lines,     \* the lines of the log: writer and event, 0 for none
          torn,      \* the log ends in the middle of a line
          failed     \* a write has failed

Init == lines = <<>> /\ ~torn /\ ~failed

Adds(new, old) ==
    \E w \in Writers, n \in 1..MaxEvents :
        /\ new = Append(old, <<w, n>>)
        /\ \A k \in DOMAIN old : old[k][1] = w => old[k][2] < n

AppendEvent == Adds(lines', lines) /\ UNCHANGED <<torn, failed>>

Next ==
    \/ ~failed /\ AppendEvent
    \/ failed' /\ IsPrefix(lines, lines')

Spec == Init /\ [][Next]_<<lines, torn, failed>>
=============================================================================
