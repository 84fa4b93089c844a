----------------------------- MODULE TraceFile -----------------------------
(***************************************************************************)
(* The trace on disk: write_event of both proxies (src/src/proxy.rs and    *)
(* src/src/http_proxy.rs) against read_events (src/src/trace.rs).          *)
(*                                                                         *)
(* A writer is a proxy process with the trace open for appending.  It      *)
(* serialises an event piece by piece into a BufWriter of Capacity pieces, *)
(* then a newline, then flushes.  A full buffer spills, and each spill or  *)
(* flush is one write to the file, which the system appends as a whole     *)
(* unless it fails: then some of it is there, and the rest stays in the    *)
(* buffer.  A piece carries its event and its place; the last one of an    *)
(* event is the newline.                                                   *)
(***************************************************************************)
EXTENDS Integers, Sequences, SequencesExt, FiniteSets

CONSTANTS Writers, Capacity, Sizes,    \* sizes of events, newline included
          MaxEvents,                   \* bound: events of one writer
          DiskFaults                   \* whether writes may fail

ASSUME TraceFileAssumption ==
    /\ Capacity \in Nat \ {0}
    /\ Sizes \subseteq Nat \ {0, 1}
    /\ MaxEvents \in Nat
    /\ DiskFaults \in BOOLEAN

VARIABLES file,      \* the pieces in the file
          buf,       \* buf[w]: the pieces in the BufWriter of w
          cur,       \* cur[w]: the event being written and its next piece
          count,     \* count[w]: events begun
          up,        \* up[w]: the process runs
          written,   \* events whose write_event has returned Ok
          failed     \* a write to the file has failed

fileVars == <<file, buf, cur, count, up, written, failed>>

Nothing == [size |-> 0, next |-> 0]

Piece == [w : Writers, n : 1..MaxEvents, k : Nat, size : Sizes]

TypeOK ==
    /\ file \in Seq(Piece)
    /\ buf \in [Writers -> Seq(Piece)]
    /\ \A w \in Writers : Len(buf[w]) <= Capacity
    /\ cur \in [Writers -> [size : Sizes \cup {0}, next : Nat]]
    /\ count \in [Writers -> 0..MaxEvents]
    /\ up \in [Writers -> BOOLEAN]
    /\ written \subseteq Writers \X (1..MaxEvents)
    /\ failed \in BOOLEAN

Init ==
    /\ file = <<>>
    /\ buf = [w \in Writers |-> <<>>]
    /\ cur = [w \in Writers |-> Nothing]
    /\ count = [w \in Writers |-> 0]
    /\ up = [w \in Writers |-> TRUE]
    /\ written = {}
    /\ failed = FALSE

Idle(w) == up[w] /\ cur[w] = Nothing

Busy(w) == up[w] /\ cur[w] # Nothing

Complete(w) == cur[w].next > cur[w].size

-----------------------------------------------------------------------------
Begin(w) ==
    /\ Idle(w)
    /\ count[w] < MaxEvents
    /\ \E s \in Sizes : cur' = [cur EXCEPT ![w] = [size |-> s, next |-> 1]]
    /\ count' = [count EXCEPT ![w] = @ + 1]
    /\ UNCHANGED <<file, buf, up, written, failed>>

NextPiece(w) ==
    [w |-> w, n |-> count[w], k |-> cur[w].next, size |-> cur[w].size]

(* Mistakes for the mutants: a File without a BufWriter; no flush; a       *)
(* buffer that is not emptied, when its write fails and when it does not.  *)
PutUnbuffered(w) ==
    /\ Busy(w) /\ ~Complete(w)
    /\ file' = Append(file, NextPiece(w))
    /\ cur' = [cur EXCEPT ![w].next = @ + 1]
    /\ UNCHANGED <<buf, count, up, written, failed>>

FlushForgotten(w) ==
    /\ Busy(w) /\ Complete(w)
    /\ cur' = [cur EXCEPT ![w] = Nothing]
    /\ written' = written \cup {<<w, count[w]>>}
    /\ UNCHANGED <<file, buf, count, up, failed>>

WriteOutFailsWhole(w) ==
    \E j \in 0..Len(buf[w]) - 1 :
        /\ DiskFaults
        /\ file' = file \o SubSeq(buf[w], 1, j)
        /\ failed' = TRUE
        /\ UNCHANGED buf

WriteOutKeeping(w) ==
    /\ file' = file \o buf[w]
    /\ UNCHANGED <<buf, failed>>

(* write_all into the buffer, as long as there is room.                    *)
Put(w) ==
    /\ Busy(w) /\ ~Complete(w)
    /\ Len(buf[w]) < Capacity
    /\ buf' = [buf EXCEPT ![w] = Append(@, NextPiece(w))]
    /\ cur' = [cur EXCEPT ![w].next = @ + 1]
    /\ UNCHANGED <<file, count, up, written, failed>>

WriteOut(w) ==
    /\ file' = file \o buf[w]
    /\ buf' = [buf EXCEPT ![w] = <<>>]
    /\ UNCHANGED failed

WriteOutFails(w) ==
    \E j \in 0..Len(buf[w]) - 1 :
        /\ DiskFaults
        /\ file' = file \o SubSeq(buf[w], 1, j)
        /\ buf' = [buf EXCEPT ![w] = SubSeq(@, j + 1, Len(@))]
        /\ failed' = TRUE

(* The buffer is full in the middle of an event; if it cannot be written,  *)
(* write_event returns the error and the rest of the event is never put.   *)
Spill(w) ==
    /\ Busy(w) /\ ~Complete(w)
    /\ Len(buf[w]) = Capacity
    /\ \/ WriteOut(w) /\ UNCHANGED cur
       \/ WriteOutFails(w) /\ cur' = [cur EXCEPT ![w] = Nothing]
    /\ UNCHANGED <<count, up, written>>

(* The flush at the end of write_event.                                    *)
Flush(w) ==
    /\ Busy(w) /\ Complete(w)
    /\ \/ WriteOut(w) /\ written' = written \cup {<<w, count[w]>>}
       \/ WriteOutFails(w) /\ UNCHANGED written
    /\ cur' = [cur EXCEPT ![w] = Nothing]
    /\ UNCHANGED <<count, up>>

(* The end of the observer: one more flush.                                *)
Close(w) ==
    /\ Idle(w)
    /\ WriteOut(w) \/ WriteOutFails(w)
    /\ up' = [up EXCEPT ![w] = FALSE]
    /\ UNCHANGED <<cur, count, written>>

(* The process is interrupted: what is in its memory is gone.              *)
Kill(w) ==
    /\ up[w]
    /\ up' = [up EXCEPT ![w] = FALSE]
    /\ buf' = [buf EXCEPT ![w] = <<>>]
    /\ UNCHANGED <<file, cur, count, written, failed>>

Next ==
    \/ \E w \in Writers :
          Begin(w) \/ Put(w) \/ Spill(w) \/ Flush(w) \/ Close(w) \/ Kill(w)
    \/ (\A w \in Writers : ~up[w]) /\ UNCHANGED fileVars

Spec == Init /\ [][Next]_fileVars

-----------------------------------------------------------------------------
(* What read_events makes of the file: a line runs to the next newline or  *)
(* to the end of the file; an empty one is skipped; any other must be one  *)
(* event, or nothing of the file is read.                                  *)
Newline(p) == p.k = p.size

Breaks == {0} \cup { i \in DOMAIN file : Newline(file[i]) } \cup {Len(file)}

Lines == { ab \in Breaks \X Breaks :
             /\ ab[1] < ab[2]
             /\ ~ \E c \in Breaks : ab[1] < c /\ c < ab[2] }

IsEvent(ab) ==
    LET first == file[ab[1] + 1] IN
    /\ \A i \in 1..ab[2] - ab[1] : file[ab[1] + i] = [first EXCEPT !.k = i]
    /\ ab[2] - ab[1] >= first.size - 1

read_events ==
    [ok     |-> \A ab \in Lines : IsEvent(ab),
     events |-> { <<file[ab[1] + 1].w, file[ab[1] + 1].n>> : ab \in Lines }]

(* Unless a write has failed, the file can be read at every moment, and so *)
(* after an interruption too, although several proxies append to it at     *)
(* once (docs/ARCHITECTURE.md:58).                                         *)
InterruptedRunsReadable == ~failed => read_events.ok

(* "Interrupted runs remain inspectable" (docs/ARCHITECTURE.md:58): when   *)
(* every proxy has ended, one of them killed in the middle of an event,    *)
(* what was written before can be read.                                    *)
Interrupted(w) == ~up[w] /\ cur[w] # Nothing

InterruptedRunsInspectable ==
    /\ \A w \in Writers : ~up[w]
    /\ \E w \in Writers : Interrupted(w)
    /\ ~failed
    => written \subseteq (IF read_events.ok THEN read_events.events ELSE {})

(* What a proxy took for written is not lost with the process, nor by a    *)
(* later write that fails: a file that can be read has every event whose   *)
(* write_event returned Ok, and any file has all the pieces of them.       *)
Whole(event) ==
    LET own == { p \in ToSet(file) : <<p.w, p.n>> = event }
    IN  own # {} /\ \A p \in own : { q.k : q \in own } = 1..p.size

WrittenIsRead ==
    /\ \A event \in written : Whole(event)
    /\ read_events.ok => written \subseteq read_events.events

(* The file as its readers take it, a line at a time: a newline ends a     *)
(* line, which is the event of that newline if it is the pieces of this    *)
(* event in order and nothing else; any other line counts as event 0.      *)
PiecesOf(p) == [k \in 1..p.size |-> [p EXCEPT !.k = k]]

EventOf(line, p) == <<p.w, IF line = PiecesOf(p) THEN p.n ELSE 0>>

ReadPiece(log, p) ==
    IF Newline(p)
    THEN [log EXCEPT !.lines = Append(@, EventOf(Append(log.open, p), p)), !.open = <<>>]
    ELSE [log EXCEPT !.open = Append(@, p)]

NoLines == [lines |-> <<>>, open |-> <<>>]

LogOf(s) == FoldLeft(ReadPiece, NoLines, s)

(* Until a write fails, readers see a log that grows by whole events: no   *)
(* line of it is torn, mixed from several proxies, repeated or out of its  *)
(* proxy's order, and it never ends in the middle of a line (proxy.rs:51,  *)
(* 206-209).                                                               *)
Log == INSTANCE TraceLog WITH
          lines <- LogOf(file).lines, torn <- LogOf(file).open # <<>>

ImplementsLog == Log!Spec

(* No event is in the file twice, and those of one proxy are in order.     *)
EventsInOrder ==
    \A i, j \in DOMAIN file :
        i < j /\ file[i].w = file[j].w =>
            \/ file[i].n < file[j].n
            \/ file[i].n = file[j].n /\ file[i].k < file[j].k
=============================================================================
