----------------------------- MODULE StdioProxy -----------------------------
(***************************************************************************)
(* The stdio proxy: src/src/proxy.rs.                                      *)
(*                                                                         *)
(* Three threads of one process stand between an MCP client and the child  *)
(* process that is the MCP server.  The client thread relays lines from    *)
(* the client to the child ("c2s"); the main thread relays lines from the  *)
(* child to the client ("s2c") and then shuts everything down; the         *)
(* observer thread turns copies of the lines into trace events.            *)
(*                                                                         *)
(*   client --inn["c2s"]--> client thread --out["c2s"]--> child            *)
(*   client <--out["s2c"]-- main thread  <--inn["s2c"]--- child            *)
(*                  both --chan--> observer --trace-->                     *)
(*                                                                         *)
(* A line is one payload of Observer.tla.  The pipes hold PipeCap lines;   *)
(* the channel (mpsc::channel) is unbounded.  The clock counts the calls   *)
(* of Instant::now, which is all that the order of the stamps depends on.  *)
(***************************************************************************)
EXTENDS Observer

CONSTANTS Payloads,   \* the lines a peer may write
          PipeCap,    \* lines a pipe holds before a write to it blocks
          MaxLines,   \* bound: lines the source of each direction writes
          Faults      \* what may go wrong: "write", "panic", "kill"

ASSUME StdioProxyAssumption ==
    /\ PipeCap \in Nat \ {0}
    /\ MaxLines \in [Directions -> Nat]
    /\ Faults \subseteq {"write", "panic", "kill"}

VARIABLES
    log,        \* log[d]: every line the source of direction d has written
    got,        \* got[d]: every line the sink of direction d has read
    srcOpen,    \* srcOpen[d]: the source has not closed its end
    sinkOpen,   \* sinkOpen[d]: the sink has not closed its end
    childUp,    \* the child process has not exited
    inn,        \* inn[d]: the pipe from the source to the proxy
    out,        \* out[d]: the pipe from the proxy to the sink
    pc,         \* pc[d]: where the thread that relays d is
    held,       \* held[d]: the frame in that thread's hands
    clock,      \* calls of Instant::now so far
    chan,       \* messages on their way to the observer
    obs,        \* the observer thread: "up" or "gone"
    ack,        \* the acknowledgement of Shutdown: "none", "sent", "dropped"
    pending,    \* the observer's map of unanswered requests
    trace       \* the events in the trace file

peerVars  == <<log, got, srcOpen, sinkOpen, childUp>>
relayVars == <<inn, out, pc, held, clock>>
obsVars   == <<obs, ack, pending, trace>>
vars      == <<peerVars, relayVars, chan, obsVars>>

Frame == [dir : Directions, payload : Payloads, at : Nat]

Shutdown == [dir |-> "main"]      \* ObserverMessage::Shutdown

(* None is no frame.                                                       *)
ASSUME NoFrameAssumption == None \notin Frame

Running == pc["s2c"] \notin {"exited", "aborted", "killed"}

Init ==
    /\ log = [d \in Directions |-> <<>>]
    /\ got = [d \in Directions |-> <<>>]
    /\ srcOpen = [d \in Directions |-> TRUE]
    /\ sinkOpen = [d \in Directions |-> TRUE]
    /\ childUp = TRUE
    /\ inn = [d \in Directions |-> <<>>]
    /\ out = [d \in Directions |-> <<>>]
    /\ pc = [d \in Directions |-> "read"]
    /\ held = [d \in Directions |-> None]
    /\ clock = 0
    /\ chan = <<>>
    /\ obs = "up"
    /\ ack = "none"
    /\ pending = NoPending
    /\ trace = <<>>

-----------------------------------------------------------------------------
(* The peers.  Any line may be written whenever there is room for it.      *)

Emit(d, p) ==
    /\ Running
    /\ srcOpen[d]
    /\ Len(log[d]) < MaxLines[d]
    /\ Len(inn[d]) < PipeCap
    /\ log' = [log EXCEPT ![d] = Append(@, p)]
    /\ inn' = [inn EXCEPT ![d] = Append(@, p)]
    /\ UNCHANGED <<got, srcOpen, sinkOpen, childUp, out, pc, held, clock,
                   chan, obsVars>>

Consume(d) ==
    /\ sinkOpen[d]
    /\ out[d] # <<>>
    /\ got' = [got EXCEPT ![d] = Append(@, Head(out[d]))]
    /\ out' = [out EXCEPT ![d] = Tail(@)]
    /\ UNCHANGED <<log, srcOpen, sinkOpen, childUp, inn, pc, held, clock,
                   chan, obsVars>>

CloseSource(d) ==
    /\ srcOpen[d]
    /\ srcOpen' = [srcOpen EXCEPT ![d] = FALSE]
    /\ UNCHANGED <<log, got, sinkOpen, childUp, relayVars, chan, obsVars>>

CloseSink(d) ==
    /\ sinkOpen[d]
    /\ sinkOpen' = [sinkOpen EXCEPT ![d] = FALSE]
    /\ UNCHANGED <<log, got, srcOpen, childUp, relayVars, chan, obsVars>>

(* The operating system closes both pipe ends of a process that exits.     *)
ChildExit ==
    /\ childUp
    /\ childUp' = FALSE
    /\ srcOpen' = [srcOpen EXCEPT !["s2c"] = FALSE]
    /\ sinkOpen' = [sinkOpen EXCEPT !["c2s"] = FALSE]
    /\ UNCHANGED <<log, got, relayVars, chan, obsVars>>

-----------------------------------------------------------------------------
(* Mistakes one could make in the steps below.  They are no part of the    *)
(* specification: the mutants put each in the place of the step it is      *)
(* named after, to see that a property notices.                            *)

Goto(d, l) == pc' = [pc EXCEPT ![d] = l]

(* A bounded channel and try_send.                                         *)
SendFrameIfRoom(d) ==
    /\ Running
    /\ pc[d] = "send"
    /\ chan' = IF obs = "up" /\ chan = <<>> THEN Append(chan, held[d]) ELSE chan
    /\ Goto(d, "write")
    /\ UNCHANGED <<peerVars, inn, out, held, clock, obsVars>>

(* A question mark after the send.                                         *)
SendFrameOrFail(d) ==
    /\ Running
    /\ pc[d] = "send"
    /\ chan' = IF obs = "up" THEN Append(chan, held[d]) ELSE chan
    /\ held' = IF obs = "up" THEN held ELSE [held EXCEPT ![d] = None]
    /\ Goto(d, IF obs = "up" THEN "write"
               ELSE IF d = "c2s" THEN "failed" ELSE "aborted")
    /\ UNCHANGED <<peerVars, inn, out, clock, obsVars>>

(* A send that waits for the observer.                                     *)
SendFrameToLiveObserver(d) ==
    /\ Running
    /\ pc[d] = "send"
    /\ obs = "up"
    /\ chan' = Append(chan, held[d])
    /\ Goto(d, "write")
    /\ UNCHANGED <<peerVars, inn, out, held, clock, obsVars>>

(* No buffer.clear().                                                      *)
WriteLineKeepingBuffer(d) ==
    /\ Running
    /\ pc[d] = "write"
    /\ sinkOpen[d]
    /\ Len(out[d]) < PipeCap
    /\ out' = [out EXCEPT ![d] = Append(@, held[d].payload)]
    /\ Goto(d, "read")
    /\ UNCHANGED <<peerVars, inn, held, clock, chan, obsVars>>

(* No question mark after the write.                                       *)
WriteErrorIgnored(d) ==
    /\ Running
    /\ pc[d] = "write"
    /\ ~sinkOpen[d]
    /\ held' = [held EXCEPT ![d] = None]
    /\ Goto(d, "read")
    /\ UNCHANGED <<peerVars, inn, out, clock, chan, obsVars>>

(* try_wait instead of wait.                                               *)
WaitChildNot ==
    /\ pc["s2c"] = "wait"
    /\ Goto("s2c", "reap")
    /\ UNCHANGED <<peerVars, inn, out, held, clock, chan, obsVars>>

(* A join of the client thread whether or not it has finished.             *)
ReapClientAlways ==
    /\ pc["s2c"] = "reap"
    /\ pc["c2s"] \in {"done", "failed"}
    /\ Goto("s2c", "shutdown")
    /\ UNCHANGED <<peerVars, inn, out, held, clock, chan, obsVars>>

(* A wait for the acknowledgement although the send has failed.            *)
SendShutdownUnchecked ==
    /\ pc["s2c"] = "shutdown"
    /\ chan' = IF obs = "up" THEN Append(chan, Shutdown) ELSE chan
    /\ Goto("s2c", "ack")
    /\ UNCHANGED <<peerVars, inn, out, held, clock, obsVars>>

(* Latency measured when the observer gets to the frame.                   *)
ObserveFrameLate ==
    /\ Running
    /\ obs = "up"
    /\ chan # <<>>
    /\ Head(chan) # Shutdown
    /\ LET f    == Head(chan)
           seen == ObservePayloadAt(f.payload, f.dir, pending, clock)
       IN  /\ pending' = seen.pending
           /\ trace' = Append(trace, seen.event)
    /\ chan' = Tail(chan)
    /\ UNCHANGED <<peerVars, relayVars, obs, ack>>

-----------------------------------------------------------------------------
(* The relaying loops of the client thread and of the main thread.         *)

(* read_until returns a line; the frame takes its stamp at once.           *)
ReadLine(d) ==
    /\ Running
    /\ pc[d] = "read"
    /\ inn[d] # <<>>
    /\ held' = [held EXCEPT ![d] =
                  [dir |-> d, payload |-> Head(inn[d]), at |-> clock]]
    /\ inn' = [inn EXCEPT ![d] = Tail(@)]
    /\ clock' = clock + 1
    /\ Goto(d, "send")
    /\ UNCHANGED <<peerVars, out, chan, obsVars>>

(* read_until returns 0: the client thread ends and drops the child's      *)
(* stdin; the main thread goes on to wait for the child.                   *)
ReadEof(d) ==
    /\ Running
    /\ pc[d] = "read"
    /\ inn[d] = <<>>
    /\ ~srcOpen[d]
    /\ Goto(d, IF d = "c2s" THEN "done" ELSE "wait")
    /\ UNCHANGED <<peerVars, inn, out, held, clock, chan, obsVars>>

(* The result of the send is ignored: it fails once the observer is gone.  *)
SendFrame(d) ==
    /\ Running
    /\ pc[d] = "send"
    /\ chan' = IF obs = "up" THEN Append(chan, held[d]) ELSE chan
    /\ Goto(d, "write")
    /\ UNCHANGED <<peerVars, inn, out, held, clock, obsVars>>

(* write_all and flush, which block while the pipe is full.                *)
WriteLine(d) ==
    /\ Running
    /\ pc[d] = "write"
    /\ sinkOpen[d]
    /\ Len(out[d]) < PipeCap
    /\ out' = [out EXCEPT ![d] = Append(@, held[d].payload)]
    /\ held' = [held EXCEPT ![d] = None]
    /\ Goto(d, "read")
    /\ UNCHANGED <<peerVars, inn, clock, chan, obsVars>>

(* A broken pipe ends the client thread, which nobody notices; in the main *)
(* thread it ends run, and with it the process, without a Shutdown.        *)
WriteError(d) ==
    /\ Running
    /\ pc[d] = "write"
    /\ ~sinkOpen[d]
    /\ held' = [held EXCEPT ![d] = None]
    /\ Goto(d, IF d = "c2s" THEN "failed" ELSE "aborted")
    /\ UNCHANGED <<peerVars, inn, out, clock, chan, obsVars>>

-----------------------------------------------------------------------------
(* The end of the main thread, after the child has closed its stdout.      *)

WaitChild ==
    /\ pc["s2c"] = "wait"
    /\ ~childUp
    /\ Goto("s2c", "reap")
    /\ UNCHANGED <<peerVars, inn, out, held, clock, chan, obsVars>>

(* The client thread may sit in a read that never returns: it is joined    *)
(* only if it has finished, so this step never blocks.                     *)
ReapClient ==
    /\ pc["s2c"] = "reap"
    /\ Goto("s2c", "shutdown")
    /\ UNCHANGED <<peerVars, inn, out, held, clock, chan, obsVars>>

SendShutdown ==
    /\ pc["s2c"] = "shutdown"
    /\ IF obs = "up"
       THEN chan' = Append(chan, Shutdown) /\ Goto("s2c", "ack")
       ELSE UNCHANGED chan /\ Goto("s2c", "join")
    /\ UNCHANGED <<peerVars, inn, out, held, clock, obsVars>>

(* recv returns the acknowledgement, or an error when its sender is gone.  *)
RecvAck ==
    /\ pc["s2c"] = "ack"
    /\ ack # "none"
    /\ Goto("s2c", "join")
    /\ UNCHANGED <<peerVars, inn, out, held, clock, chan, obsVars>>

JoinObserver ==
    /\ pc["s2c"] = "join"
    /\ obs = "gone"
    /\ Goto("s2c", "exited")
    /\ UNCHANGED <<peerVars, inn, out, held, clock, chan, obsVars>>

-----------------------------------------------------------------------------
(* The observer thread.                                                    *)

(* A frame is measured and its event written; a failed write is logged,    *)
(* and the event is lost.                                                  *)
ObserveFrame ==
    /\ Running
    /\ obs = "up"
    /\ chan # <<>>
    /\ Head(chan) # Shutdown
    /\ LET f    == Head(chan)
           seen == ObservePayloadAt(f.payload, f.dir, pending, f.at)
       IN  /\ pending' = seen.pending
           /\ \/ trace' = Append(trace, seen.event)
              \/ "write" \in Faults /\ trace' = trace
    /\ chan' = Tail(chan)
    /\ UNCHANGED <<peerVars, relayVars, obs, ack>>

(* Shutdown is acknowledged and ends the thread, or its flush fails and    *)
(* ends the thread unacknowledged.  Frames behind it are dropped.          *)
ObserveShutdown ==
    /\ Running
    /\ obs = "up"
    /\ chan # <<>>
    /\ Head(chan) = Shutdown
    /\ obs' = "gone"
    /\ \/ ack' = "sent"
       \/ "write" \in Faults /\ ack' = "dropped"
    /\ chan' = <<>>
    /\ UNCHANGED <<peerVars, relayVars, pending, trace>>

(* A panic while a frame is measured drops the receiver, and with it the   *)
(* queue and the sender of the acknowledgement if it is in there.          *)
ObserverPanic ==
    /\ "panic" \in Faults
    /\ Running
    /\ obs = "up"
    /\ chan # <<>>
    /\ Head(chan) # Shutdown
    /\ obs' = "gone"
    /\ ack' = IF Contains(chan, Shutdown) THEN "dropped" ELSE ack
    /\ chan' = <<>>
    /\ UNCHANGED <<peerVars, relayVars, pending, trace>>

-----------------------------------------------------------------------------
(* The process is killed from outside.                                     *)
Kill ==
    /\ "kill" \in Faults
    /\ Running
    /\ Goto("s2c", "killed")
    /\ UNCHANGED <<peerVars, inn, out, held, clock, chan, obsVars>>

Relay(d) == ReadLine(d) \/ ReadEof(d) \/ SendFrame(d) \/ WriteLine(d) \/ WriteError(d)

ClientThread == Relay("c2s")

WindDown ==
    WaitChild \/ ReapClient \/ SendShutdown \/ RecvAck \/ JoinObserver

MainThread == Relay("s2c") \/ WindDown

Observe == ObserveFrame \/ ObserveShutdown \/ ObserverPanic

Peers ==
    \/ \E d \in Directions :
          \/ \E p \in Payloads : Emit(d, p)
          \/ Consume(d) \/ CloseSource(d) \/ CloseSink(d)
    \/ ChildExit

(* Nothing is left to happen: the process is over.                         *)
Over == ~Running /\ UNCHANGED vars

Next == ClientThread \/ MainThread \/ Observe \/ Peers \/ Kill \/ Over

Spec == Init /\ [][Next]_vars

(* Every thread of a running process is scheduled again and again, and     *)
(* whoever holds the reading end of a pipe keeps reading or closes it.     *)
Fairness ==
    /\ WF_vars(ClientThread)
    /\ WF_vars(MainThread)
    /\ WF_vars(Observe)
    /\ \A d \in Directions : WF_vars(Consume(d))

FairSpec == Spec /\ Fairness

-----------------------------------------------------------------------------
(* Properties.                                                             *)

TypeOK ==
    /\ log \in [Directions -> Seq(Payloads)]
    /\ got \in [Directions -> Seq(Payloads)]
    /\ srcOpen \in [Directions -> BOOLEAN]
    /\ sinkOpen \in [Directions -> BOOLEAN]
    /\ childUp \in BOOLEAN
    /\ inn \in [Directions -> Seq(Payloads)]
    /\ out \in [Directions -> Seq(Payloads)]
    /\ DOMAIN pc = Directions
    /\ pc["c2s"] \in {"read", "send", "write", "done", "failed"}
    /\ pc["s2c"] \in {"read", "send", "write", "wait", "reap", "shutdown",
                      "ack", "join", "exited", "aborted", "killed"}
    /\ held \in [Directions -> Frame \cup {None}]
    /\ \A d \in Directions :
         /\ pc[d] \in {"send", "write"} => held[d] # None /\ held[d].dir = d
         /\ pc[d] = "read" => held[d] = None
    /\ clock \in Nat
    /\ chan \in Seq(Frame \cup {Shutdown})
    /\ obs \in {"up", "gone"}
    /\ ack \in {"none", "sent", "dropped"}

(* The lines of direction d between its two peers.  The thread that relays *)
(* d has one in its hands from the read to the end of the write.           *)
Carried(d) == IF held[d] = None THEN <<>> ELSE <<held[d].payload>>

InFlight(d) == out[d] \o Carried(d) \o inn[d]

(* Transparent forwarding: what the sink has read is, line for line and in *)
(* order, what the source wrote first; and until a write has failed, every *)
(* other line is still in flight.                                          *)
LinesInOrder ==
    \A d \in Directions :
        /\ IsPrefix(got[d], log[d])
        /\ pc[d] \notin {"failed", "aborted"} => log[d] = got[d] \o InFlight(d)

AddPayload(d, ps, f) == IF f.dir = d THEN Append(ps, f.payload) ELSE ps

PayloadsOf(d, s) == FoldLeft(LAMBDA ps, f : AddPayload(d, ps, f), <<>>, s)

Forwarded(d) == got[d] \o out[d]

(* While the observer lives and no trace write fails, the trace and the    *)
(* channel hold exactly the lines forwarded so far, each once and in       *)
(* order; the one line they may hold in advance is the one being written.  *)
ObservedExactly ==
    obs = "up" =>
      \A d \in Directions :
         PayloadsOf(d, trace) \o PayloadsOf(d, chan) =
           CASE pc[d] = "write" -> Forwarded(d) \o Carried(d)
             [] pc[d] \in {"failed", "aborted", "killed"} ->
                  SubSeq(log[d], 1, Len(PayloadsOf(d, trace \o chan)))
             [] OTHER -> Forwarded(d)

(* When the proxy has exited in the normal way, the trace on disk misses   *)
(* nothing: all that the child wrote is in it, and all that the child read *)
(* is in it, although the client thread may still be running.              *)
RecordedAtExit ==
    pc["s2c"] = "exited" =>
      /\ PayloadsOf("s2c", trace) = log["s2c"]
      /\ IsPrefix(got["c2s"], PayloadsOf("c2s", trace))
      /\ IsPrefix(PayloadsOf("c2s", trace), log["c2s"])

(* Once the child has exited, the proxy exits as well: neither a client    *)
(* that stays silent nor an observer that has died can keep it.            *)
ExitsAfterChild == ~childUp ~> ~Running

(* Whatever happens to the observer, the proxy implements a pair of pipes. *)
Broken(d) == pc[d] = "failed" \/ ~Running

Pipe == INSTANCE Relay WITH
    flight <- [d \in Directions |->
                 IF Broken(d) THEN out[d] ELSE InFlight(d)],
    broken <- [d \in Directions |-> Broken(d)],
    alive  <- pc["s2c"] # "killed"

ImplementsPipes == Pipe!Spec

(* A line in flight is delivered unless its direction has broken or its    *)
(* reader has hung up: nothing else, and no fault of the observer, keeps a *)
(* line inside the proxy.                                                  *)
DeliversLines ==
    \A d \in Directions : \A n \in 1..MaxLines[d] :
        Len(log[d]) >= n ~> (Len(got[d]) >= n \/ Broken(d) \/ ~sinkOpen[d])
=============================================================================
