------------------------------- MODULE Relay -------------------------------
(***************************************************************************)
(* What a transparent proxy promises its two peers: in each direction a    *)
(* pipe that delivers lines in the order in which they were written.  A    *)
(* line is lost only when the proxy is killed, when its reader has hung    *)
(* up, or when the client has (a client that stops reading ends the proxy  *)
(* and with it both directions).  Nothing is said of measuring: a proxy    *)
(* whose observer interferes with the traffic does not implement this.     *)
(***************************************************************************)
EXTENDS Sequences, SequencesExt

CONSTANT Payloads

VARIABLES
    log,        \* log[d]: the lines written by the source of direction d
    got,        \* got[d]: the lines read by its sink
    flight,     \* flight[d]: the lines in between
    broken,     \* broken[d]: the proxy no longer relays direction d
    srcOpen,    \* srcOpen[d]: the source may write
    sinkOpen,   \* sinkOpen[d]: the sink may read
    alive       \* the proxy has not been killed

pipeVars == <<log, got, flight, broken, srcOpen, sinkOpen, alive>>

Ways == {"c2s", "s2c"}

Init ==
    /\ log = [d \in Ways |-> <<>>]
    /\ got = [d \in Ways |-> <<>>]
    /\ flight = [d \in Ways |-> <<>>]
    /\ broken = [d \in Ways |-> FALSE]
    /\ srcOpen = [d \in Ways |-> TRUE]
    /\ sinkOpen = [d \in Ways |-> TRUE]
    /\ alive = TRUE

Send(d) ==
    /\ srcOpen[d]
    /\ \E p \in Payloads :
         /\ log' = [log EXCEPT ![d] = Append(@, p)]
         /\ flight' = IF broken[d] THEN flight
                      ELSE [flight EXCEPT ![d] = Append(@, p)]
    /\ UNCHANGED <<got, broken, srcOpen, sinkOpen, alive>>

Recv(d) ==
    /\ sinkOpen[d]
    /\ flight[d] # <<>>
    /\ got' = [got EXCEPT ![d] = Append(@, Head(flight[d]))]
    /\ flight' = [flight EXCEPT ![d] = Tail(@)]
    /\ UNCHANGED <<log, broken, srcOpen, sinkOpen, alive>>

(* A peer closes one end or several.                                       *)
HangUp ==
    /\ \A d \in Ways : (srcOpen'[d] => srcOpen[d]) /\ (sinkOpen'[d] => sinkOpen[d])
    /\ UNCHANGED <<log, got, flight, broken, alive>>

(* Relaying stops in one direction or in both.  Only the youngest lines in *)
(* flight may be lost, and only for one of the three causes.               *)
Break ==
    /\ alive' => alive
    /\ \A d \in Ways :
         /\ broken[d] => broken'[d]
         /\ IsPrefix(flight'[d], flight[d])
         /\ flight'[d] # flight[d] =>
              broken'[d] /\ (~alive' \/ ~sinkOpen[d] \/ ~sinkOpen["s2c"])
    /\ UNCHANGED <<log, got, srcOpen, sinkOpen>>

Next == (\E d \in Ways : Send(d) \/ Recv(d)) \/ HangUp \/ Break

Spec == Init /\ [][Next]_pipeVars
=============================================================================
