-------------------------- MODULE FixtureSession --------------------------
(***************************************************************************)
(* The stdio fixture, src/src/fixture.rs, as the server of a session: it   *)
(* reads a line, writes what it answers, and only then reads the next one, *)
(* so that a full pipe to the proxy stops it.  (What its stdin buffers     *)
(* only makes the pipe longer.)  Lines are UTF-8 here, and arrays are not  *)
(* nested.                                                                 *)
(***************************************************************************)
EXTENDS StdioSession, Traffic

CONSTANTS ClientLines,    \* the lines of the client
          Blank           \* those of them the fixture skips

ASSUME FixtureSessionAssumption ==
    /\ Blank \subseteq ClientLines /\ ClientLines \subseteq Payloads
    /\ MaxLines["c2s"] <= MaxLines["s2c"]

(* A mistake for a mutant: a batch is not answered.                        *)
HandleLineOne(p) ==
    IF p.json /\ ~p.batch /\ p.items[1].method # None /\ p.items[1].id # None
    THEN <<Line(Answers(p.items[1].id))>> ELSE <<>>

(* What filter_map keeps: requests.                                        *)
Handled(item) == item.object /\ item.method # None /\ item.id # None

(* handle_message: a sequence of no answer or one.  An unknown tool is a   *)
(* result as well; an unknown method is not.                               *)
HandleMessage(item) ==
    IF ~Handled(item) THEN <<>>
    ELSE CASE item.method = "tools/list" -> <<Lists(item.id, 3)>>
           [] item.method \in {"tools/call", "server/discover", "initialize", "ping"} ->
                 <<Answers(item.id)>>
           [] OTHER -> <<Fails(item.id)>>

(* One round of the loop of run: what is written, if anything.             *)
HandleLine(p) ==
    LET replies == FlattenSeq([k \in DOMAIN p.items |-> HandleMessage(p.items[k])])
    IN  IF p \in Blank THEN <<>>
        ELSE IF ~p.json THEN <<Line(Fails(Null))>>
        ELSE IF replies = <<>> THEN <<>>
        ELSE IF p.batch THEN <<Batch(replies)>> ELSE <<Line(replies[1])>>

(* What the client writes is JSON values, one or an array of them, or no   *)
(* JSON; what the fixture writes are lines a peer may write.               *)
ASSUME FixtureLinesAssumption ==
    \A p \in ClientLines :
        /\ p.json /\ ~p.batch => Len(p.items) = 1
        /\ p \in Blank => ~p.json
        /\ ToSet(HandleLine(p)) \subseteq Payloads

Replies(s) == FlattenSeq([k \in DOMAIN s |-> HandleLine(s[k])])

Owed == Replies(got["c2s"])

AllWritten == Len(log["s2c"]) = Len(Owed)

FixtureReads == AllWritten /\ Consume("c2s")

(* A mistake for a mutant: the last answer is written again.               *)
FixtureWritesAgain == Owed # <<>> /\ Emit("s2c", Last(Owed))

FixtureWrites == ~AllWritten /\ Emit("s2c", Owed[Len(log["s2c"]) + 1])

FixtureExits == AllWritten /\ InputEnded /\ ChildExit

Fixture == FixtureReads \/ FixtureWrites \/ FixtureExits

Client ==
    \/ \E p \in ClientLines : Emit("c2s", p) /\ Legal("c2s", p)
    \/ ClientCloses
    \/ Consume("s2c")

FixtureNext == ClientThread \/ MainThread \/ Observe \/ Client \/ Fixture \/ Over

FixtureSpec == Init /\ [][FixtureNext]_vars

(* Threads and processes are scheduled, and the client reads its answers.  *)
FairFixture ==
    /\ FixtureSpec
    /\ WF_vars(ClientThread)
    /\ WF_vars(MainThread)
    /\ WF_vars(Observe)
    /\ WF_vars(Fixture)
    /\ WF_vars(Consume("s2c"))

-----------------------------------------------------------------------------
(* The trace never tells of an answer before it tells of what is answered: *)
(* the lines of the server in it are those the fixture writes to the lines *)
(* of the client in it, or the first of these, also when the client does   *)
(* not wait for answers.                                                   *)
AnswersFollow ==
    obs = "up" => IsPrefix(PayloadsOf("s2c", trace), Replies(PayloadsOf("c2s", trace)))

(* The fixture is a server as StdioSession supposes it: it gives no answer *)
(* that was not asked for and none twice, it owes none for ever, and it    *)
(* exits only when it owes none.                                           *)
ImplementsServer == SessionSpec /\ ServerFairness

(* Every request the client has written is answered, the client reads the  *)
(* answer, and the round trip is in the trace.  Only a panic of the        *)
(* observer excuses the trace, and nothing excuses the answers.            *)
Panicked == obs = "gone" /\ ack # "sent"

AllAnswered(s) == Count({"response"} \X Asking, s)

Latencies == [k \in DOMAIN trace |-> trace[k].facts.latencies]

RequestsMeasured ==
    \A n \in 1..MaxAsks["c2s"] :
        AllAsked(log["c2s"]) = n ~>
            /\ AllAnswered(got["s2c"]) >= n
            /\ Panicked \/ Len(FlattenSeq(Latencies)) >= n

(* A client that closes its end after its last answer sees the proxy exit, *)
(* also when the observer has panicked.                                    *)
SessionEnds == ~srcOpen["c2s"] ~> pc["s2c"] = "exited"
=============================================================================
