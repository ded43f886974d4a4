---------------------------- MODULE Distributed ----------------------------
(***************************************************************************)
(* RunDistributed (planner/runner.go) with its receivers, and the          *)
(* processor servers it feeds (processor/transport_grpc.go): records go    *)
(* round robin over TCP connections to servers that echo them, and what    *)
(* comes back before the timeout is the result.                            *)
(*                                                                         *)
(* A connection is a queue of lines each way, of at most Window lines, as  *)
(* both sides may block in a write.  A server may be stopped (it accepts   *)
(* nothing more, but its connections go on) or die.                        *)
(***************************************************************************)
EXTENDS Integers, Sequences, FiniteSets, Lists

CONSTANTS
  MaxWorkers,       \* bound: addresses given
  Stream,           \* the streams of records on src
  Window            \* lines a connection holds each way

\* The values of records: numbers, ones json cannot encode, and none.
Record == [id : Nat, type : {"int", "float64", "chan", "nil"}]

ASSUME DistributedAssumption ==
  /\ MaxWorkers \in Nat
  /\ Stream \subseteq Seq(Record)
  /\ Window \in Nat \ {0}

VARIABLES
  n,                \* len(addrs); worker w is addrs[w - 1]
  src,              \* the records of src
  main,             \* RunDistributed: where it is
  i,                \* the records sent
  server,           \* server[w]: "up", "stopped" or "dead"
  conn,             \* conn[w]: "none", "open", "broken" or "closed"
  toServer,         \* toServer[w]: lines on their way to w
  toClient,         \* toClient[w]: and back
  got,              \* got[w]: the record the receiver of w has read
  receiver,         \* receiver[w]: "none", "reading" or "exited"
  outputs,          \* the results gathered, each with its worker
  result            \* what was returned

netVars  == <<toServer, toClient>>
recvVars == <<got, receiver, outputs>>
vars     == <<n, src, main, i, server, conn, netVars, recvVars, result>>

Worker == 1 .. n

Init ==
  /\ n \in 0 .. MaxWorkers
  /\ src \in Stream
  /\ main = "dial"
  /\ i = 0
  /\ server = [w \in Worker |-> "up"]
  /\ conn = [w \in Worker |-> "none"]
  /\ toServer = [w \in Worker |-> <<>>]
  /\ toClient = [w \in Worker |-> <<>>]
  /\ got = [w \in Worker |-> <<>>]
  /\ receiver = [w \in Worker |-> "none"]
  /\ outputs = <<>>
  /\ result = <<>>

\* A record through json.Marshal and json.Unmarshal: numbers are float64,
\* and one that cannot be encoded becomes the nil map.
Null == [id |-> 0, type |-> "nil"]
Json(r) == IF r.type \in {"chan", "nil"} THEN Null ELSE [r EXCEPT !.type = "float64"]

Open(w) == conn[w] = "open"

CloseAll == conn' = [w \in Worker |-> IF conn[w] = "none" THEN "none" ELSE "closed"]

-----------------------------------------------------------------------------
\* The worker whose turn it is to be dialled.
Dialled == Cardinality({w \in Worker : conn[w] # "none"}) + 1

Dial ==
  /\ main = "dial" /\ Dialled \in Worker
  /\ server[Dialled] = "up"
  /\ conn' = [conn EXCEPT ![Dialled] = "open"]
  /\ UNCHANGED <<n, src, main, i, server, netVars, recvVars, result>>

\* Mutant: the connections made before are left open.
DialFails_LeavesOpen ==
  /\ main = "dial" /\ Dialled \in Worker
  /\ server[Dialled] # "up"
  /\ main' = "failed"
  /\ UNCHANGED <<n, src, i, server, conn, netVars, recvVars, result>>

DialFails ==
  /\ main = "dial" /\ Dialled \in Worker
  /\ server[Dialled] # "up"
  /\ CloseAll
  /\ main' = "failed"
  /\ UNCHANGED <<n, src, i, server, netVars, recvVars, result>>

StartReceivers ==
  /\ main = "dial" /\ Dialled \notin Worker
  /\ receiver' = [w \in Worker |-> "reading"]
  /\ main' = "send"
  /\ UNCHANGED <<n, src, i, server, conn, netVars, got, outputs, result>>

\* clients[i%len(clients)]
Turn == (i % n) + 1

\* Send: to a broken connection it fails, and the error is dropped.
Send ==
  /\ main = "send" /\ i < Len(src) /\ n > 0
  /\ i' = i + 1
  /\ \/ Open(Turn) /\ Len(toServer[Turn]) < Window
        /\ toServer' = [toServer EXCEPT ![Turn] = Append(@, Json(src[i + 1]))]
     \/ ~Open(Turn) /\ UNCHANGED toServer
  /\ UNCHANGED <<n, src, main, server, conn, toClient, recvVars, result>>

\* i%0: without workers the first record is a panic.
SendPanics ==
  /\ main = "send" /\ i < Len(src) /\ n = 0
  /\ main' = "panicked"
  /\ UNCHANGED <<n, src, i, server, conn, netVars, recvVars, result>>

SourceEnds ==
  /\ main = "send" /\ i = Len(src)
  /\ main' = "wait"
  /\ UNCHANGED <<n, src, i, server, conn, netVars, recvVars, result>>

\* Mutant: no timeout.
WaitEnds_NoTimeout ==
  /\ main = "wait" /\ \A w \in Worker : receiver[w] = "exited"
  /\ CloseAll
  /\ main' = "return"
  /\ UNCHANGED <<n, src, i, server, netVars, recvVars, result>>

\* The wait is over when all receivers are, or by the timeout.  Nothing
\* tells a server that there are no more records, so it is by the timeout
\* unless the connections broke.
WaitEnds ==
  /\ main = "wait"
  /\ CloseAll
  /\ main' = "return"
  /\ UNCHANGED <<n, src, i, server, netVars, recvVars, result>>

\* `return outputs` reads the slice without the lock: a receiver that is
\* appending makes it arbitrary (Null stands for that).
Return ==
  /\ main = "return"
  /\ \/ result' = outputs
     \/ (\E w \in Worker : got[w] # <<>>) /\ result' = <<Null>>
  /\ main' = "returned"
  /\ UNCHANGED <<n, src, i, server, conn, netVars, recvVars>>

-----------------------------------------------------------------------------
\* The receiver of w: Recv, which fails when no line can come any more.
Recv(w) ==
  /\ receiver[w] = "reading" /\ got[w] = <<>>
  /\ \/ /\ conn[w] # "closed" /\ toClient[w] # <<>>
        /\ got' = [got EXCEPT ![w] = <<Head(toClient[w])>>]
        /\ toClient' = [toClient EXCEPT ![w] = Tail(@)]
        /\ UNCHANGED receiver
     \/ /\ conn[w] = "closed" \/ (conn[w] = "broken" /\ toClient[w] = <<>>)
        /\ receiver' = [receiver EXCEPT ![w] = "exited"]
        /\ UNCHANGED <<got, toClient>>
  /\ UNCHANGED <<n, src, main, i, server, conn, toServer, outputs, result>>

\* Mutant: the record stays with the receiver.
Gather_Twice(w) ==
  /\ got[w] # <<>>
  /\ outputs' = Append(outputs, [from |-> w, rec |-> got[w][1]])
  /\ got' \in {got, [got EXCEPT ![w] = <<>>]}
  /\ UNCHANGED <<n, src, main, i, server, conn, netVars, receiver, result>>

\* The append under the lock.
Gather(w) ==
  /\ got[w] # <<>>
  /\ outputs' = Append(outputs, [from |-> w, rec |-> got[w][1]])
  /\ got' = [got EXCEPT ![w] = <<>>]
  /\ UNCHANGED <<n, src, main, i, server, conn, netVars, receiver, result>>

\* handle of server w: reads a line and writes it back.
Handle(w) ==
  /\ server[w] # "dead" /\ Open(w)
  /\ toServer[w] # <<>> /\ Len(toClient[w]) < Window
  /\ toServer' = [toServer EXCEPT ![w] = Tail(@)]
  /\ toClient' = [toClient EXCEPT ![w] = Append(@, Json(Head(toServer[w])))]
  /\ UNCHANGED <<n, src, main, i, server, conn, recvVars, result>>

\* Stop: the listener is closed; handlers are not told.
StopServer(w) ==
  /\ server[w] = "up"
  /\ server' = [server EXCEPT ![w] = "stopped"]
  /\ UNCHANGED <<n, src, main, i, conn, netVars, recvVars, result>>

\* The server's process dies: lines it has not echoed are lost.
ServerDies(w) ==
  /\ server[w] # "dead"
  /\ server' = [server EXCEPT ![w] = "dead"]
  /\ conn' = [conn EXCEPT ![w] = IF @ = "open" THEN "broken" ELSE @]
  /\ toServer' = [toServer EXCEPT ![w] = <<>>]
  /\ UNCHANGED <<n, src, main, i, toClient, recvVars, result>>

Main == Dial \/ DialFails \/ StartReceivers \/ Send \/ SendPanics \/ SourceEnds \/ WaitEnds \/ Return

Receiver(w) == Recv(w) \/ Gather(w)

Next ==
  \/ Main
  \/ \E w \in Worker : Receiver(w) \/ Handle(w) \/ StopServer(w) \/ ServerDies(w)

\* Every goroutine and every live handler goes on when it can; the timeout
\* makes WaitEnds possible at any moment of the wait.
Spec ==
  /\ Init /\ [][Next]_vars
  /\ WF_vars(Main)
  /\ \A w \in 1 .. MaxWorkers : WF_vars(w \in Worker /\ Receiver(w)) /\ WF_vars(w \in Worker /\ Handle(w))

-----------------------------------------------------------------------------
Ended == main \in {"returned", "failed", "panicked"}

\* The records gathered from w.
From(outs, w) == Flatten([k \in DOMAIN outs |-> IF outs[k].from = w THEN <<outs[k].rec>> ELSE <<>>])

\* The records sent so far that went to w.
SentTo(w) == Flatten([k \in 1 .. i |-> IF ((k - 1) % n) + 1 = w THEN <<Json(src[k])>> ELSE <<>>])

\* A connection in use neither loses, repeats nor reorders: what its
\* receiver has gathered and what is under way make up what was sent to it.
ConnectionConserves ==
  \A w \in Worker : Open(w) => From(outputs, w) \o got[w] \o toClient[w] \o toServer[w] = SentTo(w)

\* Whichever servers stop or die, and whenever the timeout comes, the
\* results of each worker are the first records it was sent, decoded, each
\* once; nothing is said of a result read while a receiver appends.
ResultsFromSource ==
  main = "returned" /\ result # <<Null>> =>
    \A w \in Worker : \E k \in 0 .. Len(SentTo(w)) : From(result, w) = SubSeq(SentTo(w), 1, k)

\* No connection survives RunDistributed, its error return included.
ConnectionsClosed == Ended => \A w \in Worker : ~Open(w)

\* RunDistributed ends, although senders and servers block on full
\* connections, and all of its receivers end after it.
EndsAndCleansUp == <>(Ended /\ \A w \in Worker : receiver[w] # "reading")
=============================================================================
