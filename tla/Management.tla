----------------------------- MODULE Management -----------------------------
(***************************************************************************)
(* Users of the SDK's client (sdk/client.go) against the management API    *)
(* (management/api/server.go) of a broker: the produce, consume and drain  *)
(* requests.  A request is served by a handler goroutine, whose calls of   *)
(* the broker are the sections of Idempotent (a handler is its Client) and *)
(* Broker.                                                                 *)
(*                                                                         *)
(* The SDK sends a request once.  Its answer may be lost, or the caller's  *)
(* context may end first while the handler goes on; both are errors to the *)
(* caller, who may send the same record again.  A user sends records       *)
(* numbered from 1 to one topic: with its producer id and these sequence   *)
(* numbers if it is sequenced, or else with plain Produce.                 *)
(***************************************************************************)
EXTENDS Idempotent, FiniteSetsExt

CONSTANTS
  User,             \* callers of the SDK
  Sequenced,        \* the ones that use ProduceIdempotent
  TopicOf,          \* TopicOf[u]: the topic u produces to
  ProducerOf,       \* ProducerOf[u]: its producer id
  PageSize,         \* the records an SDK Consume asks for
  MaxRecords,       \* bound: MaxRecords[u] records of user u
  MaxRestarts,      \* bound: restarts of the server
  MaxSends          \* bound: requests sent by all users together

ASSUME ManagementAssumption ==
  /\ Sequenced \subseteq User
  /\ TopicOf \in [User -> Topic]
  /\ ProducerOf \in [User -> Producer]
  /\ \A u, v \in User : ProducerOf[u] = ProducerOf[v] => u = v
  /\ {PageSize, MaxRestarts, MaxSends} \subseteq Nat
  /\ MaxRecords \in [User -> Nat]
  /\ "idle" \notin Client

VARIABLES
  user,             \* user[u]: its record, and the handler it waits for
  handler,          \* handler[h]: the request of handler h
  returned,         \* history: the records <<u, s>> whose call returned nil
  doubtful,         \* history: records sent again while an earlier attempt
                    \* was under way or to a new process, or left in the log
                    \* by a failed append
  lost,             \* history: the safe entries that restarts dropped
  restarts,         \* how many there were
  sends             \* requests sent

apiVars == <<user, handler, returned, doubtful, lost, restarts, sends>>

Free == [pc |-> "free"]

MInit ==
  /\ Init
  /\ user = [u \in User |-> [pc |-> "idle", seq |-> 1, sent |-> FALSE]]
  /\ handler = [h \in Client |-> Free]
  /\ returned = {}
  /\ doubtful = {}
  /\ lost = {}
  /\ restarts = 0
  /\ sends = 0

Busy == {h \in Client : handler[h] # Free}

RecordOf(u) == <<u, user[u].seq>>

-----------------------------------------------------------------------------
\* Client.Produce or ProduceIdempotent: postJSON sends the request, and a
\* new goroutine (any free one, as they are alike) handles it.
Send(u, h) ==
  /\ user[u].pc = "idle" /\ user[u].seq <= MaxRecords[u]
  /\ sends < MaxSends /\ sends' = sends + 1
  /\ handler[h] = Free /\ h = CHOOSE g \in Client : handler[g] = Free
  /\ user' = [user EXCEPT ![u].pc = h, ![u].sent = TRUE]
  /\ handler' = [handler EXCEPT ![h] = [pc |-> "create", user |-> u, seq |-> user[u].seq]]
  /\ doubtful' = IF \E g \in Busy : <<handler[g].user, handler[g].seq>> = RecordOf(u)
                 THEN doubtful \cup {RecordOf(u)} ELSE doubtful
  /\ UNCHANGED <<vars, returned, lost, restarts>>

\* The user goes on to the next record, after an error.
GiveUp(u) ==
  /\ user[u].pc = "idle" /\ user[u].sent
  /\ user' = [user EXCEPT ![u].seq = @ + 1, ![u].sent = FALSE]
  /\ UNCHANGED <<vars, handler, returned, doubtful, lost, restarts, sends>>

Goes(h, pc) == handler' = [handler EXCEPT ![h].pc = pc]

\* The handler's call of CreateTopic; an error is answered.
HandleCreateTopic(h) ==
  /\ handler[h].pc = "create"
  /\ \/ CreateTopic(TopicOf[handler[h].user]) /\ Goes(h, "produce")
     \/ DiskFails /\ TopicOf[handler[h].user] \notin topics /\ UNCHANGED topics /\ Goes(h, "error")
  /\ UNCHANGED <<logs, draining, idemVars, user, returned, doubtful, lost, restarts, sends>>

\* handleProduce: Produce, whose error is answered with 409 or 500.
HandleProduce(h) ==
  LET r     == handler[h]
      entry == [kind |-> "plain", user |-> r.user, seq |-> r.seq]
  IN  /\ r.pc = "produce" /\ r.user \notin Sequenced
      /\ \/ Accepts(TopicOf[r.user]) /\ Appends(TopicOf[r.user], entry) /\ Goes(h, "ok")
         \/ ProduceError(TopicOf[r.user], entry) /\ Goes(h, "error")
      /\ UNCHANGED <<topics, draining, idemVars, user, returned, doubtful, lost, restarts, sends>>

\* A sequence number below the last one, and not cached.
OutOfOrder(t, p, s) ==
  /\ DedupKey(t, p, s) \notin DOMAIN dedupCache
  /\ SeqKey(t, p) \in DOMAIN producerSeq /\ s < producerSeq[SeqKey(t, p)]

\* Mutant: a refused sequence number is tried again.
Refused_Waits(h) == FALSE

\* ErrOutOfOrderSequence is answered with 409.
Refused(h) ==
  LET r == handler[h]
  IN  /\ call[h] = NoCall /\ OutOfOrder(TopicOf[r.user], ProducerOf[r.user], r.seq)
      /\ Goes(h, "error")
      /\ UNCHANGED vars

\* handleProduceIdempotent: the sections of ProduceIdempotent; a duplicate is
\* a success.
HandleProduceIdempotent(h) ==
  LET r == handler[h]
      t == TopicOf[r.user]
      p == ProducerOf[r.user]
  IN  /\ r.pc = "produce" /\ r.user \in Sequenced
      /\ \/ AnswerFromCache(h, t, p, r.seq) /\ Goes(h, "ok")
         \/ Refused(h)
         \/ Check(h, t, p, r.seq) /\ UNCHANGED handler
         \/ ProduceSucceeds(h) /\ UNCHANGED handler
         \/ ProduceFails(h) /\ Goes(h, "error")
         \/ Remember(h) /\ Goes(h, "ok")
      /\ doubtful' = IF log' # log /\ handler'[h].pc = "error" THEN doubtful \cup {<<r.user, r.seq>>} ELSE doubtful
      /\ UNCHANGED <<user, returned, lost, restarts, sends>>

Waits(u, h) == user[u].pc = h

\* postJSON: a status below 300 is a success.
Verdict(h) == handler[h].pc = "ok"

\* The answer reaches the user, if it still waits, or is lost.
Answer200(h) ==
  LET u == handler[h].user
      s == handler[h].seq
  IN  /\ handler[h].pc \in {"ok", "error"}
      /\ handler' = [handler EXCEPT ![h] = Free]
      /\ \/ /\ Waits(u, h) /\ Verdict(h)
            /\ user' = [user EXCEPT ![u] = [pc |-> "idle", seq |-> s + 1, sent |-> FALSE]]
            /\ returned' = returned \cup {<<u, s>>}
         \/ /\ Waits(u, h)
            /\ user' = [user EXCEPT ![u].pc = "idle"]
            /\ UNCHANGED returned
         \/ ~Waits(u, h) /\ UNCHANGED <<user, returned>>
      /\ UNCHANGED <<vars, doubtful, lost, restarts, sends>>

\* The caller's context ends; the handler is not told.
Timeout(u) ==
  /\ user[u].pc \in Client
  /\ user' = [user EXCEPT ![u].pc = "idle"]
  /\ UNCHANGED <<vars, handler, returned, doubtful, lost, restarts, sends>>

\* handleDrain, and the end of the window.
HandleDrain ==
  /\ DrainWindow
  /\ UNCHANGED apiVars

\* The server's process dies: the connections break, and what is sent
\* again meets an empty cache.
ServerRestart ==
  /\ restarts < MaxRestarts /\ restarts' = restarts + 1
  /\ Restart
  /\ handler' = [h \in Client |-> Free]
  /\ user' = [u \in User |-> [user[u] EXCEPT !.pc = "idle"]]
  /\ doubtful' = doubtful \cup {RecordOf(u) : u \in {v \in User : user[v].sent}}
  /\ lost' = lost \cup Dropped
  /\ UNCHANGED <<returned, sends>>

Serve(h) ==
  HandleCreateTopic(h) \/ HandleProduce(h) \/ HandleProduceIdempotent(h) \/ Answer200(h)

MNext ==
  \/ \E u \in User : (\E h \in Client : Send(u, h)) \/ GiveUp(u) \/ Timeout(u)
  \/ \E h \in Client : Serve(h)
  \/ HandleDrain
  \/ ServerRestart

\* A handler goroutine goes on: the broker's lock is held for a section only.
MSpec == MInit /\ [][MNext]_<<vars, apiVars>> /\ \A h \in Client : WF_<<vars, apiVars>>(Serve(h))

-----------------------------------------------------------------------------
Wrote(e, u, s) ==
  e.seq = s /\ IF e.kind = "plain" THEN e.user = u ELSE e.producer = ProducerOf[u]

At(u, s, es) == {i \in DOMAIN es : Wrote(es[i], u, s)}

\* A record sent with a sequence number is appended once, however often its
\* answer was lost and it was sent again, unless it was sent while an earlier
\* attempt was still served, or to a process that did not know of it, or an
\* append failed after the record became readable.
RetriesAppendOnce ==
  \A u \in Sequenced, s \in Sequence :
    <<u, s>> \notin doubtful => \A i, j \in At(u, s, log[TopicOf[u]]) : i = j

\* Mutant: the page starts after offset.
HandleConsume_After(t, offset) ==
  IF t \in topics THEN SubSeq(log[t], offset + 2, Min({Len(log[t]), offset + PageSize})) ELSE <<>>

\* handleConsume: the records of an open topic from offset on, at most a
\* page; 404, and no records, for one that is not open.
HandleConsume(t, offset) ==
  IF t \in topics THEN SubSeq(log[t], offset + 1, Min({Len(log[t]), offset + PageSize})) ELSE <<>>

\* The text that encoding/json makes of the value of an entry, a []byte.
Base64(entry) == [base64 |-> entry]

\* What Client.Consume sends on its channel: the values of the first page, as
\* the texts they have in the answer, which it does not decode; and nothing
\* after an error, which the caller is not told of.
Consume(t) ==
  LET page == HandleConsume(t, 0)
  IN  [i \in DOMAIN page |-> Base64(page[i])]

\* A call that returned without an error has put its record into the topic's
\* log, where other attempts and restarts leave it, unless a crash found the
\* topic's index exposed and the restart dropped it.  While it is there, a
\* Consume of the open topic receives its text, in its place, if it is on the
\* first page.
ReturnedIsRead ==
  \A r \in returned :
    LET t     == TopicOf[r[1]]
        there == At(r[1], r[2], log[t])
    IN  /\ there # {} \/ \E entry \in lost : Wrote(entry, r[1], r[2])
        /\ t \in topics =>
             \A i \in there : i <= PageSize => i \in DOMAIN Consume(t) /\ Consume(t)[i] = Base64(log[t][i])

\* A request ends, and with it the caller's wait, whatever the broker refuses
\* and whichever topic cannot be opened, also if its caller has left.
RequestEnds == \A h \in Client : h \in Busy ~> h \notin Busy
=============================================================================
