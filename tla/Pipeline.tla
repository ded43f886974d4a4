------------------------------ MODULE Pipeline ------------------------------
(***************************************************************************)
(* A chain of operators at work (Runtime.Run of processor/runtime.go,      *)
(* RunPlan of streamql/executor.go): one goroutine for each operator, a    *)
(* source that sends a finite stream and closes, and a reader of the last  *)
(* channel.                                                                *)
(*                                                                         *)
(* A goroutine that has a record to send holds it until the next one takes *)
(* it; meanwhile it neither receives nor closes, unless its channel has    *)
(* room.                                                                   *)
(***************************************************************************)
EXTENDS Operators

CONSTANTS
  Input,            \* the record streams
  Chain             \* sequences of operators

VARIABLES
  input,            \* the stream of this run
  ops,              \* and the operators
  sent,             \* how many records the source has sent
  stage,            \* stage[i]: the goroutine of ops[i]
  output,           \* what the reader has received
  finished          \* the reader has seen the last channel closed

vars == <<input, ops, sent, stage, output, finished>>

NewStage == [acc |-> Start0, hold |-> <<>>, ended |-> FALSE, closed |-> FALSE]

Init ==
  /\ input \in Input
  /\ ops \in Chain
  /\ sent = 0
  /\ stage = [i \in DOMAIN ops |-> NewStage]
  /\ output = <<>>
  /\ finished = FALSE

N == Len(ops)

\* Channel 0 is the source's, channel i that of operator i.
Offer(i) ==
  IF i > 0 THEN stage[i].hold ELSE IF sent < Len(input) THEN <<input[sent + 1]>> ELSE <<>>

AtEnd(i) ==
  IF i = 0 THEN sent = Len(input) ELSE stage[i].closed /\ stage[i].hold = <<>>

\* The receiver waits for its input.
Waits(i) == ~stage[i].ended /\ stage[i].hold = <<>>

\* `for r := range in`: the sender is free again.
Receive(i) ==
  /\ Waits(i) /\ Offer(i - 1) # <<>>
  /\ LET did == On(ops[i], stage[i].acc, Offer(i - 1)[1])
     IN  stage' = [j \in DOMAIN stage |->
                     CASE j = i     -> [stage[j] EXCEPT !.acc = did.acc, !.hold = did.out]
                       [] j = i - 1 -> [stage[j] EXCEPT !.hold = <<>>]
                       [] OTHER     -> stage[j]]
  /\ sent' = IF i = 1 THEN sent + 1 ELSE sent
  /\ UNCHANGED <<input, ops, output, finished>>

\* The input is closed.
InputEnds(i) ==
  /\ Waits(i) /\ AtEnd(i - 1)
  /\ stage' = [stage EXCEPT ![i].ended = TRUE, ![i].hold = End(ops[i], stage[i].acc)]
  /\ UNCHANGED <<input, ops, sent, output, finished>>

\* Mutant: only a goroutine with something to send at the end closes.
Closes_IfSent(i) ==
  /\ stage[i].ended /\ ~stage[i].closed
  /\ stage[i].hold = <<>> \/ Buffered(ops[i])
  /\ stage[i].acc # Start0
  /\ stage' = [stage EXCEPT ![i].closed = TRUE]
  /\ UNCHANGED <<input, ops, sent, output, finished>>

\* The deferred close, when the last record is taken or in the buffer.
Closes(i) ==
  /\ stage[i].ended /\ ~stage[i].closed
  /\ stage[i].hold = <<>> \/ Buffered(ops[i])
  /\ stage' = [stage EXCEPT ![i].closed = TRUE]
  /\ UNCHANGED <<input, ops, sent, output, finished>>

\* The ticker of a TimeWindowAggregateOperator.
Tick(i) ==
  /\ ops[i].kind = "time" /\ Waits(i)
  /\ Flushed(ops[i], stage[i].acc) # <<>>
  /\ stage' = [stage EXCEPT ![i].hold = Flushed(ops[i], stage[i].acc), ![i].acc = Start0]
  /\ UNCHANGED <<input, ops, sent, output, finished>>

Read ==
  /\ Offer(N) # <<>>
  /\ output' = output \o Offer(N)
  /\ stage' = [stage EXCEPT ![N].hold = <<>>]
  /\ UNCHANGED <<input, ops, sent, finished>>

ReadEnd ==
  /\ ~finished /\ AtEnd(N)
  /\ finished' = TRUE
  /\ UNCHANGED <<input, ops, sent, stage, output>>

Goroutine(i) == Receive(i) \/ InputEnds(i) \/ Closes(i)

Next ==
  \/ \E i \in DOMAIN ops : Goroutine(i) \/ Tick(i)
  \/ Read \/ ReadEnd

\* Goroutines that can go on do; nothing is assumed of the ticker.
Spec ==
  /\ Init /\ [][Next]_vars
  /\ WF_vars(\E i \in DOMAIN ops : Goroutine(i))
  /\ WF_vars(Read \/ ReadEnd)

-----------------------------------------------------------------------------
(***************************************************************************)
(* What a chain computes, from whole streams.                              *)
(***************************************************************************)
Stateless(op, in) == FlattenSeq([i \in DOMAIN in |-> On(op, Start0, in[i]).out])

CountsOf(op, in) ==
  LET with == {i \in DOMAIN in : Has(in[i], op.key)}
  IN  [t \in {Text(in[i][op.key]) : i \in with} |-> Cardinality({i \in with : Text(in[i][op.key]) = t})]

\* Chunks of op.size; the last is short, and is there if it has a key.
WindowsOf(op, in) ==
  LET full  == IF op.size = 0 THEN 0 ELSE Len(in) \div op.size
      rest  == CountsOf(op, SubSeq(in, full * op.size + 1, Len(in)))
      chunk == [j \in 1 .. full |-> CountsRecord(CountsOf(op, SubSeq(in, (j - 1) * op.size + 1, j * op.size)))]
  IN  chunk \o IF rest = None THEN <<>> ELSE <<CountsRecord(rest)>>

\* Aggregates by group: a result for each spec that found what it needs.
GroupsOf(op, in) ==
  LET At(g)      == {i \in DOMAIN in : TextAt(in[i], op.key) = g}
      Of(g, s)   == {i \in At(g) : s.func = "count" \/ (Has(in[i], s.field) /\ Numeric(in[i][s.field]))}
      Total(g, s) == MapThenSumSet(LAMBDA i : in[i][s.field].num, Of(g, s))
      Value(g, s) == CASE s.func = "count" -> <<Cardinality(Of(g, s)), 1>>
                       [] s.func = "sum"   -> <<Total(g, s), 1>>
                       [] s.func = "avg"   -> <<Total(g, s), Cardinality(Of(g, s))>>
      SpecOf(a)  == CHOOSE s \in ToSet(op.aggs) : Alias(s) = a
  IN  [groups |-> [g \in {TextAt(in[i], op.key) : i \in DOMAIN in} |->
                     [a \in {Alias(s) : s \in {t \in ToSet(op.aggs) : Of(g, t) # {}}} |-> Value(g, SpecOf(a))]]]

Expected(in, op) ==
  CASE op.kind \in {"map", "filter", "join"} -> Stateless(op, in)
    [] op.kind = "aggregate" -> <<CountsRecord(CountsOf(op, in))>>
    [] op.kind = "window"    -> WindowsOf(op, in)
    [] op.kind = "funcs"     -> <<GroupsOf(op, in)>>

\* out is the aggregates of consecutive stretches of in; end is the end of
\* the last.
Stretches(op, in, out, end) ==
  \E cut \in [0 .. Len(out) -> 0 .. Len(in)] :
    /\ cut[0] = 0 /\ cut[Len(out)] = end
    /\ \A j \in DOMAIN out :
         cut[j - 1] < cut[j] /\ out[j] = GroupsOf(op, SubSeq(in, cut[j - 1] + 1, cut[j]))

Timed == ops[N].kind = "time"

LastInput == FoldLeft(Expected, input, Front(ops))

-----------------------------------------------------------------------------
\* Whatever the goroutines' interleaving, what the reader has received is a
\* beginning of the result computed from whole streams, and all of it when
\* the channel is closed.
OutputExpected ==
  ~Timed => LET result == Expected(LastInput, ops[N])
            IN  IsPrefix(output, result) /\ (finished => output = result)

\* Whenever the ticker fires, every record is in exactly one of the time
\* windows the reader receives, in order, and none is lost at the end.
TimeWindowsPartition ==
  Timed => \E end \in 0 .. Len(LastInput) :
             /\ Stretches(ops[N], LastInput, output, end)
             /\ finished => end = Len(LastInput)

\* The closing of the source reaches the reader through every goroutine.
Completes == <>finished
=============================================================================
