----------------------------- MODULE Operators -----------------------------
(***************************************************************************)
(* The stream operators (processor/op.go) and the plans of StreamQL that   *)
(* are built from them (streamql/executor.go, streamql/planner.go).        *)
(*                                                                         *)
(* A record is a function from field names to values; a value has its Go   *)
(* type and a number; a string is the text of its number, so that 1 and    *)
(* "1" format alike, or a word.  An operator is a record of its kind and   *)
(* parameters.  It is a function of what it has gathered (acc) and the     *)
(* record it receives: On gives the new acc and the records it sends, End  *)
(* what it sends when its input is closed.                                 *)
(***************************************************************************)
EXTENDS Integers, Sequences, FiniteSets, SequencesExt, FiniteSetsExt, TLC

None == <<>>        \* the empty map

Start0 == [sums |-> None, counts |-> None, seen |-> 0]

Has(r, field) == field \in DOMAIN r

\* A string as it is, anything else through Sprintf("%v").
Text(v) == IF v.type = "word" THEN "w" \o ToString(v.num) ELSE ToString(v.num)

TextAt(r, key) == IF Has(r, key) THEN Text(r[key]) ELSE ""

Numeric(v) == v.type \in {"int", "float64"}

Lookup(m, k, default) == IF k \in DOMAIN m THEN m[k] ELSE default

Put(m, k, v) == [x \in DOMAIN m \cup {k} |-> IF x = k THEN v ELSE m[x]]

Add(m, k, n) == Put(m, k, Lookup(m, k, 0) + n)

Sends(acc, out) == [acc |-> acc, out |-> out]

-----------------------------------------------------------------------------
\* The function of a MapOperator: nil for a record without the field
\* op.needs (none if ""), the projection to op.proj (all if "*") otherwise.
Project(proj, r) ==
  IF proj \in {<<>>, <<"*">>} THEN r ELSE [f \in DOMAIN r \cap ToSet(proj) |-> r[f]]

OnMap(op, acc, r) == Sends(acc, IF op.needs # "" /\ ~Has(r, op.needs) THEN <<>> ELSE <<Project(op.proj, r)>>)

\* compilePredicate; op.cmp is "" for an expression of fewer than three
\* words.  The constant's text is a number or is not.
Predicate(op, r) ==
  \/ op.cmp = ""
  \/ /\ Has(r, op.field)
     /\ LET v == r[op.field]
        IN  \/ v.type = "int" /\ op.const.type # "word" /\
               \/ op.cmp = "=" /\ v.num = op.const.num
               \/ op.cmp = ">" /\ v.num > op.const.num
               \/ op.cmp = "<" /\ v.num < op.const.num
            \/ v.type \in {"string", "word"} /\ op.cmp = "=" /\ Text(v) = Text(op.const)

OnFilter(op, acc, r) == Sends(acc, IF Predicate(op, r) THEN <<r>> ELSE <<>>)

\* JoinOperator: the right side's fields win; a record without the key is
\* looked up under "".
OnJoin(op, acc, r) ==
  LET k == TextAt(r, op.key)
  IN  Sends(acc, IF k \in DOMAIN op.right THEN <<op.right[k] @@ r>> ELSE <<>>)

CountsRecord(counts) == [counts |-> counts]

Counted(op, acc, r) == IF Has(r, op.key) THEN Add(acc.counts, Text(r[op.key]), 1) ELSE acc.counts

OnAggregate(op, acc, r) == Sends([acc EXCEPT !.counts = Counted(op, acc, r)], <<>>)

EndAggregate(op, acc) == <<CountsRecord(acc.counts)>>

\* Mutant: the counts go on from one window to the next.
OnWindow_NoReset(op, acc, r) ==
  LET counts == Counted(op, acc, r)
      full   == op.size > 0 /\ (acc.seen + 1) % op.size = 0
  IN  Sends([acc EXCEPT !.counts = counts, !.seen = @ + 1], IF full THEN <<CountsRecord(counts)>> ELSE <<>>)

OnWindow(op, acc, r) ==
  LET counts == Counted(op, acc, r)
      full   == op.size > 0 /\ (acc.seen + 1) % op.size = 0
  IN  Sends([acc EXCEPT !.counts = IF full THEN None ELSE counts, !.seen = @ + 1],
            IF full THEN <<CountsRecord(counts)>> ELSE <<>>)

EndWindow(op, acc) == IF acc.counts = None THEN <<>> ELSE <<CountsRecord(acc.counts)>>

-----------------------------------------------------------------------------
Alias(spec) == IF spec.alias = "" THEN spec.func \o "_" \o spec.field ELSE spec.alias

\* One AggSpec applied to the maps of a group.  Sums and their counts share
\* the alias as the key.
ApplySpec(m, spec, r) ==
  CASE spec.func = "count" -> [m EXCEPT !.counts = Add(@, Alias(spec), 1)]
    [] spec.func \in {"sum", "avg"} /\ Has(r, spec.field) /\ Numeric(r[spec.field]) ->
         [sums |-> Add(m.sums, Alias(spec), r[spec.field].num), counts |-> Add(m.counts, Alias(spec), 1)]
    [] OTHER -> m

\* The record goes into its group, "" if it has no key.
Gathered(op, acc, r) ==
  LET g == TextAt(r, op.key)
      m == FoldLeft(LAMBDA n, spec : ApplySpec(n, spec, r),
                    [sums |-> Lookup(acc.sums, g, None), counts |-> Lookup(acc.counts, g, None)], op.aggs)
  IN  [acc EXCEPT !.sums = Put(@, g, m.sums), !.counts = Put(@, g, m.counts)]

IsAvg(op, alias) == \E spec \in ToSet(op.aggs) : Alias(spec) = alias /\ spec.func = "avg"

\* The groups record.  A result is a quotient of integers <<n, d>>.
Groups(op, acc) ==
  [groups |->
     [g \in DOMAIN acc.sums |->
        LET s == acc.sums[g]
            c == acc.counts[g]
        IN  [a \in DOMAIN s \cup DOMAIN c |->
               IF a \notin DOMAIN s THEN <<c[a], 1>>
               ELSE <<s[a], IF Lookup(c, a, 0) # 0 /\ IsAvg(op, a) THEN c[a] ELSE 1>>]]]

OnAggregateFuncs(op, acc, r) == Sends(Gathered(op, acc, r), <<>>)

EndAggregateFuncs(op, acc) == <<Groups(op, acc)>>

\* flush of a TimeWindowAggregateOperator: nothing if nothing was gathered.
Flushed(op, acc) == IF acc.sums = None THEN <<>> ELSE <<Groups(op, acc)>>

OnTimeWindow(op, acc, r) == Sends(Gathered(op, acc, r), <<>>)

-----------------------------------------------------------------------------
On(op, acc, r) ==
  CASE op.kind = "map"       -> OnMap(op, acc, r)
    [] op.kind = "filter"    -> OnFilter(op, acc, r)
    [] op.kind = "join"      -> OnJoin(op, acc, r)
    [] op.kind = "aggregate" -> OnAggregate(op, acc, r)
    [] op.kind = "window"    -> OnWindow(op, acc, r)
    [] op.kind = "funcs"     -> OnAggregateFuncs(op, acc, r)
    [] op.kind = "time"      -> OnTimeWindow(op, acc, r)

\* Mutant: a time window that is open at the end is not flushed.
End_NoFlush(op, acc) ==
  CASE op.kind = "aggregate" -> EndAggregate(op, acc)
    [] op.kind = "window"    -> EndWindow(op, acc)
    [] op.kind = "funcs"     -> EndAggregateFuncs(op, acc)
    [] OTHER                 -> <<>>

End(op, acc) ==
  CASE op.kind = "aggregate" -> EndAggregate(op, acc)
    [] op.kind = "window"    -> EndWindow(op, acc)
    [] op.kind = "funcs"     -> EndAggregateFuncs(op, acc)
    [] op.kind = "time"      -> Flushed(op, acc)
    [] OTHER                 -> <<>>

\* The output channels with room for one record.
Buffered(op) == op.kind \in {"aggregate", "funcs"}

-----------------------------------------------------------------------------
IsAggregate(item) == item.func \in {"count", "sum", "avg"}

\* Planify: the select items that begin with an aggregate function, which
\* the projections keep too, as the names of fields.
Planify(q) ==
  [filter |-> q.where, proj |-> [i \in DOMAIN q.select |-> q.select[i].name],
   aggs |-> SelectSeq(q.select, IsAggregate), groupBy |-> q.groupBy, window |-> q.window]

\* An aggregate with an argument the executor understands.
IsSpec(item) == item.field # ""

\* BuildOperators: the operators of a plan.
BuildOperators(p) ==
  LET specs  == SelectSeq(p.aggs, IsSpec)
      filter == IF p.filter = None THEN <<>> ELSE <<[kind |-> "filter"] @@ p.filter[1]>>
      last   ==
        IF p.aggs = <<>> \/ p.groupBy = <<>> THEN [kind |-> "map", needs |-> "", proj |-> p.proj]
        ELSE IF Len(specs) = 1 /\ specs[1].func = "count" /\ specs[1].field = "*"
             THEN [kind |-> "aggregate", key |-> p.groupBy[1]]
             ELSE [kind |-> IF p.window > 0 THEN "time" ELSE "funcs", key |-> p.groupBy[1], aggs |-> specs]
  IN  Append(filter, last)
=============================================================================
