---------------------------- MODULE MCStreaming ----------------------------
EXTENDS Streaming

V(type, num) == [type |-> type, num |-> num]

\* A group as a number and as a string, a number JSON would give, three
\* records of a group that are near and far, one without the group, and one
\* without a number.
MCRecord ==
  { [group |-> V("int", 1), x |-> V("int", 1)],
    [group |-> V("string", 1), x |-> V("float64", 2)],
    [group |-> V("word", 1), x |-> V("int", 3)],
    [group |-> V("word", 1), x |-> V("int", 9)],
    [x |-> V("int", 2)],
    [group |-> V("word", 1), x |-> V("string", 1)] }

MCInput == BoundedSeq(MCRecord, 3)

Item(name, func, field, alias) == [name |-> name, func |-> func, field |-> field, alias |-> alias]

Query(select, where, groupBy, window) ==
  [select |-> select, where |-> where, groupBy |-> groupBy, window |-> window]

Where(cmp, const) == <<[field |-> "x", cmp |-> cmp, const |-> const]>>

Group == Item("group", "", "", "")
Sum   == Item("SUM(x)", "sum", "x", "")
Avg   == Item("AVG(x) as a", "avg", "x", "a")
Count == Item("COUNT(*)", "count", "*", "")

MCQuery ==
  { Query(<<Group>>, Where(">", V("int", 1)), <<>>, 0),
    Query(<<Item("*", "", "", "")>>, Where("=", V("int", 1)), <<>>, 0),
    Query(<<Group, Count>>, Where("<", V("int", 4)), <<"group">>, 0),
    Query(<<Group, Count>>, Where("<", V("word", 1)), <<>>, 0),
    Query(<<Group, Avg, Sum, Count>>, <<>>, <<"group">>, 0),
    Query(<<Avg, Item("SUM(x+1)", "sum", "", "")>>, Where("", V("int", 1)), <<"group">>, 5) }

MCChain ==
  {BuildOperators(Planify(q)) : q \in MCQuery} \cup
  { <<[kind |-> "map", needs |-> "group", proj |-> <<"*">>], [kind |-> "window", key |-> "group", size |-> 2]>>,
    <<[kind |-> "join", key |-> "group",
       right |-> ("1" :> [x |-> V("int", 2), y |-> V("int", 1)]) @@ ("" :> [y |-> V("int", 2)])],
      [kind |-> "window", key |-> "group", size |-> 0]>> }
MCDuration == {1, 2, 3, 5}

MCPattern == {<<>>, <<"1">>, <<"1", "w1">>, <<"1", "1", "w1">>}
=============================================================================
