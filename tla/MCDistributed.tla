--------------------------- MODULE MCDistributed ---------------------------
EXTENDS Distributed

Rec(id, type) == [id |-> id, type |-> type]

MCStream ==
  { <<>>, <<Rec(1, "int"), Rec(2, "int"), Rec(3, "float64"), Rec(4, "int"), Rec(5, "int")>>,
    <<Rec(1, "int"), Rec(2, "chan"), Rec(3, "int"), Rec(4, "chan")>> }
=============================================================================
