--------------------------- MODULE MCTransactions ---------------------------
(* Transactions with two clients, two transactions and two topics.         *)
EXTENDS Transactions

CONSTANTS c1, c2, x1, x2, a, b

MCClient == {c1, c2}
MCTxId   == {x1, x2}
MCTopic  == {a, b}
=============================================================================
