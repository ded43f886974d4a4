---------------------------- MODULE MCManagement ----------------------------
EXTENDS Management

CONSTANTS h1, h2, u1, u2

MCClient     == {h1, h2}
MCUser       == {u1, u2}
MCSequenced  == {u1}
MCTopic      == {<<"t">>}
MCProducer   == {<<"p1">>, <<"p2">>}
MCUses       == [h \in MCClient |-> MCProducer]
MCSequence   == 1 .. 2
MCTopicOf    == [u \in MCUser |-> <<"t">>]
MCProducerOf == [u \in MCUser |-> IF u = u1 THEN <<"p1">> ELSE <<"p2">>]
MCMaxRecords == [u \in MCUser |-> IF u = u1 THEN 2 ELSE 1]
=============================================================================
