---------------------------- MODULE MCIdempotent ----------------------------
(* Idempotent with two clients: both send as producer p, and one of them   *)
(* alone as producer q.                                                    *)
EXTENDS Idempotent

CONSTANTS c1, c2

MCClient   == {c1, c2}
MCTopic    == {<<"a">>}
MCProducer == {<<"p">>, <<"q">>}
MCUses     == [c \in MCClient |-> IF c = c1 THEN MCProducer ELSE {<<"p">>}]
MCSequence == 0 .. 2
=============================================================================
