-------------------------- MODULE MCConsumerGroup --------------------------
(* ConsumerGroup with one group of up to three members.                    *)
EXTENDS ConsumerGroup

CONSTANTS g1

MCGroup      == {g1}
MCMember     == 1 .. 3
MCPartitions == {0, 2, 5}
=============================================================================
