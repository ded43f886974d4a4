--------------------------- MODULE MCOffsetStore ---------------------------
(* OffsetStore with two files and three offsets.                           *)
EXTENDS OffsetStore

CONSTANTS s1, s2, o1, o2, o3

MCSlot   == {s1, s2}
MCOffset == {o1, o2, o3}
=============================================================================
