------------------------------- MODULE Lists -------------------------------
(* Lists put together.                                                     *)
EXTENDS Integers, Sequences

\* The sequences of ss one after the other.
Flatten(ss) ==
  LET f[i \in 0 .. Len(ss)] == IF i = 0 THEN <<>> ELSE f[i - 1] \o ss[i]
  IN  f[Len(ss)]
=============================================================================
