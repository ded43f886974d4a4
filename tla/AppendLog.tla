----------------------------- MODULE AppendLog -----------------------------
(***************************************************************************)
(* What a topic's log promises to its clients.  Values are only ever       *)
(* appended.  A value that was acknowledged, or that a start of the broker *)
(* found, keeps its offset, with one exception: while an append is         *)
(* rewriting the index, and after a rewrite that failed and left the index *)
(* short, the log is exposed, and a start may then find any beginning of   *)
(* it.  A start never finds anything but a beginning of the log.  An       *)
(* offset is a position of the sequence, counted from 0.                   *)
(***************************************************************************)
EXTENDS Naturals, Sequences

CONSTANT Value      \* what producers send

VARIABLES
  log,              \* the values readable now or after the next start
  safe,             \* length of the beginning a restart keeps
  exposed           \* a restart may lose any end of the log

vars == <<log, safe, exposed>>

Init ==
  /\ log = <<>>
  /\ safe = 0
  /\ exposed = FALSE

\* The value can be read, and the index is being rewritten.
AppendValue(v) ==
  /\ log' = Append(log, v)
  /\ exposed' = TRUE
  /\ UNCHANGED safe

\* The rewrite ends with an index that has all it had.
Settle ==
  /\ exposed' = FALSE
  /\ UNCHANGED <<log, safe>>

Acknowledge ==
  /\ ~exposed
  /\ safe' = Len(log)
  /\ UNCHANGED <<log, exposed>>

Restart ==
  /\ \E n \in 0 .. Len(log) :
       /\ ~exposed => n >= safe
       /\ log' = SubSeq(log, 1, n)
       /\ safe' = n
  /\ exposed' = FALSE

Next ==
  \/ \E v \in Value : AppendValue(v)
  \/ Settle
  \/ Acknowledge
  \/ Restart

Spec == Init /\ [][Next]_vars
=============================================================================
