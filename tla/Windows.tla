------------------------------ MODULE Windows ------------------------------
(***************************************************************************)
(* The windows, the watermark, the pattern matcher and the join over       *)
(* slices of timed records (processor/advanced_streaming.go), as functions *)
(* of the slice.  A timed record is [at, rec] with at a natural number.    *)
(* Times are unbounded here, and durations are those of an int64: the      *)
(* difference of two times saturates.                                      *)
(***************************************************************************)
EXTENDS Integers, Sequences, FiniteSets, SequencesExt

CONSTANT MaxDuration   \* the largest time.Duration, about 292 years

ASSUME DurationAssumption == MaxDuration \in Nat

MinDuration == -MaxDuration - 1

\* time.Time.Sub.
Sub(t, u) == Max({MinDuration, Min({MaxDuration, t - u})})

\* The negation of an int64, which wraps at the smallest.
Negate(d) == IF d = MinDuration THEN MinDuration ELSE -d

Truncate(t, d) == t - (t % d)

Recs(in) == [i \in DOMAIN in |-> in[i].rec]

\* TumblingWindows: the records of each bucket in the order of the slice.
TumblingWindows(in, size) ==
  [b \in {Truncate(in[i].at, size) : i \in DOMAIN in} |->
     Recs(SelectSeq(in, LAMBDA r : Truncate(r.at, size) = b))]

\* The orders sort.Slice may give: records of the same time in any order.
Sorted(in) ==
  {[i \in DOMAIN in |-> in[p[i]]] :
     p \in {q \in [DOMAIN in -> DOMAIN in] :
              /\ \A i, j \in DOMAIN in : i # j => q[i] # q[j]
              /\ \A i \in 1 .. Len(in) - 1 : in[q[i]].at <= in[q[i + 1]].at}}

\* Mutant: the windows start at the first record.
SlidingWindows_FromFirst(in, size, slide) ==
  IF in = <<>> THEN <<>>
  ELSE LET start     == in[1].at
           starts    == {w \in start .. in[Len(in)].at : (w - start) % slide = 0}
           Inside(w) == SelectSeq(in, LAMBDA r : w <= r.at /\ r.at < w + size)
       IN  [w \in {v \in starts : Inside(v) # <<>>} |-> Recs(Inside(w))]

\* SlidingWindows of a sorted slice.  A window without records has no entry.
SlidingWindows(in, size, slide) ==
  IF in = <<>> THEN <<>>
  ELSE LET start     == Truncate(in[1].at, slide)
           starts    == {w \in start .. in[Len(in)].at : (w - start) % slide = 0}
           Inside(w) == SelectSeq(in, LAMBDA r : w <= r.at /\ r.at < w + size)
       IN  [w \in {v \in starts : Inside(v) # <<>>} |-> Recs(Inside(w))]

\* Mutant: a pause of exactly the gap ends a session.
SessionStep_AtGap(acc, r, gap) ==
  IF Sub(r.at, acc.last) >= gap
  THEN [out |-> Append(acc.out, acc.current), current |-> <<r>>, last |-> r.at]
  ELSE [out |-> acc.out, current |-> Append(acc.current, r), last |-> r.at]

SessionStep(acc, r, gap) ==
  IF Sub(r.at, acc.last) > gap
  THEN [out |-> Append(acc.out, acc.current), current |-> <<r>>, last |-> r.at]
  ELSE [out |-> acc.out, current |-> Append(acc.current, r), last |-> r.at]

\* SessionWindows of a sorted slice, with the times kept.
SessionWindows(in, gap) ==
  IF in = <<>> THEN <<>>
  ELSE LET end == FoldLeft(LAMBDA acc, r : SessionStep(acc, r, gap),
                           [out |-> <<>>, current |-> <<in[1]>>, last |-> in[1].at], Tail(in))
       IN  Append(end.out, end.current)

\* WatermarkGenerator.Observe: the new maxEvent (a new generator's is before
\* every event), and the watermark it answers.
Observe(maxEvent, ts) == IF ts > maxEvent THEN ts ELSE maxEvent

MaxEvent(in) == FoldLeft(Observe, 0, [i \in DOMAIN in |-> in[i].at])

\* Mutant: lateness is not allowed for.
Watermark_NoLateness(in, lateness) == MaxEvent(in)

Watermark(in, lateness) == MaxEvent(in) - lateness

\* Mutant: after a mismatch the event is not looked at again.
CEPNext_Skips(pattern, idx, event) ==
  CASE pattern = <<>> -> [idx |-> idx, match |-> FALSE]
    [] pattern # <<>> /\ pattern[idx + 1] = event ->
         [idx |-> (idx + 1) % Len(pattern), match |-> idx + 1 = Len(pattern)]
    [] OTHER -> [idx |-> 0, match |-> FALSE]

\* CEPStateMachine.Next: the new idx, and whether the pattern is complete.
CEPNext(pattern, idx, event) ==
  CASE pattern = <<>> -> [idx |-> idx, match |-> FALSE]
    [] pattern # <<>> /\ pattern[idx + 1] = event ->
         [idx |-> (idx + 1) % Len(pattern), match |-> idx + 1 = Len(pattern)]
    [] OTHER -> [idx |-> IF pattern[1] = event THEN 1 ELSE 0, match |-> FALSE]

\* The positions at which Next answers true.
Matches(pattern, events) ==
  FoldLeft(LAMBDA acc, e :
             LET did == CEPNext(pattern, acc.idx, e)
             IN  [idx |-> did.idx, n |-> acc.n + 1, at |-> acc.at \cup IF did.match THEN {acc.n + 1} ELSE {}],
           [idx |-> 0, n |-> 0, at |-> {}], events).at

\* Mutant: the sign of the difference is kept.
Near_Signed(l, r, bound) == Sub(l.at, r.at) <= bound

Near(l, r, bound) == LET delta == Sub(l.at, r.at) IN (IF delta < 0 THEN Negate(delta) ELSE delta) <= bound

\* StreamJoinWithin: the pairs joined, each as its two positions.
StreamJoinWithin(left, right, key, bound) ==
  {<<i, j>> \in (DOMAIN left) \X (DOMAIN right) :
     /\ key \in DOMAIN left[i].rec /\ key \in DOMAIN right[j].rec
     /\ left[i].rec[key] = right[j].rec[key]
     /\ Near(left[i], right[j], bound)}
=============================================================================
