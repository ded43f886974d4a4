----------------------------- MODULE Streaming -----------------------------
(***************************************************************************)
(* The stream processor: the chains of Pipeline, and the functions of      *)
(* Windows on the same streams, each record at the time its field x gives. *)
(***************************************************************************)
EXTENDS Pipeline, Windows

CONSTANTS
  Duration,         \* sizes, gaps, lateness and bounds
  MaxPanes,         \* bound: slides of one sliding window
  Pattern           \* patterns, sequences of the texts of the group

TimedInput == [i \in DOMAIN input |-> [at |-> input[i].x.num, rec |-> input[i]]]

Events == [i \in DOMAIN input |-> TextAt(input[i], "group")]

\* A sliding window that is n slides long is made of n tumbling windows of
\* the sorted slice, one slide long each: SlidingWindows starts on the grid,
\* at the window of the first record, and leaves no window out after it.
SlidingTumbles ==
  \A s \in Sorted(TimedInput), slide \in Duration, n \in 1 .. MaxPanes :
    LET panes   == TumblingWindows(s, slide)
        Pane(w) == IF w \in DOMAIN panes THEN panes[w] ELSE <<>>
        Made(w) == FlattenSeq([k \in 1 .. n |-> Pane(w + (k - 1) * slide)])
        grid    == IF s = <<>> THEN {} ELSE {w \in Min(DOMAIN panes) .. Max(DOMAIN panes) : w % slide = 0}
    IN  SlidingWindows(s, n * slide, slide) = [w \in {v \in grid : Made(v) # <<>>} |-> Made(w)]

\* The sessions are the sorted slice cut exactly at the pauses longer than
\* the gap; a gap of the largest duration never cuts.
SessionsSplitAtPauses ==
  \A s \in Sorted(TimedInput), gap \in Duration :
    LET out == SessionWindows(s, gap)
    IN  /\ FlattenSeq(out) = s
        /\ \A k \in DOMAIN out : \A i \in 1 .. Len(out[k]) - 1 : out[k][i + 1].at - out[k][i].at <= gap \/ gap = MaxDuration
        /\ \A k \in 1 .. Len(out) - 1 : Head(out[k + 1]).at - Last(out[k]).at > gap

\* A tumbling window the watermark has passed is final, if no event is more
\* than the allowed lateness behind the newest before it.
WatermarkClosesWindows ==
  \A late \in Duration, size \in Duration :
    LET in      == TimedInput
        Seen(i) == SubSeq(in, 1, i)
    IN  (\A i \in 1 .. Len(in) - 1 : in[i + 1].at + late >= MaxEvent(Seen(i)))
        => \A i \in 1 .. Len(in) :
             \A b \in DOMAIN TumblingWindows(in, size) :
               b + size <= Watermark(Seen(i), late) =>
                 /\ b \in DOMAIN TumblingWindows(Seen(i), size)
                 /\ TumblingWindows(in, size)[b] = TumblingWindows(Seen(i), size)[b]

\* The last event of an occurrence of pattern in events.
Occurrences(pattern, events) ==
  {e \in Len(pattern) .. Len(events) : \A k \in DOMAIN pattern : events[e - Len(pattern) + k] = pattern[k]}

\* The pattern matcher only reports occurrences, and all of them when no
\* event is twice in the pattern (otherwise it may have restarted inside
\* one).
MatchesAreOccurrences ==
  \A p \in Pattern :
    /\ Matches(p, Events) \subseteq Occurrences(p, Events)
    /\ IsInjective(p) /\ p # <<>> => Matches(p, Events) = Occurrences(p, Events)

\* The join pairs exactly the records of a group whose times are at most the
\* bound apart, and, since a difference saturates and the smallest one has no
\* negation, also a left record that is further before the right one than a
\* duration can say (its time was never set), but not one further after it,
\* unless the bound itself is the largest duration.
JoinWithinBound ==
  \A m \in 0 .. Len(input), bound \in Duration :
    LET left  == SubSeq(TimedInput, 1, m)
        right == SubSeq(TimedInput, m + 1, Len(input))
    IN  StreamJoinWithin(left, right, "group", bound) =
          {<<i, j>> \in (DOMAIN left) \X (DOMAIN right) :
             /\ \A rec \in {left[i].rec, right[j].rec} : "group" \in DOMAIN rec
             /\ left[i].rec.group = right[j].rec.group
             /\ \/ left[i].at - right[j].at \in -bound .. bound
                \/ right[j].at - left[i].at > MaxDuration
                \/ bound = MaxDuration}
=============================================================================
