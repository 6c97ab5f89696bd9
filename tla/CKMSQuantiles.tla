--------------------------- MODULE CKMSQuantiles ---------------------------
(***************************************************************************)
(* detail::CKMSQuantiles: the sketch behind one bucket of a Summary.       *)
(* Observations wait in a buffer; when it is full, and before each get,    *)
(* they are put into an ordered list of samples, which is then compressed. *)
(* A sample stands for itself and for g - 1 observations before it that    *)
(* were merged into it.                                                    *)
(*                                                                         *)
(* A quantile n/Scale with an error m/Scale keeps every term rational:     *)
(* u = 2m / (Scale - n) and v = 2m / n.  The code compares integers with   *)
(* these terms, or takes their floor, so that their floor is all the model *)
(* needs; the rounding of doubles is left out.                             *)
(***************************************************************************)
EXTENDS Integers, Sequences, FiniteSets, SequencesExt

CONSTANTS
  Values,        \* the observations
  Scale,         \* the denominator of quantiles and errors
  Targets,       \* sets of records [quantile, error], the numerators
  BufferSize,    \* buffer_.size()
  NaN,           \* quiet_NaN
  NoAnswer,      \* no get since the last change
  MaxInserts     \* bound: the observations between two resets

ASSUME CKMSAssumption ==
  /\ Values \subseteq Int
  /\ Scale \in Nat \ {0} /\ BufferSize \in Nat \ {0}
  /\ \A x \in UNION Targets : x.quantile \in 0 .. Scale /\ x.error \in 0 .. Scale
  /\ NaN \notin Values

VARIABLES
  quantiles,     \* quantiles_
  buffer,        \* buffer_, up to buffer_count_
  sample,        \* sample_: value, g and delta
  count,         \* count_
  observed,      \* history: the values inserted since the reset, least first
  got            \* history: the last get, until something changes

vars == <<quantiles, buffer, sample, count, observed, got>>

Item(value, g, delta) == [value |-> value, g |-> g, delta |-> delta]

-----------------------------------------------------------------------------
\* allowableError, rounded down.  A term that is infinite or not a number
\* (a quantile of 0 or 1) is never the least.
AllowableError(rank, size) ==
  LET before == {x \in quantiles : Scale * rank <= x.quantile * size}
      byU == {x \in before : x.quantile < Scale}
      byV == {x \in quantiles \ before : x.quantile > 0}
  IN Min({size + 1}
         \cup {(2 * x.error * (size - rank)) \div (Scale - x.quantile) : x \in byU}
         \cup {(2 * x.error * rank) \div x.quantile : x \in byV})

\* The sum of the first n weights.
Total(weights, n) ==
  LET upTo[i \in 0 .. n] == IF i = 0 THEN 0 ELSE upTo[i - 1] + weights[i]
  IN upTo[n]

\* How many of some values are v or less.
UpTo(values, v) ==
  Total([i \in DOMAIN values |-> IF values[i] <= v THEN 1 ELSE 0], Len(values))

\* std::sort: each value in its place, after those that are not greater.
Placed(values, v) == InsertAt(values, UpTo(values, v) + 1, v)

Sorted(values) ==
  LET upTo[n \in 0 .. Len(values)] ==
        IF n = 0 THEN <<>> ELSE Placed(upTo[n - 1], values[n])
  IN upTo[Len(values)]

\* lower_bound: the samples before the place of a value.
LowerBound(s, value) == Cardinality({i \in DOMAIN s : s[i].value < value})

\* One step of insertBatch: at its lower_bound, with a delta when it is inside.
Insertion(s, value) ==
  LET idx == LowerBound(s, value)
      inside == idx > 0 /\ idx < Len(s)
      delta == IF inside THEN AllowableError(idx + 1, Len(s)) + 1 ELSE 0
  IN InsertAt(s, idx + 1, Item(value, 1, delta))

InsertAll(s, values) ==
  LET upTo[n \in 0 .. Len(values)] ==
        IF n = 0 THEN s ELSE Insertion(upTo[n - 1], values[n])
  IN upTo[Len(values)]

InsertBatch(s, values) == InsertAll(s, Sorted(values))

\* The sample that stands for two neighbours.
KeepsEarlier(last, current) == [last EXCEPT !.g = last.g + current.g]
Merged(last, current) == [current EXCEPT !.g = last.g + current.g]

\* compress: a sample is merged with the one before it while their weight is
\* allowed, at the position and the size the list has by then.
CompressOne(acc, current) ==
  IF Last(acc.out).g + current.g + current.delta <= AllowableError(Len(acc.out), acc.size)
  THEN [out |-> Append(Front(acc.out), Merged(Last(acc.out), current)),
        size |-> acc.size - 1]
  ELSE [acc EXCEPT !.out = Append(@, current)]

CompressUpTo(s, n) ==
  LET upTo[i \in 1 .. n] ==
        IF i = 1 THEN [out |-> <<s[1]>>, size |-> Len(s)]
        ELSE CompressOne(upTo[i - 1], s[i])
  IN upTo[n]

Compressed(s) == IF Len(s) < 2 THEN s ELSE CompressUpTo(s, Len(s)).out

\* The sum of g over the first i samples.
RankMin(s, i) == Total([k \in DOMAIN s |-> s[k].g], i)

\* rankMin + cur->g + cur->delta > bound, with bound - desired half the error.
Reaches(ranks, error) == 2 * ranks >= error
Exceeds(ranks, error) == 2 * ranks > error

\* get, after the flush: the sample before the first one that may be beyond
\* the rank that is asked for.
Found(s, n, quantile) ==
  LET desired == (quantile * n) \div Scale
      beyond == {i \in 2 .. Len(s) :
                   Exceeds(RankMin(s, i) + s[i].delta - desired, AllowableError(desired, Len(s)))}
  IN IF s = <<>> THEN NaN
     ELSE IF beyond = {} THEN Last(s).value
     ELSE s[Min(beyond) - 1].value

-----------------------------------------------------------------------------
Init ==
  /\ quantiles \in Targets
  /\ buffer = <<>> /\ sample = <<>> /\ count = 0
  /\ observed = <<>>
  /\ got = NoAnswer

Inserted == Len(observed)

\* insertBatch and compress.
Flush(b) ==
  /\ sample' = Compressed(InsertBatch(sample, b))
  /\ count' = count + Len(b)
  /\ buffer' = <<>>

Insert(value) ==
  /\ Inserted < MaxInserts
  /\ observed' = Placed(observed, value)
  /\ got' = NoAnswer
  /\ LET b == Append(buffer, value)
     IN IF Len(b) = BufferSize THEN Flush(b)
        ELSE buffer' = b /\ UNCHANGED <<sample, count>>

Get(quantile) ==
  /\ Flush(buffer)
  /\ got' = [quantile |-> quantile, value |-> Found(sample', count', quantile)]
  /\ UNCHANGED observed

Uncleared(s) == s
Cleared(s) == <<>>

Reset ==
  /\ count' = 0 /\ sample' = Cleared(sample) /\ buffer' = <<>>
  /\ observed' = <<>>
  /\ got' = NoAnswer

Next ==
  /\ \/ \E v \in Values : Insert(v)
     \/ \E x \in quantiles : Get(x.quantile)
     \/ Reset
  /\ UNCHANGED quantiles

Spec == Init /\ [][Next]_vars

-----------------------------------------------------------------------------
\* The observations that are in the samples, counted up to a value.
Flushed(v) == UpTo(observed, v) - UpTo(buffer, v)

\* insert, insertBatch, compress: between calls the buffer has room; the samples stay
\* in order and stand for every observation that left it, each for observations at
\* or below it: no rank is overestimated, and the last sample is the greatest.
SamplesStandForAll ==
  /\ Len(buffer) < BufferSize
  /\ count + Len(buffer) = Inserted /\ RankMin(sample, Len(sample)) = count
  /\ \A i \in DOMAIN sample :
       /\ i > 1 => sample[i - 1].value <= sample[i].value
       /\ RankMin(sample, i) <= Flushed(sample[i].value)
  /\ sample # <<>> => Flushed(Last(sample).value) = count
                      /\ Flushed(Last(sample).value - 1) < count

\* Every quantile lies below 1 with its error.
ErrorsInside == \A x \in quantiles : x.quantile < Scale /\ x.quantile + x.error <= Scale

\* get gives NaN for an empty window and an observation otherwise, and of two
\* quantiles asked of the same samples the larger has no smaller value, unless an
\* error reaches beyond the greatest rank: the bound of get then falls with the rank.
GetSound ==
  got # NoAnswer =>
    /\ (got.value = NaN) <=> (Inserted = 0)
    /\ got.value # NaN => got.value \in ToSet(observed)
    /\ ErrorsInside => \A x \in quantiles :
         got.value # NaN /\ x.quantile >= got.quantile =>
           Found(sample, count, x.quantile) >= got.value

\* Summary documents a quantile as returned "with 10 percent error": its rank
\* is then within error * count, and one for rounding, of quantile * count.
WithinError ==
  (got # NoAnswer /\ got.value # NaN) =>
    \A x \in quantiles : x.quantile = got.quantile =>
      LET slack == x.error * count + Scale
          below == Flushed(got.value - 1) + 1
      IN /\ Scale * below - x.quantile * count <= slack
         /\ x.quantile * count - Scale * Flushed(got.value) <= slack

\* No error is tolerated; a quantile of 0 or 1 limits none.
Errorless == \A x \in quantiles : x.error = 0 /\ x.quantile \in 1 .. Scale - 1

\* allowableError, compress, get: where no error is tolerated nothing is merged,
\* and the answer is less than two ranks away, however observations and scrapes
\* are mixed.
ExactWithoutError ==
  (got # NoAnswer /\ got.value # NaN /\ Errorless) =>
    /\ Len(sample) = count
    /\ Scale * Flushed(got.value - 1) < got.quantile * count + Scale
    /\ got.quantile * count < Scale * (Flushed(got.value) + 2)
=============================================================================
