-------------------------------- MODULE Aggr --------------------------------
(***************************************************************************)
(* The aggregate functions of tremor-script (std_lib/stats.rs and          *)
(* std_lib/win.rs) in two tilt frames (tremor-pipeline op/trickle/         *)
(* window.rs): the first one accumulates values, and when it closes it     *)
(* emits, is merged into the second one and starts again.                  *)
(*                                                                         *)
(* Values are integers.  What the histogram of dds knows is the sequence   *)
(* of the values recorded in it; its percentiles are left out.  hdr, which *)
(* can also fail to record a value, is not modelled.                       *)
(***************************************************************************)
EXTENDS Integers, Sequences, FiniteSets, SequencesExt, FiniteSetsExt

CONSTANTS
    Samples,                \* the values that are aggregated
    MaxSamples,             \* bound: values
    HIST_MAX_CACHE_SIZE     \* values a histogram holds back

VARIABLES
    frame, next,        \* the aggregates of the two windows
    inFrame, inNext,    \* history: the values each stands for
    dropped             \* history: a histogram's cache filled up

aggrVars == <<frame, next, inFrame, inNext, dropped>>

Unset == <<>>     \* None; Some(v) is <<v>>

\* The state of every function after init().
Fresh ==
    [count |-> 0, sum |-> 0, mean |-> [n |-> 0, sum |-> 0], min |-> Unset, max |-> Unset,
     var |-> [n |-> 0, k |-> 0, ex |-> 0, ex2 |-> 0], first |-> Unset, last |-> Unset,
     flattened |-> <<>>, nested |-> <<>>, histo |-> Unset, cache |-> <<>>]

----------------------------------------------------------------------------
(* accumulate                                                              *)

\* The order of Option: None is less than every Some.
Less(o, p) == p # Unset /\ (o = Unset \/ o[1] < p[1])

\* Var::accumulate: sums of the distances to the first value
VarAccumulate(var, v) ==
    LET k == IF var.n = 0 THEN v ELSE var.k
    IN  [n |-> var.n + 1, k |-> k, ex |-> var.ex + v - k, ex2 |-> var.ex2 + (v - k) * (v - k)]

\* Dds::accumulate: negative values are ignored, and when the
\* cache is full it goes into a histogram that nobody keeps.
HistoAccumulate(a, v) ==
    IF v < 0 THEN a
    ELSE IF a.histo # Unset THEN [a EXCEPT !.histo = <<Append(@[1], v)>>]
    ELSE IF Len(a.cache) + 1 = HIST_MAX_CACHE_SIZE THEN [a EXCEPT !.cache = <<>>]
    ELSE [a EXCEPT !.cache = Append(@, v)]

\* Faulty variant: the shift of the variance is never set.
AccumulateUnshifted(a, v) ==
    [HistoAccumulate(a, v) EXCEPT
        !.count = @ + 1, !.sum = @ + v, !.mean = [n |-> @.n + 1, sum |-> @.sum + v],
        !.min = IF @ = Unset \/ Less(<<v>>, @) THEN <<v>> ELSE @,
        !.max = IF @ = Unset \/ Less(@, <<v>>) THEN <<v>> ELSE @,
        !.var = [n |-> @.n + 1, k |-> v, ex |-> @.ex + v - @.k, ex2 |-> @.ex2 + (v - @.k) * (v - @.k)],
        !.first = IF @ = Unset THEN <<v>> ELSE @, !.last = <<v>>,
        !.flattened = Append(@, v), !.nested = Append(@, v)]

AccumulateAll(a, v) ==
    [HistoAccumulate(a, v) EXCEPT
        !.count = @ + 1,
        !.sum = @ + v,
        !.mean = [n |-> @.n + 1, sum |-> @.sum + v],
        !.min = IF @ = Unset \/ Less(<<v>>, @) THEN <<v>> ELSE @,
        !.max = IF @ = Unset \/ Less(@, <<v>>) THEN <<v>> ELSE @,
        !.var = VarAccumulate(@, v),
        !.first = IF @ = Unset THEN <<v>> ELSE @,
        !.last = <<v>>,
        !.flattened = Append(@, v),
        !.nested = Append(@, v)]

----------------------------------------------------------------------------
(* emit and merge                                                          *)

\* emit changes nothing but the histograms: what was held back is recorded.
Emit(a) == IF a.histo = Unset THEN [a EXCEPT !.histo = <<a.cache>>, !.cache = <<>>] ELSE a

\* Faulty variant: the values held back are forgotten.
HistoMergeForgets(a, b) == [a EXCEPT !.histo = b.histo, !.cache = <<>>]

\* Dds::merge
HistoMerge(a, b) ==
    CASE a.histo # Unset ->
            [a EXCEPT !.histo = <<@[1] \o IF b.histo # Unset THEN b.histo[1] ELSE b.cache>>]
      [] a.histo = Unset /\ b.histo # Unset ->
            [a EXCEPT !.histo = <<b.histo[1] \o a.cache>>, !.cache = <<>>]
      [] a.histo = Unset /\ b.histo = Unset ->
            IF Len(a.cache) + Len(b.cache) > HIST_MAX_CACHE_SIZE
            THEN [a EXCEPT !.histo = <<a.cache \o b.cache>>, !.cache = <<>>]
            ELSE [a EXCEPT !.cache = @ \o b.cache]

\* Faulty variant: the first value is the latest window's.
MergeFirst(a, b) ==
    [HistoMerge(a, b) EXCEPT
        !.count = @ + b.count, !.sum = @ + b.sum,
        !.mean = [n |-> @.n + b.mean.n, sum |-> @.sum + b.mean.sum],
        !.min = IF Less(b.min, @) THEN b.min ELSE @, !.max = IF Less(@, b.max) THEN b.max ELSE @,
        !.first = b.first, !.last = IF b.last # Unset THEN b.last ELSE @,
        !.flattened = @ \o b.flattened, !.nested = Append(@, b.nested)]

\* The merge of every function; b is the later one.
MergeAll(a, b) ==
    [HistoMerge(a, b) EXCEPT
        !.count = @ + b.count,
        !.sum = @ + b.sum,
        !.mean = [n |-> @.n + b.mean.n, sum |-> @.sum + b.mean.sum],
        !.min = IF Less(b.min, @) THEN b.min ELSE @,
        !.max = IF Less(@, b.max) THEN b.max ELSE @,
        !.var = [n |-> @.n + b.var.n, k |-> @.k + b.var.k,
                 ex |-> @.ex + b.var.ex, ex2 |-> @.ex2 + b.var.ex2],
        !.first = IF @ = Unset THEN b.first ELSE @,
        !.last = IF b.last # Unset THEN b.last ELSE @,
        !.flattened = @ \o b.flattened,
        !.nested = Append(@, b.nested)]

----------------------------------------------------------------------------
AggrInit ==
    /\ frame = Fresh /\ next = Fresh
    /\ inFrame = <<>> /\ inNext = <<>> /\ dropped = FALSE

\* GroupWindow::accumulate
Accumulate(v) ==
    /\ Len(inFrame) + Len(inNext) < MaxSamples
    /\ frame' = AccumulateAll(frame, v) /\ inFrame' = Append(inFrame, v)
    /\ dropped' = (dropped \/ (frame.cache # <<>> /\ frame'.cache = <<>>))
    /\ UNCHANGED <<next, inNext>>

\* The first window closes: it is merged into the second one and reset.  It has
\* emitted, unless the function is in a branch that the select did not take.
CloseFrame ==
    /\ inFrame # <<>>
    /\ \E prev \in {Emit(frame), frame} : next' = MergeAll(next, prev)
    /\ inNext' = inNext \o inFrame
    /\ frame' = Fresh /\ inFrame' = <<>>
    /\ UNCHANGED dropped

\* The second window emits and is reset.
CloseNext ==
    /\ inNext # <<>> /\ next' = Fresh /\ inNext' = <<>>
    /\ UNCHANGED <<frame, inFrame, dropped>>

AggrNext == (\E v \in Samples : Accumulate(v)) \/ CloseFrame \/ CloseNext

----------------------------------------------------------------------------
(* Properties                                                              *)

SumSeq(s) == FoldLeft(LAMBDA sum, v : sum + v, 0, s)
Squares(s) == FoldLeft(LAMBDA sum, v : sum + v * v, 0, s)

\* What the functions hold after the values s.
CountsRight(a, s) ==
    /\ a.count = Len(s) /\ a.sum = SumSeq(s)
    /\ a.mean = [n |-> Len(s), sum |-> SumSeq(s)]
ValuesRight(a, s) ==
    /\ a.flattened = s
    /\ s # <<>> => /\ a.first = <<Head(s)>> /\ a.last = <<Last(s)>>
                   /\ a.max = <<Max(ToSet(s))>>

\* The sample variance, times n * (n - 1): what Var::emit computes, and what it is.
VarianceRight(a, s) ==
    /\ a.var.n = Len(s)
    /\ a.var.n * a.var.ex2 - a.var.ex * a.var.ex = Len(s) * Squares(s) - SumSeq(s) * SumSeq(s)

HistoRight(a, s) ==
    LET known == (IF a.histo = Unset THEN <<>> ELSE a.histo[1]) \o a.cache
    IN  \A v \in Samples : v >= 0 => Cardinality({i \in DOMAIN known : known[i] = v})
                                     = Cardinality({i \in DOMAIN s : s[i] = v})

\* Aggregates say of a window what holds of its values, however the values were
\* spread over windows that were merged into it (window.rs:169-183): count, sum,
\* mean, max, first, last and collect in both frames, min and var in the first
\* one, and histograms as long as no cache filled up.
AggregatesExact ==
    /\ CountsRight(frame, inFrame) /\ CountsRight(next, inNext)
    /\ ValuesRight(frame, inFrame) /\ ValuesRight(next, inNext)
    /\ FlattenSeq(next.nested) = inNext
    /\ VarianceRight(frame, inFrame)
    /\ inFrame # <<>> => frame.min = <<Min(ToSet(inFrame))>>
    /\ ~dropped => HistoRight(frame, inFrame) /\ HistoRight(next, inNext)
=============================================================================
