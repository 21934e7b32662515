--------------------------- MODULE MCTrackingRuns ---------------------------
(* TrackingRuns with small sets of requests. *)
EXTENDS TrackingRuns, TLC

Of(kind, key) == [kind |-> kind, key |-> key]

\* A param and a metric, a metric and a tag, one tag, nothing.
SomeBatches ==
  {<<>>} \cup
  UNION {{<<Of("params", k), Of("metrics", k)>>, <<Of("metrics", k), Of("tags", k)>>,
          <<Of("tags", k)>>} : k \in Keys}

Interchangeable == Permutations(Workers) \cup Permutations(Keys)
=============================================================================
