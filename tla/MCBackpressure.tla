--------------------------- MODULE MCBackpressure ---------------------------
(* The controller as TLC explores it: enqueue() is called without end, so  *)
(* the counters grow without end, and states are compared without them.    *)
EXTENDS BackpressureController, Integers

\* What Conservation says is zero.
Imbalance ==
  stats.queued + (IF strategy = "drop_oldest" THEN stats.dropped ELSE 0)
  - (depth + Cardinality(Sending) + stats.sent + stats.errors + evicted + lost)

\* What the guards and the properties read.  No guard reads a counter, and of
\* the counters the properties read the high water mark, the peak and the
\* balance (and that all are numbers, which adding one keeps): states with the
\* same view have the same successors up to the view, and satisfy the same
\* formulas.  Every step that fairness or a property counts changes the view.
QueueView ==
  <<config, depth, putters, woken, batch, entry, holders, stats.hwm, peak, Imbalance>>
=============================================================================
