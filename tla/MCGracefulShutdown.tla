------------------------- MODULE MCGracefulShutdown -------------------------
(* Instances of GracefulShutdown for TLC.                                  *)
EXTENDS GracefulShutdown, TLC

\* Handlers whose close() suspends are interchangeable, and so are those whose
\* close() does not, and so are connection ids.
HandlerSymmetry ==
  Permutations(Suspending) \cup Permutations(Handlers \ Suspending)
    \cup Permutations(ConnIds)
=============================================================================
