---------------------------- MODULE MCStreamLane ----------------------------
(* Small instances of StreamLane.  Threads, keys and contexts are only ever  *)
(* compared for equality, so they may be permuted.                           *)
EXTENDS StreamLane, TLC

Interchangeable ==
  Permutations(Threads) \cup Permutations(Keys) \cup Permutations(Contexts)
=============================================================================
