----------------------- MODULE MCCompletionQueuePair ------------------------
(* Values for TLC, and the symmetry of the threads (safety runs only).     *)
EXTENDS CompletionQueuePair, TLC

CONSTANTS t1, t2

Threads == {t1, t2}
AllWaits == {"any", "send", "receive"}
AllPolls == {"plain", "typed", "blocking"}
NoPolls == {}
ThreadSymmetry == Permutations(Threads)

=============================================================================
