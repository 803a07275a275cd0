----------------------- MODULE MCCacheEntryValidation -----------------------
(* Model-checking instance of CacheEntryValidation.                        *)
EXTENDS CacheEntryValidation, TLC

Symmetry == Permutations(Callers)

\* An answer is authentic and within the caller's own limit, and what was there is not missed.
AnswersAreSound ==
    TypeOK /\ EntryIsAuthentic /\ PublishedIsFound /\ LimitHolds /\ MemoIsLive

=============================================================================
