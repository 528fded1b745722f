------------------------- MODULE MCRecordingSessions -------------------------
(***************************************************************************)
(* Small instances of RecordingSessions for TLC.  Ids are drawn at random  *)
(* by the code and only compared for equality, so they are symmetric.      *)
(***************************************************************************)
EXTENDS RecordingSessions, TLC

IdSymmetry ==
    Permutations(SessionIds) \cup Permutations(RecIds) \cup Permutations(Calls)

\* The user downloads one stretch of time, which a segment may have too.
MCRanges == {<<0, 1>>}
=============================================================================
