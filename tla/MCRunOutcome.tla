----------------------------- MODULE MCRunOutcome -----------------------------
(* Small TaskRuns and results for TLC.                                     *)
EXTENDS RunOutcome

(* Results of a run: names that repeat and types that are not reported.    *)
MCResultLists ==
    BoundedSeq([name : {"digest", "url"}, type : {"string", "array"}, value : {1, 2}], 2)
=============================================================================
