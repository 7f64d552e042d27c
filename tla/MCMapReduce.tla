---------------------------- MODULE MCMapReduce ----------------------------
(* MapReduce for TLC.  Of two buckets, the second input file has no key    *)
(* for bucket 1.                                                           *)
EXTENDS MapReduce, TLC

CONSTANTS w1, w2, f1, f2

TwoWorkers == {w1, w2}
TwoFiles == {f1, f2}
TwoBuckets == {0, 1}
OneBucket == {0}
OneBucketEmit == (f1 :> {0}) @@ (f2 :> {0})
TwoFilesEmit == (f1 :> {0, 1}) @@ (f2 :> {0})
=============================================================================
