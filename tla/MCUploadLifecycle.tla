------------------------- MODULE MCUploadLifecycle -------------------------
(* Small instances of UploadLifecycle for TLC. *)
EXTENDS UploadLifecycle, FiniteSetsExt, TLC

CONSTANTS u1, u2, n1

\* Sums of declared sizes, as the drive's counters add them.
TotalOf(size) == [S \in SUBSET DOMAIN size |-> MapThenSumSet(LAMBDA u : size[u], S)]

\* Tasks, workers, writers and contents are interchangeable: no definition
\* names one.
Interchangeable == Permutations(Tasks) \cup Permutations(Workers)
                   \cup Permutations(Writers) \cup Permutations(Bytes)

OneWhole    == [u \in Uploads |-> "whole"]
OneChunked  == [u \in Uploads |-> "chunked"]
AllParts    == [u \in Uploads |-> Parts]
SameNode    == [u \in Uploads |-> n1]

\* Unequal sizes, against a quota that two of them exceed.
Sizes1 == [u \in Uploads |-> 1]
Total1 == TotalOf(Sizes1)
SizesMixed == [u \in Uploads |-> IF u = u1 THEN 2 ELSE 1]
TotalMixed == TotalOf(SizesMixed)
============================================================================
