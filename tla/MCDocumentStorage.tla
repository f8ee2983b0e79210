------------------------- MODULE MCDocumentStorage -------------------------
(* Instances of DocumentStorage for TLC. *)
EXTENDS DocumentStorage, TLC

\* Three file names, two of which have the same base (a path in front of it).
SharedBase == [n \in Names |-> IF n = "dir/a" THEN "a" ELSE n]

AllFaults == FaultNames

Interchangeable == Permutations(Clients) \cup Permutations(Docs) \cup Permutations(Uploads)
=============================================================================
