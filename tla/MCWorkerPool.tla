---------------------------- MODULE MCWorkerPool ----------------------------
(* Instances of WorkerPool for TLC. *)
EXTENDS WorkerPool

\* Three groups, the first of two items.
SizeThree == <<2, 1, 1>>
\* Two groups of two items and of one.
SizeTwo == <<2, 1>>
\* Two groups of one item.
SizeOnes == <<1, 1>>
=============================================================================
