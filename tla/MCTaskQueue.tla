---------------------------- MODULE MCTaskQueue -----------------------------
(* Small instances of TaskQueue; the workers are alike, and so are the tasks. *)
EXTENDS TaskQueue, TLC

Symmetry == Permutations(Tasks) \cup Permutations(Workers)
=============================================================================
