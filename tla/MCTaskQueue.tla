---------------------------- MODULE MCTaskQueue -----------------------------
(* TaskQueue on small instances.  Tasks and node addresses are             *)
(* interchangeable, and so are the workers; the producers are not when one *)
(* of them is the main thread, which takes the signals.                    *)
EXTENDS TaskQueue, TLC

Symmetry == Permutations(Workers) \cup Permutations(Nodes) \cup Permutations(Tasks)
=============================================================================
