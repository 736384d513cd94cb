--------------------------- MODULE MCClientTasks ---------------------------
(* TLC instance of the official-client task queue. *)
EXTENDS ClientTasks, TLC

\* Tasks and connector processes are interchangeable (used by the runs that
\* check no liveness property).
Symmetry == Permutations(Tasks) \cup Permutations(Devices)
=============================================================================
