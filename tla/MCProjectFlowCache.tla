------------------------- MODULE MCProjectFlowCache -------------------------
(* Small instances of ProjectFlowCache for TLC. *)
EXTENDS ProjectFlowCache, TLC

\* Calls, paths and projects are told apart by equality only.
Symmetry == Permutations(Requests) \cup Permutations(Paths)
              \cup Permutations(Projects)
=============================================================================
