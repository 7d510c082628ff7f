--------------------------- MODULE MCOrganizations ---------------------------
(* Three names, two new documents and one from before the registry.        *)
EXTENDS Organizations, TLC

CONSTANTS t1, t2, d0, d1, d2

Symmetric == Permutations(Thread) \cup Permutations(Doc \ Legacy)

=============================================================================
