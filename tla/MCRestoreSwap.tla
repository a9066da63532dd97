--------------------------- MODULE MCRestoreSwap ---------------------------
(* A directory and a mount of two entries each, a database, two runs.      *)
EXTENDS RestoreSwap
CONSTANTS d, m, a, b
MCPaths == {d, m}
MCMounts == {m}
MCEntries == {a, b}
=============================================================================
