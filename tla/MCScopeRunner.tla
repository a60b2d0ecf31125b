--------------------------- MODULE MCScopeRunner ----------------------------
(* Threads for checking ScopeRunner with TLC.                              *)
EXTENDS ScopeRunner

CONSTANTS t1, t2, t3

ThreeThreads == {t1, t2, t3}
==============================================================================
