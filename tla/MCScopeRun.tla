------------------------------ MODULE MCScopeRun -----------------------------
(* ScopeRun on every small body: x an ordinary local, v a VLA, L a label.  *)
EXTENDS ScopeRun
CONSTANTS x, v, L
=============================================================================
