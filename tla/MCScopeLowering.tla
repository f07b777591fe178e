--------------------------- MODULE MCScopeLowering ---------------------------
(* ScopeLowering on every small body: x an ordinary local, v a VLA, L a    *)
(* label of the source, M one a loop made.                                 *)
EXTENDS ScopeLowering
CONSTANTS x, v, L, M
=============================================================================
