--------------------------- MODULE MCSharedMutex ---------------------------
(* SharedMutex on a small instance, given in the .cfg file.                *)
EXTENDS SharedMutex
=============================================================================
