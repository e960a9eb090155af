--------------------------- MODULE MCConsoleInput ---------------------------
(* ConsoleInput for TLC; the bounds are in the cfg files.                  *)
EXTENDS ConsoleInput
=============================================================================
