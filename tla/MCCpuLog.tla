------------------------------ MODULE MCCpuLog ------------------------------
(***************************************************************************)
(* Instances of CpuLog for TLC.  The log and the snapshots share nothing   *)
(* but the iterator, so each has its own runs.                             *)
(***************************************************************************)
EXTENDS CpuLog, TLC

\* No file name differs from another but in what was written to it.
FileNames == Permutations(File)
=============================================================================
