------------------------------- MODULE MCDisk -------------------------------
(***************************************************************************)
(* Instances of Disk for TLC: a disk of a few bytes, words that are wider  *)
(* than the latches they are stored to, and an image shorter than a disk.  *)
(***************************************************************************)
EXTENDS Disk

MCImages == {<<1, 0, 1>>, <<1>>}
=============================================================================
