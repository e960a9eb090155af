---------------------------- MODULE DurableDisk ----------------------------
(***************************************************************************)
(* What the disk of the taurus promises its guest: an array of bytes that  *)
(* is read and written one byte at a time, with a copy in a file that a    *)
(* later run of the emulator may start from.  Disk.tla implements it.      *)
(***************************************************************************)
CONSTANTS
  Address, Byte,
  Zero,      (* the byte a blank disk is filled with                        *)
  Image      (* the other disk images a run may start from                  *)

VARIABLES
  up,        \* the emulator runs
  bytes,     \* what a load of DISK_OUT sees
  out,       \* the byte the guest loaded last
  durable,   \* the contents of the file
  syncing,   \* a store is being copied to the file
  short      \* the last copy came up short

vars == <<up, bytes, out, durable, syncing, short>>

Contents == [Address -> Byte]

Blank == [a \in Address |-> Zero]

\* A copy of c some bytes of which did not get to the file.
Torn(c) == {d \in Contents : \A a \in Address : d[a] \in {c[a], Zero}}

Init ==
  /\ up = FALSE /\ syncing = FALSE /\ short = FALSE
  /\ bytes = Blank /\ out = Zero
  /\ durable \in Contents

Boot ==
  /\ ~up /\ up' = TRUE
  /\ bytes' \in {durable, Blank} \cup Image
  /\ UNCHANGED <<out, durable, syncing, short>>

Read(a) ==
  /\ up /\ ~syncing
  /\ out' = bytes[a]
  /\ UNCHANGED <<up, bytes, durable, syncing, short>>

Write(a, b) ==
  /\ up /\ ~syncing
  /\ bytes' = [bytes EXCEPT ![a] = b]
  /\ syncing' = TRUE
  /\ UNCHANGED <<up, out, durable, short>>

\* The file is overwritten in place.
Copy ==
  /\ up /\ syncing
  /\ durable' \in Torn(bytes)
  /\ UNCHANGED <<up, bytes, out, syncing, short>>

\* The store returns with all bytes in the file, or with a short copy.
Sync ==
  /\ up /\ syncing /\ syncing' = FALSE
  /\ short' \in BOOLEAN
  /\ short' \/ durable = bytes
  /\ UNCHANGED <<up, bytes, out, durable>>

\* The process ends, by `exit`, by an abort or by a signal.
Crash ==
  /\ up /\ up' = FALSE
  /\ syncing' = FALSE /\ short' = FALSE
  /\ bytes' = Blank /\ out' = Zero
  /\ UNCHANGED durable

Next ==
  \/ Boot \/ Copy \/ Sync \/ Crash
  \/ \E a \in Address : Read(a) \/ \E b \in Byte : Write(a, b)

Spec == Init /\ [][Next]_vars
=============================================================================
