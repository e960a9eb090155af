-------------------------------- MODULE Disk --------------------------------
(***************************************************************************)
(* The disk of the taurus, disk.c, behind the bus of custom_bus.c: the two *)
(* latches, the array, and dump_disk_as_file(), which rewrites the whole   *)
(* dump file on every store to DISK_WRITE and may be interrupted anywhere; *)
(* and the runs of the emulator that start from the dump, from another     *)
(* image or without a disk.                                                *)
(***************************************************************************)
EXTENDS Integers, Sequences

CONSTANTS
  DISK_SIZE,  (* 65536                                                      *)
  BYTE,       (* 256: a byte is one of 0 .. BYTE - 1                        *)
  Images,     (* contents of the other disk images: sequences of bytes      *)
  Words,      (* the words a guest stores                                   *)
  None        (* there is no dump file                                      *)

Address  == 0 .. DISK_SIZE - 1
Byte     == 0 .. BYTE - 1
Contents == [Address -> Byte]
Bytes    == {s \in Seq(Byte) : Len(s) <= DISK_SIZE}

\* The registers of the disk on the bus.
Registers == {"DISK_ADDRESS", "DISK_DATA", "DISK_OUT", "DISK_WRITE"}

ASSUME DiskAssumption ==
  /\ DISK_SIZE \in Nat \ {0} /\ BYTE \in Nat \ {0}
  /\ \A s \in Images : s \in Seq(Byte) /\ Len(s) <= DISK_SIZE
  /\ Words \subseteq Nat
  /\ None \notin Seq(Byte)

VARIABLES
  phase,      \* what the emulator does
  disk, disk_address, disk_data,
  dump,       \* the contents of disk_dump.bin
  out,        \* guest: the byte it loaded from DISK_OUT last
  foreign,    \* history: this run did not start from the dump, and the guest
              \* has stored nothing yet
  short       \* history: the last fwrite() came up short

vars == <<phase, disk, disk_address, disk_data, dump, out, foreign,
          short>>

Phases == {"down", "run", "fopen", "fwrite"}

TypeOK ==
  /\ phase \in Phases
  /\ disk \in Contents
  /\ disk_address \in Address
  /\ disk_data \in Nat
  /\ dump \in Seq(Byte) \cup {None}
  /\ out \in Byte
  /\ foreign \in BOOLEAN /\ short \in BOOLEAN

Blank == [a \in Address |-> 0]

\* The disk after fread() has read the file s into the zeroes of the array.
Loaded(s) == [a \in Address |-> IF a < Len(s) THEN s[a + 1] ELSE 0]

Init ==
  /\ phase = "down"
  /\ disk = Blank /\ disk_address = 0 /\ disk_data = 0
  /\ dump = None
  /\ out = 0 /\ foreign = FALSE /\ short = FALSE

-----------------------------------------------------------------------------
(* taurus/arch.c: taurus_sys_init() *)

Booted(d) ==
  /\ phase = "down" /\ phase' = "run"
  /\ disk' = d
  /\ UNCHANGED <<disk_address, disk_data, dump, out, short>>

\* The disk argument is the dump of an earlier run.
BootDump ==
  /\ dump # None
  /\ Booted(Loaded(dump))
  /\ foreign' = FALSE

\* Another image, or too few arguments for a disk.
BootOther ==
  /\ \E s \in Images \cup {<< >>} : Booted(Loaded(s))
  /\ foreign' = TRUE

-----------------------------------------------------------------------------
(* disk.c *)

Running == phase = "run"

\* A load of the byte at DISK_OUT; the other registers load as zero.
LoadOut ==
  /\ Running
  /\ out' = disk[disk_address]
  /\ UNCHANGED <<phase, disk, disk_address, disk_data, dump, foreign, short>>

\* Disk_HalfStore() knows DISK_ADDRESS only.
HalfStore(r, w) ==
  /\ Running
  /\ disk_address' = IF r = "DISK_ADDRESS" THEN w % DISK_SIZE ELSE disk_address
  /\ UNCHANGED <<phase, disk, disk_data, dump, out, foreign, short>>

\* Disk_ByteStore() knows DISK_DATA; disk_data is wider than a byte.
ByteStore(r, w) ==
  /\ Running
  /\ r # "DISK_WRITE"
  /\ disk_data' = IF r = "DISK_DATA" THEN w % 65536 ELSE disk_data
  /\ UNCHANGED <<phase, disk, disk_address, dump, out, foreign, short>>

\* Mutant: the array holds all of what the latch holds.
StoredWide == [disk EXCEPT ![disk_address] = disk_data]

Stored == [disk EXCEPT ![disk_address] = disk_data % BYTE]

\* A store to DISK_WRITE; whatever is stored, the byte is the latched one.
StoreWrite ==
  /\ Running
  /\ disk' = Stored
  /\ phase' = "fopen"
  /\ foreign' = FALSE
  /\ UNCHANGED <<disk_address, disk_data, dump, out, short>>

\* dump_disk_as_file(): fopen() truncates the file, or fails, which fseek()
\* does not survive.
Fopen ==
  /\ phase = "fopen"
  /\ dump' = << >> /\ phase' = "fwrite"
  /\ UNCHANGED <<disk, disk_address, disk_data, out, foreign, short>>

\* Mutant: the file gets the bytes after the one that is next.
SkipsOne(n) == disk[(n + 1) % DISK_SIZE]

NextByte(n) == disk[n]

Fwrite ==
  /\ phase = "fwrite"
  /\ Len(dump) < DISK_SIZE
  /\ dump' = Append(dump, NextByte(Len(dump)))
  /\ UNCHANGED <<phase, disk, disk_address, disk_data, out, foreign, short>>

\* Mutant: the last byte is not waited for.
AlmostWritten == Len(dump) >= DISK_SIZE - 1

Written == Len(dump) = DISK_SIZE

\* fclose(): the file system may run out of space at any byte, and nobody looks
\* whether fwrite() came up short.
Fclose ==
  /\ phase = "fwrite"
  /\ phase' = "run"
  /\ short' = ~Written
  /\ UNCHANGED <<disk, disk_address, disk_data, dump, out, foreign>>

\* exit, an abort or a signal, at any time.
Crash ==
  /\ phase # "down" /\ phase' = "down"
  /\ disk' = Blank /\ disk_address' = 0 /\ disk_data' = 0
  /\ out' = 0 /\ foreign' = FALSE /\ short' = FALSE
  /\ UNCHANGED dump

Next ==
  \/ BootDump \/ BootOther
  \/ LoadOut
  \/ \E r \in Registers, w \in Words : HalfStore(r, w) \/ ByteStore(r, w)
  \/ StoreWrite \/ Fopen \/ Fwrite \/ Fclose
  \/ Crash

Spec == Init /\ [][Next]_vars
-----------------------------------------------------------------------------
(* Properties *)

\* The contents the file stands for.
Durable == IF dump = None THEN Blank ELSE Loaded(dump)

\* Between two instructions the dump holds the disk the guest sees, from its
\* first store on or when the run started from the dump: a crash there loses
\* nothing (disk.c:34-48), unless the file system ran out of space.
DumpIsDisk == phase = "run" /\ ~foreign /\ ~short => dump # None /\ Durable = disk

\* While a store is copied, each byte of the dump is the one on the disk or is
\* missing at the end of the file: a crash there never leaves bytes of two
\* different disks (disk.c:34-39).
DumpIsPrefix ==
  phase = "fwrite" => \A n \in 1 .. Len(dump) : n <= DISK_SIZE /\ dump[n] = disk[n - 1]

\* Wherever the process ends, it leaves the disk the guest saw, or a beginning of
\* the one it was writing (disk.c:34-48), but for the exceptions of DumpIsDisk.
DumpAgrees == DumpIsDisk /\ DumpIsPrefix

\* The file is the durable copy of the array, and is in use while it is rewritten.
Abstract == INSTANCE DurableDisk WITH
  Zero <- 0, Image <- {Loaded(s) : s \in Images},
  up <- phase # "down", bytes <- disk, durable <- Durable,
  syncing <- phase \in {"fopen", "fwrite"}

\* A store that is interrupted may lose other bytes than its own, and only then is
\* anything lost over a crash: otherwise the next run that starts from the dump
\* has the disk the guest saw last (disk.c:20-57).
ImplementsDurableDisk == Abstract!Spec
=============================================================================
