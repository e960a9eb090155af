----------------------------- MODULE DiskProofs -----------------------------
(***************************************************************************)
(* What TLAPS proves of Disk, for every size of the disk and every image.  *)
(* The invariant that carries it: while a dump is written, the file is     *)
(* there and is a prefix of the disk.                                      *)
(***************************************************************************)
EXTENDS Disk, TLAPS

FileOpen == phase = "fwrite" => dump # None

Inv == TypeOK /\ DumpIsPrefix /\ FileOpen

\* fread() of a file that is no longer than the disk gives a disk.
LEMMA LoadedType == ASSUME NEW s \in Seq(Byte)
                    PROVE  Loaded(s) \in Contents
  <1>1. 0 \in Byte
    BY DiskAssumption DEF Byte
  <1>2. ASSUME NEW a \in Address, a < Len(s) PROVE s[a + 1] \in Byte
    BY <1>2 DEF Address
  <1> QED
    BY <1>1, <1>2 DEF Loaded, Contents

LEMMA EmptyFile == << >> \in Seq(Byte) /\ Len(<< >>) = 0 /\ << >> # None
  <1>1. << >> \in Seq(Byte) /\ Len(<< >>) = 0
    OBVIOUS
  <1> QED
    BY <1>1, DiskAssumption

LEMMA ImageType == \A s \in Images \cup {<< >>} : s \in Seq(Byte)
  BY EmptyFile, DiskAssumption

LEMMA BlankType == Blank \in Contents
  BY DiskAssumption DEF Blank, Contents, Byte

\* Loading the empty file leaves the zeroes.
LEMMA LoadedEmpty == Loaded(<< >>) = Blank
  BY DEF Loaded, Blank, Address

LEMMA InitInv == Init => Inv
  <1> SUFFICES ASSUME Init PROVE Inv
    OBVIOUS
  <1>1. 0 \in Address /\ 0 \in Byte /\ 0 \in Nat
    BY DiskAssumption DEF Address, Byte
  <1> QED
    BY <1>1, BlankType DEF Init, Inv, TypeOK, DumpIsPrefix, FileOpen, Phases

LEMMA StoredType == TypeOK => Stored \in Contents
  <1> SUFFICES ASSUME TypeOK PROVE Stored \in Contents
    OBVIOUS
  <1>1. disk_data % BYTE \in Byte
    BY DiskAssumption DEF TypeOK, Byte
  <1> QED
    BY <1>1 DEF TypeOK, Stored, Contents

LEMMA NextInv == Inv /\ [Next]_vars => Inv'
  <1> SUFFICES ASSUME Inv, [Next]_vars PROVE Inv'
    OBVIOUS
  <1> USE DEF Inv
  <1>z. 0 \in Address /\ 0 \in Byte
    BY DiskAssumption DEF Address, Byte
  <1>1. CASE BootDump
    <2>1. Loaded(dump) \in Contents
      BY <1>1, LoadedType DEF TypeOK, BootDump
    <2> QED
      BY <1>1, <2>1 DEF BootDump, Booted, TypeOK, Phases, DumpIsPrefix, FileOpen
  <1>2. CASE BootOther
    <2> PICK s \in Images \cup {<< >>} : Booted(Loaded(s))
      BY <1>2 DEF BootOther
    <2>1. s \in Seq(Byte)
      BY ImageType
    <2>2. Loaded(s) \in Contents
      BY <2>1, LoadedType
    <2> QED
      BY <1>2, <2>2 DEF BootOther, Booted, TypeOK, Phases, DumpIsPrefix, FileOpen
  <1>3. CASE LoadOut
    BY <1>3 DEF LoadOut, Running, TypeOK, Contents, DumpIsPrefix, FileOpen
  <1>4. ASSUME NEW r \in Registers, NEW w \in Words, HalfStore(r, w) PROVE Inv'
    <2>1. w % DISK_SIZE \in Address
      BY DiskAssumption DEF Address
    <2> QED
      BY <1>4, <2>1 DEF HalfStore, Running, TypeOK, DumpIsPrefix, FileOpen
  <1>5. ASSUME NEW r \in Registers, NEW w \in Words, ByteStore(r, w) PROVE Inv'
    <2>1. w % 65536 \in Nat
      BY DiskAssumption
    <2> QED
      BY <1>5, <2>1 DEF ByteStore, Running, TypeOK, DumpIsPrefix, FileOpen
  <1>6. CASE StoreWrite
    BY <1>6, StoredType DEF StoreWrite, Running, TypeOK, Phases, DumpIsPrefix, FileOpen
  <1>7. CASE Fopen
    <2>1. DumpIsPrefix'
      BY <1>7, EmptyFile DEF Fopen, DumpIsPrefix
    <2> QED
      BY <1>7, EmptyFile, <2>1 DEF Fopen, TypeOK, Phases, FileOpen
  <1>8. CASE Fwrite
    <2>1. dump \in Seq(Byte) /\ Len(dump) \in Nat /\ Len(dump) < DISK_SIZE
      BY <1>8 DEF Fwrite, FileOpen, TypeOK
    <2>2. Len(dump) \in Address
      BY <2>1, DiskAssumption DEF Address
    <2>3. NextByte(Len(dump)) \in Byte
      BY <2>2 DEF NextByte, TypeOK, Contents
    <2>4. dump' = Append(dump, disk[Len(dump)]) /\ phase' = "fwrite" /\ disk' = disk
      BY <1>8 DEF Fwrite, NextByte
    <2>5. dump' \in Seq(Byte) /\ Len(dump') = Len(dump) + 1
      BY <2>1, <2>3, <2>4 DEF NextByte
    <2>6. ASSUME NEW n \in 1 .. Len(dump') PROVE n <= DISK_SIZE /\ dump'[n] = disk'[n - 1]
      <3>1. CASE n = Len(dump) + 1
        BY <2>1, <2>3, <2>4, <3>1, DiskAssumption DEF NextByte
      <3>2. CASE n # Len(dump) + 1
        <4>1. n \in 1 .. Len(dump)
          BY <2>1, <2>5, <3>2
        <4>2. dump'[n] = dump[n]
          BY <2>1, <2>3, <2>4, <4>1 DEF NextByte
        <4> QED
          BY <1>8, <2>4, <4>1, <4>2 DEF Fwrite, DumpIsPrefix
      <3> QED
        BY <3>1, <3>2
    <2>7. DumpIsPrefix'
      BY <2>6 DEF DumpIsPrefix
    <2>8. dump' # None
      BY <2>5, DiskAssumption
    <2> QED
      BY <1>8, <2>5, <2>7, <2>8 DEF Fwrite, TypeOK, FileOpen
  <1>9. CASE Fclose
    BY <1>9 DEF Fclose, TypeOK, Phases, DumpIsPrefix, FileOpen
  <1>10. CASE Crash
    BY <1>10, <1>z, BlankType DEF Crash, TypeOK, Phases, DumpIsPrefix, FileOpen
  <1>11. CASE UNCHANGED vars
    BY <1>11 DEF vars, TypeOK, DumpIsPrefix, FileOpen
  <1> QED
    BY <1>1, <1>2, <1>3, <1>4, <1>5, <1>6, <1>7, <1>8, <1>9, <1>10, <1>11 DEF Next
\* Every variable keeps its type: the latches never hold an address outside the
\* disk, and a file never a word that is no byte, whatever is stored.
THEOREM TypeCorrect == Spec => []TypeOK
  <1>1. Inv => TypeOK
    BY DEF Inv
  <1> QED
    BY <1>1, InitInv, NextInv, PTL DEF Spec

\* While a store is copied, the dump is a prefix of the disk.
THEOREM DumpIsAPrefix == Spec => []DumpIsPrefix
  <1>1. Inv => DumpIsPrefix
    BY DEF Inv
  <1> QED
    BY <1>1, InitInv, NextInv, PTL DEF Spec

-----------------------------------------------------------------------------

LEMMA DurableType == TypeOK => Durable \in Contents
  BY LoadedType, BlankType DEF TypeOK, Durable

\* A file that is as long as the disk and agrees with it is the disk.
LEMMA WholeIsDisk ==
  ASSUME TypeOK, NEW s \in Seq(Byte), Len(s) = DISK_SIZE,
         \A n \in 1 .. Len(s) : s[n] = disk[n - 1]
  PROVE  Loaded(s) = disk
  <1>1. ASSUME NEW a \in Address PROVE Loaded(s)[a] = disk[a]
    <2>1. a < Len(s) /\ a + 1 \in 1 .. Len(s) /\ (a + 1) - 1 = a
      BY DiskAssumption DEF Address
    <2>2. s[a + 1] = disk[a]
      BY <2>1
    <2> QED
      BY <2>1, <2>2 DEF Loaded
  <1>2. disk = [a \in Address |-> disk[a]]
    BY DEF TypeOK, Contents
  <1>3. Loaded(s) = [a \in Address |-> Loaded(s)[a]]
    BY DEF Loaded
  <1> QED
    BY <1>1, <1>2, <1>3

LEMMA WrittenIsDurable ==
  ASSUME Inv, phase = "fwrite", Written PROVE dump # None /\ Durable = disk
  <1>1. dump \in Seq(Byte) /\ dump # None
    BY DEF Inv, TypeOK, FileOpen
  <1>2. Len(dump) = DISK_SIZE /\ \A n \in 1 .. Len(dump) : dump[n] = disk[n - 1]
    BY DEF Inv, DumpIsPrefix, Written
  <1>3. Loaded(dump) = disk
    BY <1>1, <1>2, WholeIsDisk DEF Inv
  <1> QED
    BY <1>1, <1>3 DEF Durable

\* The dump that is left between two instructions is the disk the guest sees, from
\* its first store on or when the run started from the dump, unless the last copy
\* came up short.
THEOREM DumpIsTheDisk == Spec => []DumpIsDisk
  <1>1. Init => DumpIsDisk
    BY DEF Init, DumpIsDisk
  <1>2. Inv /\ DumpIsDisk /\ [Next]_vars => DumpIsDisk'
    <2> SUFFICES ASSUME Inv, DumpIsDisk, [Next]_vars PROVE DumpIsDisk'
      OBVIOUS
    <2>1. CASE BootDump
      BY <2>1 DEF BootDump, Booted, DumpIsDisk, Durable
    <2>2. CASE BootOther
      BY <2>2 DEF BootOther, DumpIsDisk
    <2>3. CASE LoadOut
      BY <2>3 DEF LoadOut, DumpIsDisk, Durable
    <2>4. ASSUME NEW r \in Registers, NEW w \in Words,
                 HalfStore(r, w) \/ ByteStore(r, w)
          PROVE  DumpIsDisk'
      BY <2>4 DEF HalfStore, ByteStore, DumpIsDisk, Durable
    <2>5. CASE StoreWrite \/ Fopen \/ Fwrite \/ Crash
      BY <2>5 DEF StoreWrite, Fopen, Fwrite, Crash, DumpIsDisk
    <2>6. CASE Fclose
      BY <2>6, WrittenIsDurable DEF Fclose, DumpIsDisk, Durable
    <2>7. CASE UNCHANGED vars
      BY <2>7 DEF vars, DumpIsDisk, Durable
    <2> QED
      BY <2>1, <2>2, <2>3, <2>4, <2>5, <2>6, <2>7 DEF Next
  <1> QED
    BY <1>1, <1>2, InitInv, NextInv, PTL DEF Spec

\* The two together: what the process leaves, wherever it ends.
THEOREM DumpsAgree == Spec => []DumpAgrees
  <1>1. DumpIsDisk /\ DumpIsPrefix => DumpAgrees
    BY DEF DumpAgrees
  <1> QED
    BY <1>1, DumpIsTheDisk, DumpIsAPrefix, PTL

-----------------------------------------------------------------------------
(* The refinement: each action of the disk is one of DurableDisk or a stutter. *)

LEMMA ImageContents == \A s \in Images \cup {<< >>} :
                         Loaded(s) \in {Loaded(q) : q \in Images} \cup {Blank}
  BY LoadedEmpty

\* A store that is being copied leaves the dump a torn copy of the disk.
LEMMA CopyRefined ==
  ASSUME Inv', NEW s \in Seq(Byte), dump' = s, phase' = "fwrite",
         phase \in {"fopen", "fwrite"}, UNCHANGED <<disk, out, short>>
  PROVE  Abstract!Copy
  <1>1. \A a \in Address : Loaded(s)[a] \in {disk'[a], 0}
    <2>1. \A n \in 1 .. Len(s) : n <= DISK_SIZE /\ s[n] = disk'[n - 1]
      BY DEF Inv, DumpIsPrefix
    <2>2. TypeOK'
      BY DEF Inv
    <2> SUFFICES ASSUME NEW a \in Address PROVE Loaded(s)[a] \in {disk'[a], 0}
      OBVIOUS
    <2>3. CASE a < Len(s)
      <3>1. a + 1 \in 1 .. Len(s) /\ (a + 1) - 1 = a
        BY <2>3 DEF Address
      <3>2. s[a + 1] = disk'[a]
        BY <2>1, <3>1
      <3> QED
        BY <2>3, <3>2 DEF Loaded
    <2>4. CASE ~(a < Len(s))
      BY <2>4 DEF Loaded
    <2> QED
      BY <2>3, <2>4
  <1>2. Durable' = Loaded(s)
    <2>1. dump' # None
      BY DiskAssumption
    <2> QED
      BY <2>1 DEF Durable
  <1>3. Durable' \in Abstract!Torn(disk)
    BY <1>1, <1>2, LoadedType DEF Abstract!Torn, Abstract!Contents, Contents
  <1> QED
    BY <1>3 DEF Abstract!Copy

LEMMA InitRefined == Init => Abstract!Init
  <1> SUFFICES ASSUME Init PROVE Abstract!Init
    OBVIOUS
  <1>1. Durable = Blank
    BY DEF Init, Durable
  <1>2. Blank = Abstract!Blank /\ Blank \in Abstract!Contents
    BY BlankType DEF Blank, Abstract!Blank, Abstract!Contents, Contents
  <1> QED
    BY <1>1, <1>2 DEF Init, Abstract!Init

LEMMA StepRefined ==
  Inv /\ Inv' /\ [Next]_vars => [Abstract!Next]_Abstract!vars
  <1> SUFFICES ASSUME Inv, Inv', [Next]_vars PROVE [Abstract!Next]_Abstract!vars
    OBVIOUS
  <1> USE DEF Abstract!Next, Abstract!vars
  <1>b. Abstract!Blank = Blank
    BY DEF Abstract!Blank, Blank
  <1>1. CASE BootDump
    <2>1. Abstract!Boot
      BY <1>1 DEF BootDump, Booted, Durable, Abstract!Boot
    <2> QED
      BY <2>1
  <1>2. CASE BootOther
    <2> PICK s \in Images \cup {<< >>} : Booted(Loaded(s))
      BY <1>2 DEF BootOther
    <2>1. disk' \in {Loaded(q) : q \in Images} \cup {Blank}
      BY ImageContents DEF Booted
    <2>2. Abstract!Boot
      BY <2>1, <1>b DEF Booted, Durable, Abstract!Boot
    <2> QED
      BY <2>2
  <1>3. CASE LoadOut
    <2>1. disk_address \in Address
      BY DEF Inv, TypeOK
    <2>2. Abstract!Read(disk_address)
      BY <1>3 DEF LoadOut, Running, Durable, Abstract!Read
    <2> QED
      BY <2>1, <2>2
  <1>4. ASSUME NEW r \in Registers, NEW w \in Words,
               HalfStore(r, w) \/ ByteStore(r, w)
        PROVE  UNCHANGED Abstract!vars
    BY <1>4 DEF HalfStore, ByteStore, Durable
  <1>5. CASE StoreWrite
    <2>1. disk_address \in Address /\ disk_data % BYTE \in Byte
      BY DiskAssumption DEF Inv, TypeOK, Byte
    <2>2. Abstract!Write(disk_address, disk_data % BYTE)
      BY <1>5 DEF StoreWrite, Running, Stored, Durable, Abstract!Write
    <2> QED
      BY <2>1, <2>2
  <1>6. CASE Fopen
    <2>1. Abstract!Copy
      BY <1>6, EmptyFile, CopyRefined DEF Fopen
    <2> QED
      BY <2>1
  <1>7. CASE Fwrite
    <2>1. phase' = "fwrite"
      BY <1>7 DEF Fwrite
    <2>2. dump' \in Seq(Byte)
      BY <2>1 DEF Inv, TypeOK, FileOpen
    <2>3. Abstract!Copy
      BY <1>7, <2>1, <2>2, CopyRefined DEF Fwrite
    <2> QED
      BY <2>3
  <1>8. CASE Fclose
    <2>1. short' \in BOOLEAN /\ (short' \/ Durable = disk)
      BY <1>8, WrittenIsDurable DEF Fclose
    <2>2. Abstract!Sync
      BY <1>8, <2>1 DEF Fclose, Durable, Abstract!Sync
    <2> QED
      BY <2>2
  <1>9. CASE Crash
    <2>1. Abstract!Crash
      BY <1>9, <1>b DEF Crash, Durable, Abstract!Crash
    <2> QED
      BY <2>1
  <1>10. CASE UNCHANGED vars
    BY <1>10 DEF vars, Durable
  <1> QED
    BY <1>1, <1>2, <1>3, <1>4, <1>5, <1>6, <1>7, <1>8, <1>9, <1>10 DEF Next

\* The disk keeps the promise of DurableDisk: what is lost over a crash is lost
\* while a store was being copied, and is a byte that was not copied yet.
THEOREM DiskIsDurable == Spec => ImplementsDurableDisk
  <1> QED
    BY InitInv, NextInv, InitRefined, StepRefined, PTL
       DEF Spec, ImplementsDurableDisk, Abstract!Spec
=============================================================================
