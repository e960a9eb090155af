---------------------------- MODULE CpuLogProofs ----------------------------
(***************************************************************************)
(* What TLAPS proves of CpuLog, for any number of registers, any values,   *)
(* files and speeds.  Two invariants carry it: the iterator is half way    *)
(* only after a `cpu rw` with no recorded cycle behind it in its turn, and *)
(* a pair of file names that holds a machine holds it in both files.       *)
(***************************************************************************)
EXTENDS CpuLog, TLAPS

\* Who may find the iterator half way: a recorded cycle, only directly after a
\* `cpu rw`; later cycles of that batch and the window of the next turn, only if
\* none is recorded.
IteratorHome == alive /\ next # 0 => rw /\ (i = 0 \/ ~enabled)

SameLength == Len(cycles) = Len(cpu_log)

LogFits == Len(cpu_log) <= MaxLog

Holds(w1, w2) ==
  saved[<<w1, w2>>] # None =>
    /\ w1 # w2
    /\ files[StateFile(w1, w2)] = [kind |-> "state", of |-> saved[<<w1, w2>>]]
    /\ files[MemoryFile(w1, w2)] = [kind |-> "memory", of |-> saved[<<w1, w2>>]]

FilesHold == \A w1, w2 \in File : Holds(w1, w2)

LogInv  == TypeOK /\ IteratorHome /\ SameLength /\ LogFits /\ LogExact
FileInv == TypeOK /\ FilesHold

-----------------------------------------------------------------------------
(* What the operators return *)

LEMMA StartIsHome == start = 0 /\ start \in 0 .. REGISTERS
  BY CpuLogAssumption DEF start, registers_window_tick

LEMMA SnapshotType == ASSUME TypeOK
                      PROVE  Snapshot(0) = [pc |-> pc, regs |-> regs, memory |-> memory]
                             /\ Snapshot(0) \in Machine
  <1>1. ById(0) = [r \in Register |-> regs[r]]
    BY DEF ById, Register
  <1>2. ById(0) = regs
    BY <1>1 DEF TypeOK, Regs
  <1> QED
    BY <1>2 DEF Snapshot, TypeOK, Machine

\* A home iterator yields the registers in their places.
LEMMA ByOrderHome == ASSUME regs' \in Regs PROVE ByOrder(0) = regs'
  <1>1. \A r \in Register : 0 + r < REGISTERS /\ 0 + r = r
    BY CpuLogAssumption DEF Register
  <1>2. ByOrder(0) = [r \in Register |-> regs'[r]]
    BY <1>1 DEF ByOrder
  <1> QED
    BY <1>2 DEF Regs

LEMMA ByOrderType == ASSUME regs' \in Regs, NEW n \in 0 .. REGISTERS
                     PROVE  ByOrder(n) \in [Register -> Value \cup {Garbage}]
  <1> SUFFICES ASSUME NEW r \in Register, n + r < REGISTERS PROVE regs'[n + r] \in Value
    BY DEF ByOrder
  <1>1. n + r \in Register
    BY CpuLogAssumption DEF Register
  <1> QED
    BY <1>1 DEF Regs

-----------------------------------------------------------------------------
(* Type correctness *)

LEMMA InitType == Init => TypeOK
  <1> SUFFICES ASSUME Init PROVE TypeOK
    OBVIOUS
  <1>1. [pc |-> pc, regs |-> regs, memory |-> memory] \in Machine
    BY DEF Init, Machine
  <1>2. (CHOOSE m \in Machine : TRUE) \in Machine
    BY <1>1
  <1>3. files \in [File -> Contents]
    BY <1>2 DEF Init, Contents
  <1>4. next \in 0 .. REGISTERS
    BY CpuLogAssumption DEF Init
  <1>5. saved \in [File \X File -> Machine \cup {None}]
    BY DEF Init
  <1>6. cpu_log \in Seq(Cycle) /\ cycles \in Seq([pc : Value, regs : Regs, rw : BOOLEAN])
    BY DEF Init
  <1> QED
    BY <1>3, <1>4, <1>5, <1>6 DEF Init, TypeOK

\* The part of the type that Return and the iterator of a command are about.
LEMMA ReturnType == ASSUME TypeOK, cpu_running' \in BOOLEAN, Return
                    PROVE  /\ right_to_left' \in BOOLEAN /\ alive' \in BOOLEAN
                           /\ phase' \in {"debug_console_tick", "batch"} /\ i' \in Nat
  BY DEF Return, TypeOK

LEMMA NoRegistersType == ASSUME NoRegisters
                         PROVE  next' \in 0 .. REGISTERS /\ rw' \in BOOLEAN
  BY StartIsHome DEF NoRegisters

LEMMA SaveType == ASSUME TypeOK, NEW w1 \in File, NEW w2 \in File, LoggerSave(w1, w2)
                  PROVE  /\ files' \in [File -> Contents]
                         /\ saved' \in [File \X File -> Machine \cup {None}]
  <1>1. Snapshot(start) \in Machine /\ Snapshot(0) \in Machine
    BY SnapshotType, StartIsHome
  <1>2. files' \in [File -> Contents]
    BY <1>1 DEF LoggerSave, TypeOK, Contents
  <1>3. saved' \in [File \X File -> Machine \cup {None}]
    BY <1>1 DEF LoggerSave, TypeOK
  <1> QED
    BY <1>2, <1>3

LEMMA LoadType == ASSUME TypeOK, NEW w1 \in File, NEW w2 \in File, LoggerLoad(w1, w2)
                  PROVE  pc' \in Value /\ regs' \in Regs /\ memory' \in Image
  <1>1. LoadFile(w1, w2) \in File /\ MemoryFile(w1, w2) \in File
    BY DEF LoadFile, StateFile, MemoryFile
  <1>2. \A f \in File : files[f].of.pc \in Value /\ files[f].of.regs \in Regs
                          /\ files[f].of.memory \in Image
    BY DEF TypeOK, Contents, Machine
  <1>3. pc' \in Value /\ regs' \in Regs
    BY <1>1, <1>2 DEF LoggerLoad, TypeOK
  <1>4. memory' \in Image
    BY <1>1, <1>2 DEF LoggerLoad, TypeOK
  <1> QED
    BY <1>3, <1>4

LEMMA LoggedType == ASSUME TypeOK, pc' \in Value, regs' \in Regs, cpu_logger_cycle
                    PROVE  /\ cpu_log' \in Seq(Cycle)
                           /\ cycles' \in Seq([pc : Value, regs : Regs, rw : BOOLEAN])
                           /\ next' \in 0 .. REGISTERS
  <1> DEFINE C == [pc |-> pc', regs |-> ByOrder(next)]
             H == [pc |-> pc', regs |-> regs', rw |-> rw /\ i = 0]
  <1>1. C \in Cycle
    BY ByOrderType DEF TypeOK, Cycle
  <1>2. (rw /\ i = 0) \in BOOLEAN
    BY DEF TypeOK
  <1>3. H \in [pc : Value, regs : Regs, rw : BOOLEAN]
    BY <1>2
  <1>4. 0 \in 0 .. REGISTERS
    BY CpuLogAssumption
  <1>5. CASE enabled /\ Len(cpu_log) < MaxLog
    <2>1. cpu_log' = Append(cpu_log, C) /\ cycles' = Append(cycles, H) /\ next' = 0
      BY <1>5 DEF cpu_logger_cycle
    <2> HIDE DEF C, H
    <2> QED
      BY <2>1, <1>1, <1>3, <1>4 DEF TypeOK
  <1>6. CASE ~(enabled /\ Len(cpu_log) < MaxLog)
    BY <1>6 DEF cpu_logger_cycle, TypeOK
  <1> QED
    BY <1>5, <1>6

LEMMA BatchType == ASSUME TypeOK, Batch
                   PROVE  /\ pc' \in Value /\ regs' \in Regs /\ memory' \in Image
                          /\ cpu_running' \in BOOLEAN /\ alive' \in BOOLEAN
                          /\ phase' \in {"debug_console_tick", "batch"} /\ i' \in Nat
BY DEF Batch, TypeOK

LEMMA NextType == TypeOK /\ [Next]_vars => TypeOK'
  <1> SUFFICES ASSUME TypeOK, [Next]_vars PROVE TypeOK'
    OBVIOUS
  <1>1. CASE OtherCommand
    BY <1>1, ReturnType, NoRegistersType
       DEF OtherCommand, TypeOK, log, disk
  <1>2. ASSUME NEW v \in Value, CpuJmp(v) PROVE TypeOK'
    <2>1. cpu_running' \in BOOLEAN
      BY <1>2 DEF CpuJmp, TypeOK
    <2> QED
      BY <1>2, <2>1, ReturnType, NoRegistersType DEF CpuJmp, TypeOK, log, disk
  <1>3. ASSUME NEW v \in Value, NEW r \in Register, CpuRw(v, r) PROVE TypeOK'
    <2>1. cpu_running' \in BOOLEAN
      BY <1>3 DEF CpuRw, TypeOK
    <2>2. regs' \in Regs
      BY <1>3 DEF CpuRw, TypeOK, Regs
    <2>3. After(r) \in 0 .. REGISTERS /\ 0 \in 0 .. REGISTERS
      BY CpuLogAssumption DEF After, Register
    <2>4. next' \in 0 .. REGISTERS
      BY <1>3, <2>3 DEF CpuRw
    <2> QED
      BY <1>3, <2>1, <2>2, <2>4, ReturnType DEF CpuRw, TypeOK, log, disk
  <1>4. CASE LoggerInit
    <2>1. cpu_running' \in BOOLEAN /\ << >> \in Seq(Cycle)
      BY <1>4 DEF LoggerInit, TypeOK
    <2> QED
      BY <1>4, <2>1, ReturnType, NoRegistersType DEF LoggerInit, TypeOK, machine, disk
  <1>5. CASE LoggerToggle
    <2>1. cpu_running' \in BOOLEAN
      BY <1>5 DEF LoggerToggle, TypeOK
    <2> QED
      BY <1>5, <2>1, ReturnType, NoRegistersType DEF LoggerToggle, TypeOK, machine, disk
  <1>6. CASE LoggerFlush
    <2>1. cpu_running' \in BOOLEAN
      BY <1>6 DEF LoggerFlush, TypeOK
    <2>2. /\ right_to_left' \in BOOLEAN /\ alive' \in BOOLEAN
          /\ phase' \in {"debug_console_tick", "batch"} /\ i' \in Nat
      BY <1>6, <2>1, ReturnType DEF LoggerFlush, TypeOK
    <2>3. log_file' \in Seq(Cycle) \cup {None}
      <3>1. CASE log_file # None /\ log_file' = log_file \o cpu_log
        BY <3>1 DEF TypeOK
      <3>2. CASE log_file' = log_file
        BY <3>2 DEF TypeOK
      <3> QED
        BY <1>6, <3>1, <3>2 DEF LoggerFlush
    <2> QED
      BY <1>6, <2>1, <2>2, <2>3, NoRegistersType DEF LoggerFlush, TypeOK, machine, disk
  <1>7. ASSUME NEW w1 \in File, NEW w2 \in File, LoggerSave(w1, w2) PROVE TypeOK'
    <2>1. cpu_running' \in BOOLEAN /\ 0 \in 0 .. REGISTERS
      BY <1>7, CpuLogAssumption DEF LoggerSave, TypeOK
    <2>2. Return
      BY <1>7 DEF LoggerSave
    <2> QED
      BY <1>7, <2>1, <2>2, ReturnType, SaveType DEF LoggerSave, TypeOK, machine, log
  <1>8. ASSUME NEW w1 \in File, NEW w2 \in File, LoggerLoad(w1, w2) PROVE TypeOK'
    <2>1. cpu_running' \in BOOLEAN /\ NoRegisters
      BY <1>8 DEF LoggerLoad, TypeOK
    <2>2. Return \/ (alive' = FALSE /\ UNCHANGED <<right_to_left, phase, i>>)
      BY <1>8 DEF LoggerLoad
    <2>3. /\ right_to_left' \in BOOLEAN /\ alive' \in BOOLEAN
          /\ phase' \in {"debug_console_tick", "batch"} /\ i' \in Nat
      BY <2>1, <2>2, ReturnType DEF TypeOK
    <2>4. UNCHANGED <<log, disk>>
      BY <1>8 DEF LoggerLoad
    <2>5. pc' \in Value /\ regs' \in Regs /\ memory' \in Image
      BY <1>8, LoadType
    <2> QED
      BY <2>1, <2>3, <2>4, <2>5, NoRegistersType DEF TypeOK, log, disk
  <1>9. CASE Batch
    <2>1. cpu_logger_cycle
      BY <1>9 DEF Batch
    <2> QED
      BY <1>9, <2>1, BatchType, LoggedType DEF Batch, TypeOK, disk
  <1>10. CASE UNCHANGED vars
    BY <1>10 DEF vars, TypeOK, machine, log, disk
  <1> QED
    BY <1>1, <1>2, <1>3, <1>4, <1>5, <1>6, <1>7, <1>8, <1>9, <1>10 DEF Next, Terminated

\* Machine, iterator, log and files keep their types, whatever was written to a
\* file and whichever file a snapshot is loaded from.
THEOREM TypeCorrect == Spec => []TypeOK
  <1> QED
    BY InitType, NextType, PTL DEF Spec

-----------------------------------------------------------------------------
(* The log *)

LEMMA InitLog == Init => LogInv
  <1> SUFFICES ASSUME Init PROVE LogInv
    OBVIOUS
  <1>1. Len(cpu_log) = 0 /\ Len(cycles) = 0
    BY DEF Init
  <1> QED
    BY <1>1, InitType, CpuLogAssumption
       DEF Init, LogInv, IteratorHome, SameLength, LogFits, LogExact

\* No command of the debugger leaves the iterator half way but `cpu rw`.
LEMMA CommandsGoHome ==
  ASSUME TypeOK, Next, ~Batch, ~Terminated
  PROVE  /\ next' = 0 \/ (rw' = TRUE /\ i' = 0)
         /\ UNCHANGED <<cpu_log, cycles>>
  <1>1. CASE OtherCommand \/ LoggerInit \/ LoggerToggle \/ LoggerFlush
    BY <1>1, StartIsHome
       DEF OtherCommand, LoggerInit, LoggerToggle, LoggerFlush, NoRegisters, log
  <1>2. ASSUME NEW v \in Value, CpuJmp(v)
        PROVE  next' = 0 /\ UNCHANGED <<cpu_log, cycles>>
    BY <1>2, StartIsHome DEF CpuJmp, NoRegisters, log
  <1>3. ASSUME NEW v \in Value, NEW r \in Register, CpuRw(v, r)
        PROVE  rw' = TRUE /\ i' = 0 /\ UNCHANGED <<cpu_log, cycles>>
    BY <1>3 DEF CpuRw, Return, log
  <1>4. ASSUME NEW w1 \in File, NEW w2 \in File, LoggerSave(w1, w2)
        PROVE  next' = 0 /\ UNCHANGED <<cpu_log, cycles>>
    BY <1>4 DEF LoggerSave, log
  <1>5. ASSUME NEW w1 \in File, NEW w2 \in File, LoggerLoad(w1, w2)
        PROVE  next' = 0 /\ UNCHANGED <<cpu_log, cycles>>
    BY <1>5, StartIsHome DEF LoggerLoad, NoRegisters, log
  <1> QED
    BY <1>1, <1>2, <1>3, <1>4, <1>5 DEF Next

LEMMA BatchLog == ASSUME LogInv, Batch 
                 PROVE  IteratorHome' /\ SameLength' /\ LogFits' /\ LogExact'
  <1> USE DEF LogInv
  <1>0. cpu_log \in Seq(Cycle) /\ cycles \in Seq([pc : Value, regs : Regs, rw : BOOLEAN])
    BY DEF TypeOK
  <1>1. alive /\ phase = "batch" /\ cpu_logger_cycle /\ i' = i + 1 /\ UNCHANGED <<enabled, rw>>
        /\ alive' = ~(enabled /\ Len(cpu_log) = MaxLog)
    BY DEF Batch
  <1>2. CASE enabled /\ Len(cpu_log) < MaxLog
    <2> DEFINE C == [pc |-> pc', regs |-> ByOrder(next)]
               H == [pc |-> pc', regs |-> regs', rw |-> rw /\ i = 0]
    <2>1. cpu_log' = Append(cpu_log, C) /\ cycles' = Append(cycles, H) /\ next' = 0
      BY <1>1, <1>2 DEF cpu_logger_cycle
    <2>2. IteratorHome'
      BY <2>1 DEF IteratorHome
    <2>3. ~H.rw => C = [pc |-> H.pc, regs |-> H.regs]
      <3> SUFFICES ASSUME ~(rw /\ i = 0) PROVE ByOrder(next) = regs'
        OBVIOUS
      <3>1. next = 0
        BY <1>1, <1>2 DEF IteratorHome
      <3> QED
        BY <3>1, ByOrderHome, BatchType
    <2> HIDE DEF C, H
    <2>4. Len(cpu_log') = Len(cpu_log) + 1 /\ Len(cycles') = Len(cycles) + 1
      BY <2>1, <1>0
    <2>5. SameLength' /\ LogFits'
      BY <1>0, <1>2, <2>4, CpuLogAssumption DEF SameLength, LogFits
    <2>6. ASSUME NEW k \in 1 .. Len(cpu_log'), ~cycles'[k].rw
          PROVE  cpu_log'[k] = [pc |-> cycles'[k].pc, regs |-> cycles'[k].regs]
      <3>1. CASE k = Len(cpu_log) + 1
        <4>1. cpu_log'[k] = C /\ cycles'[k] = H
          BY <1>0, <2>1, <3>1 DEF SameLength
        <4> QED
          BY <4>1, <2>3, <2>6
      <3>2. CASE k # Len(cpu_log) + 1
        <4>1. k \in 1 .. Len(cpu_log)
          BY <1>0, <2>4, <3>2
        <4>2. cpu_log'[k] = cpu_log[k] /\ cycles'[k] = cycles[k]
          BY <1>0, <2>1, <4>1 DEF SameLength
        <4> QED
          BY <2>6, <4>1, <4>2 DEF LogExact, Recorded
      <3> QED
        BY <3>1, <3>2
    <2>7. LogExact'
      BY <2>6 DEF LogExact, Recorded
    <2> QED
      BY <2>2, <2>5, <2>7
  <1>3. CASE ~(enabled /\ Len(cpu_log) < MaxLog)
    <2>1. UNCHANGED <<cpu_log, cycles, next>>
      BY <1>1, <1>3 DEF cpu_logger_cycle
    <2>2. IteratorHome'
      <3> SUFFICES ASSUME alive', next' # 0 PROVE rw' /\ ~enabled'
        BY DEF IteratorHome
      <3>1. rw /\ (i = 0 \/ ~enabled)
        BY <1>1, <2>1 DEF IteratorHome
      <3>2. ~(enabled /\ Len(cpu_log) = MaxLog)
        BY <1>1
      <3>3. Len(cpu_log) \in Nat
        BY <1>0
      <3> QED
        BY <3>1, <3>2, <3>3, <1>1, <1>3, CpuLogAssumption DEF LogFits
    <2> QED
      BY <2>1, <2>2 DEF SameLength, LogFits, LogExact, Recorded
  <1> QED
    BY <1>2, <1>3

LEMMA NextLog == LogInv /\ [Next]_vars => LogInv'
  <1> SUFFICES ASSUME LogInv, [Next]_vars PROVE LogInv'
    OBVIOUS
  <1>1. TypeOK'
    BY NextType DEF LogInv
  <1>2. CASE Next /\ ~Batch /\ ~Terminated
    BY <1>1, <1>2, CommandsGoHome
       DEF LogInv, IteratorHome, SameLength, LogFits, LogExact, Recorded
  <1>3. CASE Batch
    BY <1>1, <1>3, BatchLog DEF LogInv
  <1>4. CASE UNCHANGED vars
    BY <1>1, <1>4
       DEF vars, log, LogInv, IteratorHome, SameLength, LogFits, LogExact, Recorded
  <1> QED
    BY <1>2, <1>3, <1>4 DEF Terminated

\* A recorded cycle holds the registers in their places, but for the first one
\* after a `cpu rw` of the same turn, whatever the number of registers.
THEOREM LogIsExact == Spec => []LogExact
  <1>1. LogInv => LogExact
    BY DEF LogInv
  <1> QED
    BY <1>1, InitLog, NextLog, PTL DEF Spec

\* The register window has every register in its place but after a `cpu rw` with
\* no recorded cycle behind it, whatever the number of registers.
THEOREM WindowInPlace == Spec => []RegistersInPlace
  <1>1. LogInv => RegistersInPlace
    <2> SUFFICES ASSUME LogInv, alive, rw => enabled /\ i > 0
                 PROVE  Drawn = [l \in 0 .. REGISTERS |-> Line(l)]
      BY DEF RegistersInPlace
    <2>1. next = 0
      BY DEF LogInv, TypeOK, IteratorHome
    <2>2. \A l \in 0 .. REGISTERS : Line(0 + l) = Line(l)
      OBVIOUS
    <2>3. 0 .. REGISTERS - 0 = 0 .. REGISTERS
      BY CpuLogAssumption
    <2> QED
      BY <2>1, <2>2, <2>3 DEF Drawn
  <1> QED
    BY <1>1, InitLog, NextLog, PTL DEF Spec

-----------------------------------------------------------------------------
(* The snapshots *)

LEMMA InitFiles == Init => FileInv
  <1> SUFFICES ASSUME Init PROVE FileInv
    OBVIOUS
  <1>1. \A w1, w2 \in File : saved[<<w1, w2>>] = None
    BY DEF Init
  <1> QED
    BY <1>1, InitType DEF FileInv, FilesHold, Holds

\* Saving gives its own pair of names the machine, and takes it from every pair
\* one of whose files it overwrites.
LEMMA SaveHolds ==
  ASSUME TypeOK, FilesHold, NEW w1 \in File, NEW w2 \in File, LoggerSave(w1, w2)
  PROVE  FilesHold'
  <1> SUFFICES ASSUME NEW u1 \in File, NEW u2 \in File PROVE Holds(u1, u2)'
    BY DEF FilesHold
  <1>1. right_to_left' = right_to_left
    BY DEF LoggerSave, Return
  <1>2. Snapshot(start) = Snapshot(0)
    BY StartIsHome
  <1>3. CASE u1 = w1 /\ u2 = w2 /\ w1 # w2
    <2>1. saved'[<<u1, u2>>] = Snapshot(0)
      BY <1>3 DEF LoggerSave
    <2>2. StateFile(w1, w2) # MemoryFile(w1, w2)
      BY <1>3 DEF StateFile, MemoryFile
    <2>3. StateFile(w1, w2) \in File /\ MemoryFile(w1, w2) \in File
      BY DEF StateFile, MemoryFile
    <2>4. files'[StateFile(w1, w2)] = [kind |-> "state", of |-> Snapshot(0)]
      BY <1>2, <2>2, <2>3 DEF LoggerSave
    <2>5. files'[MemoryFile(w1, w2)] = [kind |-> "memory", of |-> Snapshot(0)]
      BY <1>2, <2>2, <2>3 DEF LoggerSave
    <2>6. StateFile(u1, u2)' = StateFile(w1, w2) /\ MemoryFile(u1, u2)' = MemoryFile(w1, w2)
      BY <1>1, <1>3 DEF StateFile, MemoryFile
    <2> QED
      BY <1>3, <2>1, <2>4, <2>5, <2>6 DEF Holds
  <1>4. CASE ~(u1 = w1 /\ u2 = w2 /\ w1 # w2) /\ {u1, u2} \cap {w1, w2} = {}
    <2>1. saved'[<<u1, u2>>] = saved[<<u1, u2>>]
      BY <1>4 DEF LoggerSave
    <2>2. files'[u1] = files[u1] /\ files'[u2] = files[u2]
      BY <1>4 DEF LoggerSave, StateFile, MemoryFile
    <2>3. Holds(u1, u2)
      BY DEF FilesHold
    <2> QED
      BY <1>1, <2>1, <2>2, <2>3 DEF Holds, StateFile, MemoryFile
  <1>5. CASE ~(u1 = w1 /\ u2 = w2 /\ w1 # w2) /\ {u1, u2} \cap {w1, w2} # {}
    <2>1. saved'[<<u1, u2>>] = None
      BY <1>5 DEF LoggerSave
    <2> QED
      BY <2>1 DEF Holds
  <1> QED
    BY <1>3, <1>4, <1>5

LEMMA NextFiles == FileInv /\ [Next]_vars => FileInv'
  <1> SUFFICES ASSUME FileInv, [Next]_vars PROVE FileInv'
    OBVIOUS
  <1>1. TypeOK'
    BY NextType DEF FileInv
  <1>2. ASSUME NEW w1 \in File, NEW w2 \in File, LoggerSave(w1, w2) PROVE FilesHold'
    BY <1>2, SaveHolds DEF FileInv
  <1>3. UNCHANGED <<right_to_left, files, saved>> => FilesHold'
    <2> SUFFICES ASSUME UNCHANGED <<right_to_left, files, saved>>,
                        NEW w1 \in File, NEW w2 \in File
                 PROVE  Holds(w1, w2)'
      BY DEF FilesHold
    <2>1. Holds(w1, w2)
      BY DEF FileInv, FilesHold
    <2>2. /\ StateFile(w1, w2)' = StateFile(w1, w2)
          /\ MemoryFile(w1, w2)' = MemoryFile(w1, w2)
      BY DEF StateFile, MemoryFile
    <2> QED
      BY <2>1, <2>2 DEF Holds
  <1>4. ASSUME OtherCommand \/ LoggerInit \/ LoggerToggle \/ LoggerFlush
        PROVE  FilesHold'
    BY <1>3, <1>4
       DEF OtherCommand, LoggerInit, LoggerToggle, LoggerFlush, Return, disk
  <1>5. ASSUME NEW v \in Value, CpuJmp(v) \/ \E r \in Register : CpuRw(v, r)
        PROVE  FilesHold'
    BY <1>3, <1>5 DEF CpuJmp, CpuRw, Return, disk
  <1>6. ASSUME NEW w1 \in File, NEW w2 \in File, LoggerLoad(w1, w2) PROVE FilesHold'
    BY <1>3, <1>6 DEF LoggerLoad, Return, disk
  <1>7. ASSUME Batch \/ UNCHANGED vars PROVE FilesHold'
    BY <1>3, <1>7 DEF Batch, vars, disk
  <1> QED
    BY <1>1, <1>2, <1>4, <1>5, <1>6, <1>7 DEF Next, Terminated, FileInv

\* A snapshot loads back as the machine it was saved from, whatever was executed,
\* written, logged and saved to other files in between, for both orders in which
\* the words may be evaluated.
THEOREM SnapshotsLoadBack == Spec => SnapshotRoundTrip
  <1>1. FileInv /\ [Next]_vars =>
          [\A w1, w2 \in File : saved[<<w1, w2>>] # None /\ LoggerLoad(w1, w2)
             => [pc |-> pc, regs |-> regs, memory |-> memory]' = saved[<<w1, w2>>]]_vars
    <2> SUFFICES ASSUME FileInv, NEW w1 \in File, NEW w2 \in File,
                        LoggerLoad(w1, w2), saved[<<w1, w2>>] # None
                 PROVE  [pc |-> pc, regs |-> regs, memory |-> memory]' = saved[<<w1, w2>>]
      OBVIOUS
    <2>1. /\ files[StateFile(w1, w2)] = [kind |-> "state", of |-> saved[<<w1, w2>>]]
          /\ files[MemoryFile(w1, w2)] = [kind |-> "memory", of |-> saved[<<w1, w2>>]]
      BY DEF FileInv, FilesHold, Holds
    <2>2. saved[<<w1, w2>>] \in Machine
      BY DEF FileInv, TypeOK
    <2>3. pc' = saved[<<w1, w2>>].pc /\ regs' = saved[<<w1, w2>>].regs
      BY <2>1 DEF LoggerLoad, LoadFile
    <2>4. memory' = saved[<<w1, w2>>].memory
      BY <2>1 DEF LoggerLoad, LoadFile
    <2> QED
      BY <2>2, <2>3, <2>4 DEF Machine
  <1> QED
    BY <1>1, InitFiles, NextFiles, PTL DEF Spec, SnapshotRoundTrip
=============================================================================
