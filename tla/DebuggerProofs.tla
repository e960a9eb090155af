--------------------------- MODULE DebuggerProofs ---------------------------
(***************************************************************************)
(* Proofs about Debugger, for every program, every size of the table, of   *)
(* the memory and of a batch.                                              *)
(***************************************************************************)
EXTENDS Debugger, SequenceTheorems, FiniteSetTheorems, TLAPS

\* The CPU runs in a batch, and two breakpoints that are alive have different
\* addresses unless the user added them so.
BatchRuns == phase = "batch" => cpu_running

Distinct ==
  ~AllowDuplicates =>
    \A j, k \in Occupied :
      breakpoints[j].address = breakpoints[k].address => j = k

IInv == TypeOK /\ BatchRuns /\ Distinct /\ NothingHidden /\ SlotsReused
-----------------------------------------------------------------------------
(* The table *)

\* Only break add, rm and pop change the table: what they leave is a table.
LEMMA PutTable ==
  ASSUME breakpoints \in Seq(Slot), NEW b \in Breakpoint, Put(b)
  PROVE  /\ breakpoints' \in Seq(Slot)
         /\ \E k \in 1 .. Len(breakpoints) + 1 :
              /\ \/ k \in Free /\ Len(breakpoints') = Len(breakpoints)
                 \/ /\ Free = {} /\ k = Len(breakpoints) + 1
                    /\ Len(breakpoints') = Len(breakpoints) + 1
              /\ \A j \in Free : k <= j
              /\ breakpoints'[k].address = b.address /\ breakpoints'[k].type = b.type
              /\ breakpoints'[k].occupied
              /\ \A j \in Slots : j # k => breakpoints'[j] = breakpoints[j]
<1> DEFINE slot == SlotOf(b, TRUE)
<1>1. slot \in Slot /\ Len(breakpoints) \in Nat /\ Free \subseteq Slots
    BY DEF Slot, SlotOf, Breakpoint, Free
<1>2. slot.address = b.address /\ slot.type = b.type /\ slot.occupied
    BY DEF SlotOf
<1> HIDE DEF slot
<1>3. CASE \E k \in First(Free) : breakpoints' = [breakpoints EXCEPT ![k] = slot]
  <2>1. PICK k \in First(Free) : breakpoints' = [breakpoints EXCEPT ![k] = slot]
    BY <1>3
  <2>2. k \in Free /\ k \in 1 .. Len(breakpoints) /\ \A j \in Free : k <= j
    BY <1>1 DEF First, Slots
  <2>3. /\ breakpoints' \in Seq(Slot) /\ Len(breakpoints') = Len(breakpoints)
        /\ \A j \in 1 .. Len(breakpoints) :
             breakpoints'[j] = IF j = k THEN slot ELSE breakpoints[j]
    BY <1>1, <2>1, <2>2, ExceptSeq
  <2> QED
    <3>1. /\ k \in 1 .. Len(breakpoints) + 1 /\ breakpoints'[k] = slot
          /\ \A j \in Slots : j # k => breakpoints'[j] = breakpoints[j]
      BY <1>1, <2>2, <2>3 DEF Slots
    <3> QED
      BY <1>2, <2>2, <2>3, <3>1
<1>4. CASE Free = {} /\ breakpoints' = Append(breakpoints, slot)
  <2>1. /\ breakpoints' \in Seq(Slot) /\ Len(breakpoints') = Len(breakpoints) + 1
        /\ breakpoints'[Len(breakpoints) + 1] = slot
        /\ \A j \in 1 .. Len(breakpoints) : breakpoints'[j] = breakpoints[j]
    BY <1>1, <1>4, AppendProperties
  <2> QED
    BY <1>1, <1>2, <1>4, <2>1 DEF Slots
<1> QED
    BY <1>3, <1>4 DEF Put, slot

LEMMA RmTable ==
  ASSUME breakpoints \in Seq(Slot), NEW a, Rm(a)
  PROVE  /\ breakpoints' \in Seq(Slot) /\ Len(breakpoints') = Len(breakpoints)
         /\ \A j \in Slots : /\ breakpoints'[j].address = breakpoints[j].address
                             /\ breakpoints'[j].type = breakpoints[j].type
         /\ \A j \in Slots :
              breakpoints'[j].occupied <=> breakpoints[j].occupied /\ j \notin Match(a)
<1>1. CASE \E k \in Match(a) :
        breakpoints' = [breakpoints EXCEPT ![k] = SlotOf(breakpoints[k], FALSE)]
  <2>1. PICK k \in Match(a) :
        breakpoints' = [breakpoints EXCEPT ![k] = SlotOf(breakpoints[k], FALSE)]
    BY <1>1
  <2>2. k \in Slots /\ Match(a) = {k}
    <3>1. \A j \in Match(a) : j \in Slots /\ k \in Slots /\ j <= k /\ k <= j
      BY DEF Match, First
    <3> QED
      BY <3>1 DEF Slots
  <2> DEFINE slot == SlotOf(breakpoints[k], FALSE)
  <2>3. breakpoints[k] \in Slot /\ slot \in Slot
    BY <2>2, ElementOfSeq DEF Slot, Slots, SlotOf
  <2>4. breakpoints' = [breakpoints EXCEPT ![k] = slot]
    BY <2>1
  <2>5. /\ breakpoints' \in Seq(Slot) /\ Len(breakpoints') = Len(breakpoints)
        /\ \A j \in 1 .. Len(breakpoints) :
             breakpoints'[j] = IF j = k THEN slot ELSE breakpoints[j]
    <3> HIDE DEF slot
    <3> QED
      BY <2>2, <2>3, <2>4, ExceptSeq DEF Slots
  <2>6. /\ slot.address = breakpoints[k].address /\ slot.type = breakpoints[k].type
        /\ ~slot.occupied
    BY DEF SlotOf
  <2> QED
    BY <2>2, <2>5, <2>6 DEF Slots, SlotOf
<1>2. CASE Match(a) = {} /\ UNCHANGED breakpoints
    BY <1>2
<1> QED
    BY <1>1, <1>2 DEF Rm

\* What break pop leaves.
LEMMA PoppedTable ==
  ASSUME breakpoints \in Seq(Slot), NEW n \in Nat, n <= Len(breakpoints)
  PROVE  /\ Popped(n) \in Seq(Slot) /\ Len(Popped(n)) = Len(breakpoints) - n
         /\ \A j \in 1 .. Len(breakpoints) - n : Popped(n)[j] = breakpoints[j]
<1> DEFINE m == Len(breakpoints) - n
<1>1. m \in Nat /\ \A j \in 1 .. m : breakpoints[j] \in Slot
    BY ElementOfSeq
<1>2. /\ SubSeq(breakpoints, 1, m) \in Seq(Slot)
      /\ Len(SubSeq(breakpoints, 1, m)) = m
      /\ \A k \in 1 .. m : SubSeq(breakpoints, 1, m)[k] = breakpoints[k]
  <2> HIDE DEF m
  <2>1. /\ SubSeq(breakpoints, 1, m) \in Seq(Slot)
        /\ Len(SubSeq(breakpoints, 1, m)) = IF 1 <= m THEN m - 1 + 1 ELSE 0
        /\ \A k \in 1 .. m - 1 + 1 : SubSeq(breakpoints, 1, m)[k] = breakpoints[1 + k - 1]
    BY <1>1, SubSeqProperties
  <2> QED
    BY <1>1, <2>1
<1> QED
    BY <1>2 DEF Popped
-----------------------------------------------------------------------------
(* Type correctness *)

LEMMA StepType ==
  ASSUME TypeOK, step
  PROVE  /\ pc' \in Address /\ pc' \in Word /\ mar' \in Word
         /\ image' \in [Address -> Instruction]
<1> USE DebuggerAssumption DEF TypeOK
<1>1. \A a \in Int : a % RAM_SIZE \in Address /\ a % RAM_SIZE \in Word
    BY DEF Address, Word
<1>2. ir \in Instruction /\ ir.target \in Word
  <2>1. pc % RAM_SIZE \in Address
    <3>1. pc \in Int
      BY DEF Word
    <3> QED
      BY ONLY <1>1, <3>1
  <2>2. image[pc % RAM_SIZE] \in Instruction
    BY <2>1
  <2> QED
    BY <2>2 DEF ir, Instruction
<1>3. \E a \in {ir.target, pc + 1, pc} : pc' = a % RAM_SIZE
    BY DEF step, Masked
<1>4. ir.target \in Int /\ pc + 1 \in Int /\ pc \in Int
    BY <1>2 DEF Word
<1>5. pc' \in Address /\ pc' \in Word
    BY <1>1, <1>3, <1>4
<1> QED
    BY <1>2, <1>5 DEF step

LEMMA EnterBatchType ==
  ASSUME EnterBatch
  PROVE  phase' \in {"batch", "command"} /\ i' = 0 /\ (phase' = "batch" => cpu_running')
BY DEF EnterBatch

LEMMA InitIInv == Init => IInv
<1> SUFFICES ASSUME Init PROVE IInv
    OBVIOUS
<1> USE DebuggerAssumption
<1>1. 0 \in Word /\ Programs \subseteq [Address -> Instruction] /\ << >> \in Seq(Slot)
    BY DEF Word
<1>2. TypeOK
  <2>1. image \in [Address -> Instruction]
    BY <1>1 DEF Init
  <2> HIDE DebuggerAssumption
  <2> QED
    BY <1>1, <2>1 DEF Init, TypeOK, Phases
<1>3. breakpoints = << >> /\ Len(breakpoints) = 0 /\ high = 0 /\ phase = "command"
    BY DEF Init
<1>4. Slots = {} /\ Occupied = {}
    BY <1>3 DEF Slots, Occupied
<1> QED
    BY <1>2, <1>3, <1>4 DEF IInv, BatchRuns, Distinct, NothingHidden, SlotsReused

\* The table, the flag and the stage that a step of Next leaves are well formed.
LEMMA StepTypeOK == TypeOK /\ [Next]_vars => TypeOK'
<1> SUFFICES ASSUME TypeOK, [Next]_vars PROVE TypeOK'
    OBVIOUS
<1> USE DebuggerAssumption
<1>0. TypeOK
    OBVIOUS
<1>1. CASE NoCommand
    BY <1>0, <1>1, EnterBatchType DEF TypeOK, NoCommand, cpu, Phases
<1>2. ASSUME NEW b \in Breakpoint, Add(b) PROVE TypeOK'
  <2>1. breakpoints' \in Seq(Slot)
    BY <1>0, <1>2, PutTable DEF TypeOK, Add
  <2>2. high' \in Nat
    <3>1. IsFiniteSet(1 .. Len(breakpoints'))
      BY <2>1, FS_Interval
    <3>2. Occupied' \subseteq 1 .. Len(breakpoints')
      BY DEF Occupied, Slots
    <3>3. Cardinality(Occupied') \in Nat
      BY <3>1, <3>2, FS_Subset, FS_CardinalityType
    <3> QED
      BY <1>0, <1>2, <3>3 DEF TypeOK, Add
  <2> QED
    BY <1>0, <1>2, <2>1, <2>2, EnterBatchType DEF TypeOK, Add, cpu, Phases
<1>3. ASSUME NEW a \in Word, Rm(a) PROVE TypeOK'
  <2>1. breakpoints' \in Seq(Slot)
    BY <1>0, <1>3, RmTable DEF TypeOK
  <2> QED
    BY <1>0, <1>3, <2>1, EnterBatchType DEF TypeOK, Rm, cpu, Phases
<1>4. ASSUME NEW n \in Nat, Pop(n) PROVE TypeOK'
  <2>1. breakpoints' \in Seq(Slot)
    BY <1>0, <1>4, PoppedTable DEF TypeOK, Pop
  <2>2. alive' \in BOOLEAN /\ phase' \in Phases /\ i' \in Nat
        /\ (phase' = "break_step" => i' > 0) /\ (phase' = "batch" /\ i' > 0 => pc' \in Address)
    <3>1. CASE EnterBatch /\ UNCHANGED alive
      BY <1>0, <3>1, EnterBatchType DEF TypeOK, Phases
    <3>2. CASE alive' = FALSE /\ UNCHANGED <<phase, i>>
      BY <1>0, <1>4, <3>2 DEF TypeOK, Pop, cpu
    <3> QED
      BY <1>4, <3>1, <3>2 DEF Pop
  <2> QED
    BY <1>0, <1>4, <2>1, <2>2 DEF TypeOK, Pop, cpu
<1>5. CASE PopAll
    BY <1>0, <1>5, EnterBatchType DEF TypeOK, PopAll, cpu, Phases
<1>6. ASSUME NEW n \in Nat, StartStep(n) PROVE TypeOK'
  <2>1. phase' \in Phases /\ i' \in Nat /\ (phase' = "break_step" => i' > 0)
        /\ ~(phase' = "batch" /\ i' > 0)
    BY <1>6, EnterBatchType DEF StartStep, Phases
  <2> QED
    BY <1>0, <1>6, <2>1 DEF TypeOK, StartStep, cpu
<1>7. CASE BreakStep
  <2>1. phase' \in Phases /\ i' \in Nat /\ (phase' = "break_step" => i' > 0)
    BY <1>0, <1>7, EnterBatchType DEF BreakStep, Phases, TypeOK
  <2>2. cpu_running' \in BOOLEAN
    BY <1>7 DEF BreakStep, RunsOn
  <2> QED
    BY <1>0, <1>7, <2>1, <2>2, StepType DEF TypeOK, BreakStep
<1>8. CASE BreakContinue
    BY <1>0, <1>8, StepType, EnterBatchType DEF TypeOK, BreakContinue, Phases
<1>9. ASSUME NEW a \in Word, Jump(a) PROVE TypeOK'
    BY <1>0, <1>9, EnterBatchType DEF TypeOK, Jump, Phases
<1>10. CASE LoadSnapshot
    BY <1>0, <1>10, EnterBatchType DEF TypeOK, LoadSnapshot, Phases
<1>11. CASE Exit
    BY <1>0, <1>11 DEF TypeOK, Exit, control, cpu
<1>12. CASE Batch
  <2>1. phase' \in {"batch", "command"} /\ i' \in Nat /\ cpu_running' \in BOOLEAN
    BY <1>0, <1>12 DEF TypeOK, Batch, RunsOn
  <2> QED
    BY <1>0, <1>12, <2>1, StepType DEF TypeOK, Batch, Phases
<1>13. CASE Terminated \/ UNCHANGED vars
    BY <1>0, <1>13 DEF Terminated, TypeOK, vars, control, cpu
<1>14. 0 .. MaxArg \subseteq Nat
    OBVIOUS
<1> QED
    BY <1>1, <1>2, <1>3, <1>4, <1>5, <1>6, <1>7, <1>8, <1>9, <1>10, <1>11, <1>12,
       <1>13, <1>14 DEF Next
-----------------------------------------------------------------------------
(* The safety invariants *)

\* A step that leaves the table alone.
LEMMA SameTable ==
  ASSUME IInv, UNCHANGED <<breakpoints, high>>, TypeOK',
         phase' = "batch" => cpu_running'
  PROVE  IInv'
BY DEF IInv, BatchRuns, Distinct, NothingHidden, SlotsReused, Occupied, Slots

LEMMA AddIInv ==
  ASSUME IInv, TypeOK', NEW b \in Breakpoint, Add(b)
  PROVE  /\ IInv'
         /\ Live' = Live \cup {b}
<1> USE DEF IInv
<1>1. PICK k \in 1 .. Len(breakpoints) + 1 :
        /\ \/ k \in Free /\ Len(breakpoints') = Len(breakpoints)
           \/ /\ Free = {} /\ k = Len(breakpoints) + 1
              /\ Len(breakpoints') = Len(breakpoints) + 1
        /\ \A j \in Free : k <= j
        /\ breakpoints'[k].address = b.address /\ breakpoints'[k].type = b.type
        /\ breakpoints'[k].occupied
        /\ \A j \in Slots : j # k => breakpoints'[j] = breakpoints[j]
    BY PutTable DEF TypeOK, Add
<1>2. Len(breakpoints) \in Nat /\ Len(breakpoints') \in Nat
    BY DEF TypeOK
<1>3. k \in Slots' /\ Slots' = Slots \cup {k} /\ k \notin Occupied
    BY <1>1, <1>2 DEF Slots, Free, Occupied
<1>4. Occupied' = Occupied \cup {k}
    BY <1>1, <1>3 DEF Occupied
<1>5. \A j \in Occupied : j # k /\ breakpoints'[j] = breakpoints[j]
    BY <1>1, <1>3 DEF Occupied
<1>6. BatchRuns'
    BY EnterBatchType DEF Add, BatchRuns
<1>7. ~AllowDuplicates => \A j \in Occupied : breakpoints[j].address # b.address
    BY DEF Add
<1>8. Distinct'
    BY <1>1, <1>4, <1>5, <1>7 DEF Distinct
<1>9. NothingHidden'
  <2> SUFFICES ASSUME ~AllowDuplicates, NEW m \in Occupied', NEW j \in Slots', j < m
               PROVE  breakpoints'[j].address # breakpoints'[m].address
      BY DEF NothingHidden
  <2>1. CASE j = k
      BY <1>1, <1>4, <1>5, <1>7, <2>1 DEF Occupied, Slots
  <2>2. CASE j # k /\ m = k
    <3>1. j \in Slots /\ j \notin Free
      BY <1>1, <1>2, <1>3, <2>2 DEF Slots, Free
    <3>2. j \in Occupied
      BY <3>1 DEF Free
    <3> QED
      BY <1>1, <1>5, <1>7, <2>2, <3>2
  <2>3. CASE j # k /\ m # k
    <3>1. j \in Slots /\ m \in Occupied
      BY <1>3, <1>4, <2>3
    <3> QED
      BY <1>1, <1>5, <2>3, <3>1 DEF NothingHidden
  <2> QED
    BY <2>1, <2>2, <2>3
<1>10. SlotsReused'
  <2>1. IsFiniteSet(Slots') /\ Cardinality(Slots') = Len(breakpoints')
    <3>1. \A n \in Nat : IsFiniteSet(1 .. n) /\ Cardinality(1 .. n) = n
      BY FS_Interval
    <3> QED
      BY <1>2, <3>1 DEF Slots
  <2>2. Occupied' \subseteq Slots'
    BY DEF Occupied
  <2>3. Cardinality(Occupied') \in Nat
    BY <2>1, <2>2, FS_Subset, FS_CardinalityType
  <2>4. high \in Nat /\ high' \in Nat /\ high <= high' /\ Cardinality(Occupied') <= high'
    BY <2>3 DEF Add, TypeOK
  <2>5. CASE Len(breakpoints') = Len(breakpoints)
    BY <1>2, <2>4, <2>5 DEF SlotsReused
  <2>6. CASE Free = {} /\ k = Len(breakpoints) + 1
    <3>1. Occupied' = Slots'
      BY <1>3, <1>4, <2>6 DEF Free, Occupied
    <3> QED
      BY <1>2, <2>1, <2>4, <3>1 DEF SlotsReused
  <2> QED
    BY <1>1, <2>5, <2>6
<1>11. Live' = Live \cup {b}
  <2>1. At(k)' = b
    BY <1>1 DEF At, Breakpoint
  <2>2. \A j \in Occupied : At(j)' = At(j)
    BY <1>5 DEF At
  <2> QED
    BY <1>4, <2>1, <2>2 DEF Live
<1> QED
    BY <1>6, <1>8, <1>9, <1>10, <1>11

LEMMA RmIInv ==
  ASSUME IInv, TypeOK', NEW a \in Word, Rm(a)
  PROVE  /\ IInv'
         /\ ~AllowDuplicates => Live' = {b \in Live : b.address # a}
<1> USE DEF IInv
<1>1. /\ Len(breakpoints') = Len(breakpoints)
      /\ \A j \in Slots : /\ breakpoints'[j].address = breakpoints[j].address
                          /\ breakpoints'[j].type = breakpoints[j].type
      /\ \A j \in Slots :
           breakpoints'[j].occupied <=> breakpoints[j].occupied /\ j \notin Match(a)
    BY RmTable DEF TypeOK
<1>2. Slots' = Slots /\ Occupied' = Occupied \ Match(a) /\ Occupied' \subseteq Occupied
    BY <1>1 DEF Slots, Occupied
<1>3. \A j \in Slots : At(j)' = At(j)
    BY <1>1 DEF At
<1>4. Occupied \subseteq Slots
    BY DEF Occupied
<1>5. BatchRuns' /\ high' = high
    BY EnterBatchType DEF Rm, BatchRuns
<1>6. Distinct' /\ NothingHidden' /\ SlotsReused'
    BY <1>1, <1>2, <1>4, <1>5 DEF Distinct, NothingHidden, SlotsReused
<1>7. ASSUME ~AllowDuplicates PROVE Live' = {b \in Live : b.address # a}
  <2>1. \A j \in Match(a) : breakpoints[j].address = a
    BY DEF Match, First
  <2>2. \A j \in Occupied : breakpoints[j].address = a => j \in Match(a)
    <3> SUFFICES ASSUME NEW j \in Occupied, breakpoints[j].address = a,
                        NEW m \in Slots, breakpoints[m].address = a
                 PROVE  j <= m
        BY <1>4 DEF Match, First
    <3>1. ~(m < j)
      BY <1>7 DEF NothingHidden
    <3> QED
      BY <1>4, <3>1 DEF Slots
  <2>3. Occupied' = {j \in Occupied : breakpoints[j].address # a}
    BY <1>2, <2>1, <2>2
  <2>4. \A j \in Occupied : At(j).address = breakpoints[j].address
    BY DEF At
  <2> QED
    BY <1>2, <1>3, <1>4, <2>3, <2>4 DEF Live
<1> QED
    BY <1>5, <1>6, <1>7

LEMMA PopIInv ==
  ASSUME IInv, TypeOK', PopAll \/ \E n \in Nat : Pop(n)
  PROVE  IInv'
<1> USE DEF IInv
<1>1. /\ Len(breakpoints') <= Len(breakpoints) /\ Len(breakpoints') \in Nat
      /\ \A j \in 1 .. Len(breakpoints') : breakpoints'[j] = breakpoints[j]
  <2>1. CASE breakpoints' = << >>
    BY <2>1 DEF TypeOK
  <2>2. ASSUME NEW n \in Nat, n <= Len(breakpoints), breakpoints' = Popped(n)
        PROVE  <1>1!:
    <3>1. /\ Len(Popped(n)) = Len(breakpoints) - n
          /\ \A j \in 1 .. Len(breakpoints) - n : Popped(n)[j] = breakpoints[j]
      BY <2>2, PoppedTable DEF TypeOK
    <3>2. Len(breakpoints) \in Nat
      BY DEF TypeOK
    <3> QED
      BY <2>2, <3>1, <3>2
  <2> QED
    BY <2>1, <2>2 DEF Pop, PopAll
<1>2. Slots' \subseteq Slots /\ Occupied' \subseteq Occupied
      /\ \A j \in Slots' : breakpoints'[j] = breakpoints[j]
    BY <1>1 DEF Slots, Occupied, TypeOK
<1>3. high' = high /\ high \in Nat /\ Len(breakpoints) \in Nat
    BY DEF Pop, PopAll, TypeOK
<1>4. BatchRuns'
    BY EnterBatchType DEF Pop, PopAll, BatchRuns, Command
<1>5. Occupied' \subseteq Slots'
    BY DEF Occupied
<1> QED
    BY <1>1, <1>2, <1>3, <1>4, <1>5 DEF Distinct, NothingHidden, SlotsReused

LEMMA StepIInv == IInv /\ [Next]_vars => IInv'
<1> SUFFICES ASSUME IInv, [Next]_vars PROVE IInv'
    OBVIOUS
<1>1. TypeOK'
    BY StepTypeOK DEF IInv
<1>2. ASSUME NEW b \in Breakpoint, Add(b) PROVE IInv'
    BY <1>1, <1>2, AddIInv
<1>3. ASSUME NEW a \in Word, Rm(a) PROVE IInv'
    BY <1>1, <1>3, RmIInv
<1>4. CASE PopAll \/ \E n \in Nat : Pop(n)
    BY <1>1, <1>4, PopIInv
<1>5. CASE NoCommand \/ BreakStep \/ BreakContinue \/ LoadSnapshot \/ Batch
    BY <1>1, <1>5, SameTable, EnterBatchType
    DEF NoCommand, BreakStep, BreakContinue, LoadSnapshot, Batch, IInv, BatchRuns
<1>6. ASSUME NEW a \in Word, Jump(a) PROVE IInv'
    BY <1>1, <1>6, SameTable, EnterBatchType DEF Jump
<1>7. ASSUME NEW n \in Nat, StartStep(n) PROVE IInv'
    BY <1>1, <1>7, SameTable, EnterBatchType DEF StartStep
<1>8. CASE Exit \/ Terminated \/ UNCHANGED vars
    BY <1>1, <1>8, SameTable DEF Exit, Terminated, vars, control, IInv, BatchRuns
<1>9. 0 .. MaxArg \subseteq Nat
    BY DebuggerAssumption
<1> QED
    BY <1>2, <1>3, <1>4, <1>5, <1>6, <1>7, <1>8, <1>9 DEF Next

LEMMA Invariance == Spec => []IInv
BY InitIInv, StepIInv, PTL DEF Spec
-----------------------------------------------------------------------------
\* Type correctness: in every reachable state every variable has its type.
THEOREM TypeCorrect == Spec => []TypeOK
<1>1. IInv => TypeOK
    BY DEF IInv
<1> QED
    BY <1>1, Invariance, PTL

\* `break rm` always finds a live breakpoint before a free slot with the same
\* address, if the user adds no two at one address (breakpoint.c:42-99).
THEOREM NothingIsHidden == Spec => []NothingHidden
<1>1. IInv => NothingHidden
    BY DEF IInv
<1> QED
    BY <1>1, Invariance, PTL

\* Adding and removing breakpoints for ever does not grow the table
\* (breakpoint.c:58-66).
THEOREM SlotsAreReused == Spec => []SlotsReused
<1>1. IInv => SlotsReused
    BY DEF IInv
<1> QED
    BY <1>1, Invariance, PTL

\* `break rm` removes what it says and nothing else (breakpoint.c:90-99).
THEOREM RmIsExact == ASSUME ~AllowDuplicates PROVE Spec => RmExact
<1>1. IInv /\ [Next]_vars
        => [\A a \in Word : Rm(a) => Live' = {b \in Live : b.address # a}]_vars
    BY StepTypeOK, RmIInv DEF IInv
<1> QED
    BY <1>1, Invariance, PTL DEF Spec, RmExact

\* `break <type> <address>` adds a breakpoint and replaces none
\* (breakpoint.c:56-66).
THEOREM AddIsExact == Spec => AddExact
<1>1. IInv /\ [Next]_vars
        => [\A b \in Breakpoint : Add(b) => Live' = Live \cup {b}]_vars
    BY StepTypeOK, AddIInv DEF IInv
<1> QED
    BY <1>1, Invariance, PTL DEF Spec, AddExact

\* A breakpoint hits exactly when one of the live ones is at pc or at mar.
LEMMA HitsAreLive == ASSUME TypeOK PROVE Hits # {} <=> AtBreakpoint
<1>1. \A k \in Occupied : /\ At(k) \in Live
                          /\ At(k).type = breakpoints[k].type
                          /\ At(k).address = breakpoints[k].address
    BY DEF At, Live
<1>2. \A b \in Live : \E k \in Occupied : b = At(k)
    BY DEF Live
<1> QED
    BY <1>1, <1>2 DEF Hits, AtBreakpoint

\* Only a live breakpoint or an EBREAK stops the CPU (breakpoint.c:23-40).
THEOREM StopsHaveReasons == Spec => NoSpuriousStop
<1>1. IInv /\ [Next]_vars
        => [cpu_running /\ ~cpu_running' => AtBreakpoint \/ ir.op = "ebreak"]_vars
  <2> SUFFICES ASSUME IInv, Next, cpu_running, ~cpu_running'
               PROVE  AtBreakpoint \/ ir.op = "ebreak"
      BY DEF vars, control
  <2>1. BreakStep \/ Batch
    BY DEF Next, NoCommand, Add, Rm, Pop, PopAll, StartStep, BreakContinue, Jump,
           LoadSnapshot, Exit, Terminated, vars, control
  <2> QED
    BY <2>1, HitsAreLive DEF BreakStep, Batch, RunsOn, IInv
<1> QED
    BY <1>1, Invariance, PTL DEF Spec, NoSpuriousStop

\* A hit ends the batch, and only `break continue` starts the CPU again
\* (main.c:70-76, breakpoint.c:23-40, 120-123).
THEOREM HitsEndBatches == Spec => HitEndsBatch
<1>1. IInv /\ [Next]_vars
        => [/\ phase = "batch" /\ AtBreakpoint => phase' = "command" /\ ~cpu_running'
            /\ ~cpu_running /\ cpu_running' => BreakContinue]_vars
  <2> SUFFICES ASSUME IInv, Next, vars' # vars
               PROVE  /\ phase = "batch" /\ AtBreakpoint
                           => phase' = "command" /\ ~cpu_running'
                      /\ ~cpu_running /\ cpu_running' => BreakContinue
      OBVIOUS
  <2>1. ASSUME phase = "batch", AtBreakpoint PROVE phase' = "command" /\ ~cpu_running'
    <3>1. Batch
      BY <2>1 DEF Next, NoCommand, Add, Rm, Pop, PopAll, StartStep, BreakStep,
                  BreakContinue, Jump, LoadSnapshot, Exit, Command, Terminated
    <3> QED
      BY <2>1, <3>1, HitsAreLive DEF Batch, RunsOn, IInv
  <2>2. ASSUME ~cpu_running, cpu_running' PROVE BreakContinue
    BY <2>2 DEF Next, NoCommand, Add, Rm, Pop, PopAll, StartStep, BreakStep, Jump,
                LoadSnapshot, Exit, Batch, RunsOn, Terminated, vars, control
  <2> QED
    BY <2>1, <2>2
<1> QED
    BY <1>1, Invariance, PTL DEF Spec, HitEndsBatch
=============================================================================
