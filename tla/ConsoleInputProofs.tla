------------------------- MODULE ConsoleInputProofs -------------------------
(***************************************************************************)
(* Proofs about ConsoleInput, for every set of ttys, every size of the     *)
(* command buffer and every bound.  KeysRouted, LatestKeyKept and          *)
(* NoPhantomKeys are not inductive: they need to know which stages of the  *)
(* main loop can find a key that nobody has taken (PendingOK), and what    *)
(* the latch of a tty can hold (LatchOK).                                  *)
(***************************************************************************)
EXTENDS ConsoleInput, SequenceTheorems, TLAPS

DBG == FOCUSED_WINDOW_DBG_CONSOLE

\* A key that a window will take is the last one typed into it, and is taken
\* before the stage of that window is over: console_tick never finds one.
PendingOK ==
  \A w \in Consumers : Pending(w) =>
    /\ ch = <<w, typed[w]>>
    /\ typed[w] > 0
    /\ w = DBG => phase = "debug_console_tick"
    /\ w # DBG => phase \notin {"batch", "console_tick"}

\* A key on its way to the command line is younger than the keys in it.
LineOK ==
  Pending(DBG) => \A k \in 1 .. Len(buf) : buf[k][2] < typed[DBG]

\* The latch of a tty holds a key of that tty once anything depends on it, and
\* none older than the last one read.
Latched(t) ==
  /\ user_ascii[t] \in {NUL} \cup ({t} \X (1 .. typed[t]))
  /\ user_ascii[t] = NUL =>
       ~user_ready[t] /\ t \notin reading /\ delivered[t] = << >>
  /\ delivered[t] # << >> => Last(delivered[t])[2] <= user_ascii[t][2]

\* All that is claimed of one tty.
TtyOK(t) == Latched(t) /\ ReadInOrder(t) /\ LastKept(t) /\ Accounted(t)

IInv == /\ TypeOK /\ PendingOK /\ LineOK /\ LineInOrder
        /\ \A t \in Ttys : TtyOK(t)
-----------------------------------------------------------------------------
LEMMA InitTypeOK == Init => TypeOK
BY ConsoleAssumption
DEF Init, TypeOK, Phases, Windows, FOCUSED_WINDOW_TTY, FOCUSED_WINDOW_MAX, Key

\* What the line editor's backspace leaves.
LEMMA FrontProperties ==
  ASSUME NEW S, NEW s \in Seq(S), s # << >>
  PROVE  /\ Front(s) \in Seq(S)
         /\ Len(Front(s)) = Len(s) - 1
         /\ \A k \in 1 .. Len(s) - 1 : Front(s)[k] = s[k]
<1> DEFINE n == Len(s) - 1
<1>1. n \in Nat
    BY EmptySeq
<1>2. \A k \in 1 .. n : s[k] \in S
    BY <1>1, ElementOfSeq
<1>3. /\ SubSeq(s, 1, n) \in Seq(S)
      /\ Len(SubSeq(s, 1, n)) = n
      /\ \A k \in 1 .. n : SubSeq(s, 1, n)[k] = s[k]
  <2> HIDE DEF n
  <2>1. /\ SubSeq(s, 1, n) \in Seq(S)
        /\ Len(SubSeq(s, 1, n)) = IF 1 <= n THEN n - 1 + 1 ELSE 0
        /\ \A k \in 1 .. n - 1 + 1 : SubSeq(s, 1, n)[k] = s[1 + k - 1]
    BY <1>1, <1>2, SubSeqProperties
  <2> QED
    BY <1>1, <2>1
<1> QED
    BY <1>3 DEF Front

\* What one guest instruction does to the state the guest can touch.
LEMMA InstructionType ==
  ASSUME TypeOK, Instruction
  PROVE  /\ user_ready' \in [Ttys -> BOOLEAN]
         /\ reading' \in SUBSET Ttys
         /\ delivered' \in [Ttys -> Seq(Key \cup {ERR, NUL})]
<1> DEFINE Typed == /\ user_ready' \in [Ttys -> BOOLEAN]
                    /\ reading' \in SUBSET Ttys
                    /\ delivered' \in [Ttys -> Seq(Key \cup {ERR, NUL})]
<1>1. CASE UNCHANGED guest
    BY <1>1 DEF TypeOK, guest
<1>2. ASSUME NEW t \in Ttys, Poll(t) PROVE Typed
    BY <1>2 DEF TypeOK, Poll, ReadyAfterLoad
<1>3. ASSUME NEW t \in Ttys, ReadAscii(t) PROVE Typed
  <2>1. Append(delivered[t], user_ascii[t]) \in Seq(Key \cup {ERR, NUL})
    BY DEF TypeOK
  <2> QED
    BY <1>3, <2>1 DEF TypeOK, ReadAscii
<1> QED
    BY <1>1, <1>2, <1>3 DEF Instruction, Load

LEMMA StepTypeOK == TypeOK /\ [Next]_vars => TypeOK'
<1> SUFFICES ASSUME TypeOK, [Next]_vars PROVE TypeOK'
    OBVIOUS
<1> USE ConsoleAssumption DEF TypeOK
<1>1. CASE console_tick
  <2>1. NoKey \/ PressKey \/ CtrlW
    BY <1>1 DEF console_tick
  <2>2. current_focused_window' \in Windows
    <3>1. CASE CtrlW
      BY <3>1 DEF CtrlW, NextFocus, Windows, FOCUSED_WINDOW_MAX
    <3> QED
      BY <2>1, <3>1 DEF NoKey, PressKey
  <2>3. ch' \in Key \cup {ERR, NUL} /\ typed' \in [Windows -> Nat]
    <3>1. CASE NoKey \/ CtrlW
      BY <3>1 DEF NoKey, CtrlW
    <3>2. CASE PressKey
      BY <3>2 DEF PressKey, Key
    <3> QED
      BY <2>1, <3>1, <3>2
  <2>4. iskbhit' \in BOOLEAN
    BY <2>1 DEF NoKey, PressKey, CtrlW
  <2> QED
    BY <1>1, <2>2, <2>3, <2>4 DEF console_tick, guest, Phases
<1>2. CASE DebugIdle
    BY <1>2 DEF DebugIdle, guest, Phases
<1>3. CASE EditLine
  <2>1. console_window_getch(FOCUSED_WINDOW_DBG_CONSOLE) \in Key \cup {ERR, NUL}
    BY DEF console_window_getch
  <2>2. Append(buf, console_window_getch(FOCUSED_WINDOW_DBG_CONSOLE))
           \in Seq(Key \cup {ERR, NUL})
    BY <2>1
  <2>3. buf # << >> => Front(buf) \in Seq(Key \cup {ERR, NUL})
    BY FrontProperties
  <2>4. buf' \in Seq(Key \cup {ERR, NUL})
    BY <1>3, <2>2, <2>3 DEF EditLine
  <2>5. alive' \in BOOLEAN /\ phase' \in Phases /\ phase' # "break_step"
    BY <1>3 DEF EditLine, DebugGetch, Phases
  <2> QED
    BY <1>3, <2>4, <2>5 DEF EditLine, DebugGetch, guest
<1>4. CASE EnterCommand
  <2>1. /\ alive' \in BOOLEAN /\ phase' \in Phases /\ cpu_speed' \in Int
    BY <1>4 DEF EnterCommand, DebugGetch, Phases
  <2>2. i' \in Nat /\ (phase' = "break_step" => i' > 0)
    <3>1. CASE i' \in 1 .. MaxStep
      BY <3>1
    <3>2. CASE i' = i /\ phase' # "break_step"
      BY <3>2
    <3> QED
      BY <1>4, <3>1, <3>2 DEF EnterCommand, DebugGetch
  <2>3. buf' \in Seq(Key \cup {ERR, NUL})
    BY <1>4 DEF EnterCommand
  <2> QED
    BY <1>4, <2>1, <2>2, <2>3 DEF EnterCommand, DebugGetch, guest
<1>5. CASE sys_tick
    BY <1>5 DEF sys_tick, console_window_getch, ReadyAfterTick, TtyTakes, console_window_kbhit, Phases
<1>6. CASE BatchOther
    BY <1>6 DEF BatchOther, InBatch, NextI, guest, console, Phases
<1>7. ASSUME NEW t \in Ttys, BatchLoad(t) PROVE TypeOK'
    BY <1>7, InstructionType DEF BatchLoad, Instruction, InBatch, NextI, console, Phases
<1>8. CASE BreakStep
  <2>1. i' \in Nat /\ (phase' = "break_step" => i' > 0)
    BY <1>8 DEF BreakStep
  <2>2. phase' \in Phases
    BY <1>8 DEF BreakStep, Phases
  <2> QED
    BY <1>8, <2>1, <2>2, InstructionType DEF BreakStep, console
<1>9. CASE BreakContinue
    BY <1>9, InstructionType DEF BreakContinue, console, Phases
<1>10. CASE Terminated \/ UNCHANGED vars
    BY <1>10 DEF Terminated, vars, guest, console
<1> QED
    BY <1>1, <1>2, <1>3, <1>4, <1>5, <1>6, <1>7, <1>8, <1>9, <1>10 DEF Next

-----------------------------------------------------------------------------
LEMMA InitIInv == Init => IInv
<1> SUFFICES ASSUME Init PROVE IInv
    OBVIOUS
<1>1. TypeOK
    BY InitTypeOK
<1>2. PendingOK /\ LineOK /\ LineInOrder
    BY DEF Init, PendingOK, LineOK, LineInOrder, Pending
<1>3. ASSUME NEW t \in Ttys PROVE TtyOK(t)
  <2>1. typed[t] = 0
    BY ConsoleAssumption DEF Init
  <2> QED
    BY <2>1 DEF Init, TtyOK, Latched, ReadInOrder, LastKept, Accounted, One, Pending
<1> QED
    BY <1>1, <1>2, <1>3 DEF IInv

\* What belongs to one tty is kept by a step that leaves that tty alone.
LEMMA TtyFrame ==
  ASSUME NEW t \in Ttys, TtyOK(t),
         user_ascii'[t] = user_ascii[t], user_ready'[t] = user_ready[t],
         (t \in reading') <=> (t \in reading), delivered'[t] = delivered[t],
         typed'[t] = typed[t],
         Pending(t)' <=> Pending(t), Pending(t) => ch' = ch
  PROVE  TtyOK(t)'
BY DEF TtyOK, Latched, ReadInOrder, LastKept, Accounted, One

\* A guest instruction keeps what is claimed of every tty.
LEMMA InstructionTtyOK ==
  ASSUME IInv, Instruction, UNCHANGED <<console, user_ascii, typed>>,
         NEW t \in Ttys
  PROVE  TtyOK(t)'
<1> USE DEF IInv
<1> DEFINE d == delivered[t]
           a == user_ascii[t]
<1>1. /\ Pending(t)' <=> Pending(t)
      /\ ch' = ch /\ user_ascii' = user_ascii /\ typed' = typed
    BY DEF Pending, console
<1>2. Len(d) \in Nat /\ typed[t] \in Nat
    BY ConsoleAssumption DEF TypeOK
<1>3. ASSUME NEW u \in Ttys, Load(u), u # t PROVE TtyOK(t)'
  <2>1. /\ user_ready'[t] = user_ready[t] /\ delivered'[t] = delivered[t]
        /\ (t \in reading') <=> (t \in reading)
    BY <1>3 DEF Load, Poll, ReadyAfterLoad, ReadAscii, TypeOK
  <2> QED
    BY <1>1, <2>1, TtyFrame
<1>4. CASE UNCHANGED guest
  <2>1. user_ready' = user_ready /\ delivered' = delivered /\ reading' = reading
    BY <1>4 DEF guest
  <2> QED
    BY <1>1, <2>1, TtyFrame
<1>5. CASE Poll(t)
  <2>1. /\ ~user_ready'[t] /\ delivered' = delivered /\ t \notin reading
        /\ (t \in reading') <=> user_ready[t]
    BY <1>5 DEF Poll, ReadyAfterLoad, TypeOK
  <2>2. (Latched(t) /\ ReadInOrder(t))'
    BY <1>1, <2>1 DEF TtyOK, Latched, ReadInOrder
  <2>3. LastKept(t)'
    BY <1>1, <2>1 DEF TtyOK, LastKept
  <2>4. Accounted(t)'
    <3>1. /\ One(user_ready'[t]) = 0 /\ One(t \in reading) = 0
          /\ One(t \in reading') = One(user_ready[t])
          /\ One(Pending(t)') = One(Pending(t))
          /\ One(user_ready[t]) \in Nat /\ One(Pending(t)) \in Nat
      BY <1>1, <2>1 DEF One
    <3> QED
      BY <1>1, <1>2, <2>1, <3>1 DEF TtyOK, Accounted
  <2> QED
    BY <2>2, <2>3, <2>4 DEF TtyOK
<1>6. CASE ReadAscii(t)
  <2>1. /\ user_ready' = user_ready /\ delivered'[t] = Append(d, a)
        /\ t \in reading /\ t \notin reading'
    BY <1>6 DEF ReadAscii, TypeOK
  <2>2. a # NUL /\ a \in {t} \X (1 .. typed[t])
    BY <2>1 DEF TtyOK, Latched
  <2>3. d \in Seq(Key \cup {ERR, NUL}) /\ a \in Key \cup {ERR, NUL}
    BY DEF TypeOK
  <2>4. /\ Len(delivered'[t]) = Len(d) + 1
        /\ \A k \in 1 .. Len(d) : delivered'[t][k] = d[k]
        /\ delivered'[t][Len(d) + 1] = a
        /\ delivered'[t] # << >> /\ Len(d) \in Nat
    BY <2>1, <2>3
  <2>5. Last(delivered'[t]) = a
    BY <2>4 DEF Last
  <2>6. Latched(t)'
    BY <1>1, <2>2, <2>5 DEF TtyOK, Latched
  <2>7. ReadInOrder(t)'
    <3> SUFFICES ASSUME NEW k \in 1 .. Len(d) + 1
                 PROVE  /\ delivered'[t][k] \in {t} \X (1 .. typed[t])
                        /\ k > 1 => delivered'[t][k - 1][2] <= delivered'[t][k][2]
        BY <1>1, <2>4 DEF ReadInOrder
    <3>1. CASE k <= Len(d)
      <4>1. k \in 1 .. Len(d) /\ (k > 1 => k - 1 \in 1 .. Len(d))
        BY <2>4, <3>1
      <4>2. delivered'[t][k] = d[k] /\ (k > 1 => delivered'[t][k - 1] = d[k - 1])
        BY <2>4, <4>1
      <4> QED
        BY <4>1, <4>2 DEF TtyOK, ReadInOrder
    <3>2. CASE k = Len(d) + 1
      <4>1. k > 1 => /\ delivered'[t][k - 1] = Last(d)
                     /\ Last(d)[2] <= a[2]
        <5>1. ASSUME k > 1 PROVE Len(d) \in 1 .. Len(d) /\ d # << >> /\ k - 1 = Len(d)
          BY <2>4, <3>2, <5>1
        <5> QED
          BY <2>4, <5>1 DEF Last, TtyOK, Latched
      <4> QED
        BY <2>2, <2>4, <3>2, <4>1
    <3> QED
        BY <2>4, <3>1, <3>2
  <2>8. LastKept(t)'
    BY <1>1, <2>4, <2>5 DEF TtyOK, LastKept, Pending
  <2>9. Accounted(t)'
    <3>1. /\ One(t \in reading) = 1 /\ One(t \in reading') = 0
          /\ One(Pending(t)') = One(Pending(t))
          /\ One(user_ready[t]) \in Nat /\ One(Pending(t)) \in Nat
      BY <1>1, <2>1 DEF One
    <3> QED
      BY <1>1, <1>2, <2>1, <2>4, <3>1 DEF TtyOK, Accounted
  <2> QED
    BY <2>6, <2>7, <2>8, <2>9 DEF TtyOK
<1> QED
    BY <1>3, <1>4, <1>5, <1>6 DEF Instruction, Load

\* A tick of the console.  No window has a key waiting when it begins.
LEMMA ConsoleTickIInv ==
  ASSUME IInv, console_tick
  PROVE  PendingOK' /\ LineOK' /\ LineInOrder' /\ \A t \in Ttys : TtyOK(t)'
<1> USE DEF IInv
<1> DEFINE f == current_focused_window
<1>1. /\ \A w \in Consumers : ~Pending(w)
      /\ phase' = "debug_console_tick" /\ buf' = buf
      /\ user_ascii' = user_ascii /\ user_ready' = user_ready
      /\ reading' = reading /\ delivered' = delivered
    BY DEF console_tick, PendingOK, guest, DBG
<1>2. DBG \in Consumers /\ DBG \in Windows /\ Ttys \subseteq Consumers /\ Ttys \subseteq Windows
    BY ConsoleAssumption
    DEF DBG, Consumers, Windows, FOCUSED_WINDOW_DBG_CONSOLE, FOCUSED_WINDOW_MAX
<1>3. typed \in [Windows -> Nat] /\ f \in Windows
    BY DEF TypeOK
<1>4. CASE NoKey \/ CtrlW
  <2>1. typed' = typed /\ \A w \in Consumers : ~Pending(w)'
    BY <1>1, <1>4 DEF NoKey, CtrlW, Pending
  <2>2. PendingOK' /\ LineOK' /\ LineInOrder'
    BY <1>1, <1>2, <2>1 DEF PendingOK, LineOK, LineInOrder
  <2>3. ASSUME NEW t \in Ttys PROVE TtyOK(t)'
    BY <1>1, <1>2, <2>1, TtyFrame
  <2> QED
    BY <2>2, <2>3
<1>5. CASE PressKey
  <2>1. /\ typed' = [typed EXCEPT ![f] = @ + 1] /\ ch' = <<f, typed[f] + 1>>
        /\ iskbhit' /\ current_focused_window' = f
    BY <1>5 DEF PressKey
  <2>2. \A w \in Windows : Pending(w)' <=> w = f
    BY <2>1 DEF Pending
  <2>3. typed'[f] = typed[f] + 1 /\ \A w \in Windows \ {f} : typed'[w] = typed[w]
    BY <1>3, <2>1
  <2>4. PendingOK'
    BY <1>1, <1>2, <1>3, <2>1, <2>2, <2>3 DEF PendingOK, Consumers, DBG
  <2>5. LineOK' /\ LineInOrder'
    <3>1. typed'[DBG] \in Nat /\ typed[DBG] \in Nat /\ typed[DBG] <= typed'[DBG]
          /\ (Pending(DBG)' => typed[DBG] < typed'[DBG])
      BY <1>2, <1>3, <2>2, <2>3
    <3> QED
      BY <1>1, <3>1 DEF LineOK, LineInOrder, DBG
  <2>6. ASSUME NEW t \in Ttys PROVE TtyOK(t)'
    <3>1. CASE t # f
      BY <1>1, <1>2, <2>2, <2>3, <3>1, TtyFrame
    <3>2. CASE t = f
      <4>1. typed'[t] = typed[t] + 1 /\ typed[t] \in Nat /\ Pending(t)' /\ ~Pending(t)
            /\ ch' = <<t, typed'[t]>>
        BY <1>1, <1>2, <1>3, <2>1, <2>2, <2>3, <3>2
      <4>2. Latched(t)'
        BY <1>1, <4>1 DEF TtyOK, Latched
      <4>3. ReadInOrder(t)'
        BY <1>1, <4>1 DEF TtyOK, ReadInOrder
      <4>4. LastKept(t)'
        BY <4>1 DEF LastKept
      <4>5. Accounted(t)'
        <5>1. /\ One(Pending(t)) = 0 /\ One(Pending(t)') = 1
              /\ One(user_ready[t]) \in Nat /\ One(t \in reading) \in Nat
          BY <4>1 DEF One
        <5>2. Len(delivered[t]) \in Nat
          BY DEF TypeOK
        <5>3. Len(delivered[t]) + One(user_ready[t]) + One(t \in reading) <= typed[t]
          BY <5>1, <5>2 DEF TtyOK, Accounted
        <5>4. /\ One(user_ready'[t]) = One(user_ready[t])
              /\ One(t \in reading') = One(t \in reading)
              /\ delivered' = delivered
          BY <1>1
        <5>5. typed'[t] = typed[t] + 1 /\ typed[t] \in Nat
          BY <4>1
        <5> QED
          BY <5>5, <5>1, <5>2, <5>3, <5>4 DEF Accounted
      <4> QED
        BY <4>2, <4>3, <4>4, <4>5 DEF TtyOK
    <3> QED
      BY <3>1, <3>2
  <2> QED
    BY <2>4, <2>5, <2>6
<1> QED
    BY <1>4, <1>5 DEF console_tick

\* A step that leaves the ttys, the guest and the typed keys alone, and makes
\* no key pending.
LEMMA QuietTtyOK ==
  ASSUME IInv, UNCHANGED <<user_ascii, guest, typed>>, NEW t \in Ttys,
         Pending(t)' <=> Pending(t), Pending(t) => ch' = ch
  PROVE  TtyOK(t)'
<1>1. /\ user_ascii' = user_ascii /\ user_ready' = user_ready /\ typed' = typed
      /\ reading' = reading /\ delivered' = delivered
    BY DEF guest
<1> QED
    BY <1>1, TtyFrame DEF IInv

\* The stage of the debug window.
LEMMA DebugIInv ==
  ASSUME IInv, DebugIdle \/ EditLine \/ EnterCommand
  PROVE  PendingOK' /\ LineOK' /\ LineInOrder' /\ \A t \in Ttys : TtyOK(t)'
<1> USE DEF IInv
<1>1. DBG \in Consumers /\ DBG \in Windows /\ DBG \notin Ttys /\ Ttys \subseteq Consumers
    BY ConsoleAssumption
    DEF DBG, Consumers, Windows, FOCUSED_WINDOW_DBG_CONSOLE, FOCUSED_WINDOW_MAX
<1>2. CASE DebugIdle
  <2>1. ~Pending(DBG)
    <3> SUFFICES ASSUME Pending(DBG) PROVE FALSE
        OBVIOUS
    <3>1. console_window_getch(DBG) = ch
      BY DEF Pending, console_window_getch, console_window_kbhit
    <3>2. ch = <<DBG, typed[DBG]>> /\ typed[DBG] > 0 /\ typed[DBG] \in Nat
      BY <1>1 DEF PendingOK, TypeOK
    <3>3. ch \in Key
      BY <1>1, <3>2 DEF Key
    <3> QED
      BY <1>2, <3>1, <3>3, ConsoleAssumption DEF DebugIdle, DBG
  <2>2. /\ phase' = "sys_tick" /\ buf' = buf /\ typed' = typed /\ ch' = ch
        /\ UNCHANGED <<user_ascii, guest, typed>>
        /\ \A w \in Consumers : Pending(w)' <=> Pending(w)
    BY <1>2, <2>1 DEF DebugIdle, Pending, console_window_kbhit, DBG
  <2>3. PendingOK' /\ LineOK' /\ LineInOrder'
    BY <1>1, <2>1, <2>2 DEF PendingOK, LineOK, LineInOrder
  <2> QED
    BY <1>1, <2>2, <2>3, QuietTtyOK
<1>3. CASE EditLine \/ EnterCommand
  <2>1. /\ DebugGetch /\ typed' = typed
        /\ UNCHANGED <<user_ascii, guest, typed>>
    BY <1>3 DEF EditLine, EnterCommand, DebugGetch
  <2>2. /\ Pending(DBG) /\ console_window_getch(DBG) = ch
        /\ \A w \in Consumers : ~Pending(w)'
    BY <2>1 DEF DebugGetch, Pending, console_window_getch, console_window_kbhit, DBG
  <2>3. \A t \in Ttys : ~Pending(t)
    BY <1>1, <2>2 DEF Pending
  <2>4. PendingOK' /\ LineOK'
    BY <1>1, <2>2 DEF PendingOK, LineOK
  <2>5. LineInOrder'
    <3>0. /\ buf \in Seq(Key \cup {ERR, NUL}) /\ Len(buf) \in Nat
          /\ ch \in Key \cup {ERR, NUL}
      BY DEF TypeOK
    <3>1. CASE buf' = << >>
      BY <3>1 DEF LineInOrder
    <3>2. CASE buf' = buf
      BY <2>1, <3>2 DEF LineInOrder
    <3>3. CASE buf # << >> /\ buf' = Front(buf)
      <4>1. /\ Len(buf') = Len(buf) - 1
            /\ \A k \in 1 .. Len(buf) - 1 : buf'[k] = buf[k]
        BY <3>0, <3>3, FrontProperties
      <4>2. \A k \in 1 .. Len(buf) - 1 :
              k \in 1 .. Len(buf) /\ (k > 1 => k - 1 \in 1 .. Len(buf) - 1)
        BY <3>0
      <4> QED
        BY <2>1, <4>1, <4>2 DEF LineInOrder
    <3>4. CASE buf' = Append(buf, ch)
      <4>1. /\ Len(buf') = Len(buf) + 1 /\ buf'[Len(buf) + 1] = ch
            /\ \A k \in 1 .. Len(buf) : buf'[k] = buf[k]
        BY <3>0, <3>4
      <4>2. /\ ch = <<DBG, typed[DBG]>> /\ typed[DBG] > 0 /\ typed[DBG] \in Nat
            /\ \A k \in 1 .. Len(buf) : buf[k][2] < typed[DBG]
        BY <1>1, <2>2 DEF PendingOK, LineOK, TypeOK
      <4> SUFFICES ASSUME NEW k \in 1 .. Len(buf) + 1
                   PROVE  /\ buf'[k] \in {DBG} \X (1 .. typed[DBG])
                          /\ k > 1 => buf'[k - 1][2] < buf'[k][2]
        BY <2>1, <4>1 DEF LineInOrder, DBG
      <4>3. CASE k \in 1 .. Len(buf)
        <5>1. k > 1 => k - 1 \in 1 .. Len(buf)
          BY <3>0, <4>3
        <5> QED
          BY <4>1, <4>3, <5>1 DEF LineInOrder, DBG
      <4>4. CASE k = Len(buf) + 1
        <5>1. k > 1 => k - 1 \in 1 .. Len(buf)
          BY <3>0, <4>4
        <5> QED
          BY <4>1, <4>2, <4>4, <5>1
      <4> QED
        BY <3>0, <4>3, <4>4
    <3> QED
      BY <1>3, <2>2, <3>1, <3>2, <3>3, <3>4 DEF EditLine, EnterCommand, DBG
  <2>6. ASSUME NEW t \in Ttys PROVE TtyOK(t)'
    BY <1>1, <2>1, <2>2, <2>3, QuietTtyOK
  <2> QED
    BY <2>4, <2>5, <2>6
<1> QED
    BY <1>2, <1>3

\* The tick of the ttys, and the stages in which the guest executes.
LEMMA SysTickIInv ==
  ASSUME IInv, sys_tick
  PROVE  PendingOK' /\ LineOK' /\ LineInOrder' /\ \A t \in Ttys : TtyOK(t)'
<1> USE DEF IInv
<1>1. DBG \in Consumers /\ DBG \notin Ttys /\ Consumers = Ttys \cup {DBG}
      /\ Ttys \subseteq Windows
    BY ConsoleAssumption DEF DBG, Consumers
<1>2. /\ ~Pending(DBG) /\ typed' = typed /\ buf' = buf
      /\ delivered' = delivered /\ reading' = reading /\ ch' = ch
    BY <1>1 DEF PendingOK, sys_tick
<1>3. \A w \in Consumers : ~Pending(w)'
    BY <1>1, <1>2 DEF sys_tick, Pending, console_window_kbhit
<1>4. PendingOK' /\ LineOK' /\ LineInOrder'
    BY <1>1, <1>2, <1>3 DEF PendingOK, LineOK, LineInOrder
<1>5. ASSUME NEW t \in Ttys PROVE TtyOK(t)'
  <2>0. /\ typed[t] \in Nat /\ Len(delivered[t]) \in Nat
        /\ Pending(t) <=> console_window_kbhit(t)
    BY <1>1 DEF TypeOK, Pending, console_window_kbhit
  <2>1. CASE ~Pending(t)
    <3>1. user_ascii'[t] = user_ascii[t] /\ user_ready'[t] = user_ready[t]
      BY <2>0, <2>1 DEF sys_tick, TtyTakes, ReadyAfterTick, TypeOK
    <3> QED
      BY <1>1, <1>2, <1>3, <2>1, <3>1, TtyFrame
  <2>2. CASE Pending(t)
    <3>1. user_ascii'[t] = ch /\ user_ready'[t]
      BY <2>0, <2>2 DEF sys_tick, TtyTakes, ReadyAfterTick, console_window_getch
    <3>2. ch = <<t, typed[t]>> /\ typed[t] > 0
      BY <1>1, <2>2 DEF PendingOK
    <3>3. NUL # ch
      BY <1>1, <2>0, <3>2, ConsoleAssumption DEF Key
    <3>4. delivered[t] # << >> => Last(delivered[t])[2] <= typed[t]
      <4>1. ASSUME delivered[t] # << >> PROVE Len(delivered[t]) \in 1 .. Len(delivered[t])
        BY <2>0, <4>1 DEF TypeOK
      <4> QED
        BY <2>0, <4>1 DEF TtyOK, ReadInOrder, Last
    <3>5. Latched(t)'
      BY <1>2, <2>0, <3>1, <3>2, <3>3, <3>4 DEF Latched
    <3>6. ReadInOrder(t)' /\ LastKept(t)'
      BY <1>2, <3>1, <3>2 DEF TtyOK, ReadInOrder, LastKept
    <3>7. Accounted(t)'
      <4>1. /\ One(Pending(t)) = 1 /\ One(Pending(t)') = 0
            /\ One(user_ready'[t]) = 1
            /\ One(user_ready[t]) \in Nat /\ One(t \in reading) \in Nat
        BY <1>1, <1>3, <2>2, <3>1 DEF One
      <4>2. Len(delivered[t]) + One(user_ready[t]) + One(t \in reading) + 1 <= typed[t]
        BY <4>1 DEF TtyOK, Accounted
      <4> QED
        BY <1>2, <2>0, <4>1, <4>2 DEF Accounted
    <3> QED
      BY <3>5, <3>6, <3>7 DEF TtyOK
  <2> QED
    BY <2>1, <2>2
<1> QED
    BY <1>4, <1>5

LEMMA GuestIInv ==
  ASSUME IInv, BatchOther \/ (\E t \in Ttys : BatchLoad(t)) \/ BreakStep \/ BreakContinue
  PROVE  PendingOK' /\ LineOK' /\ LineInOrder' /\ \A t \in Ttys : TtyOK(t)'
<1> USE DEF IInv
<1>1. Instruction /\ UNCHANGED <<console, user_ascii, typed>> /\ buf' = buf
    BY DEF BatchOther, BatchLoad, InBatch, BreakStep, BreakContinue, Instruction
<1>2. /\ typed' = typed /\ ch' = ch
      /\ \A w \in Consumers : Pending(w)' <=> Pending(w)
    BY <1>1 DEF console, Pending
<1>3. DBG \in Consumers /\ Consumers = Ttys \cup {DBG} /\ DBG \notin Ttys
    BY ConsoleAssumption DEF DBG, Consumers
<1>4. phase # "debug_console_tick"
    BY DEF BatchOther, BatchLoad, InBatch, BreakStep, BreakContinue
<1>5. ~Pending(DBG)
    BY <1>3, <1>4 DEF PendingOK
<1>6. PendingOK'
  <2>1. CASE phase = "batch"
    <3>1. \A w \in Consumers : ~Pending(w)
      BY <1>3, <2>1 DEF PendingOK
    <3> QED
      BY <1>2, <3>1 DEF PendingOK
  <2>2. CASE phase # "batch"
    <3>1. phase' \in {"sys_tick", "break_step"}
      BY <2>2 DEF BatchOther, BatchLoad, InBatch, BreakStep, BreakContinue
    <3> QED
      BY <1>2, <1>3, <1>5, <3>1 DEF PendingOK
  <2> QED
    BY <2>1, <2>2
<1>7. LineOK' /\ LineInOrder'
    BY <1>1, <1>2, <1>3, <1>5 DEF LineOK, LineInOrder
<1> QED
    BY <1>1, <1>6, <1>7, InstructionTtyOK

LEMMA StepIInv == IInv /\ [Next]_vars => IInv'
<1> SUFFICES ASSUME IInv, [Next]_vars PROVE IInv'
    OBVIOUS
<1>1. TypeOK'
    BY StepTypeOK DEF IInv
<1>2. CASE Terminated \/ UNCHANGED vars
  <2>1. UNCHANGED <<phase, buf, typed, user_ascii, guest, ch, current_focused_window, iskbhit>>
    BY <1>2 DEF Terminated, vars, console
  <2>2. PendingOK' /\ LineOK' /\ LineInOrder'
    BY <2>1 DEF IInv, PendingOK, LineOK, LineInOrder, Pending
  <2>3. \A w : Pending(w)' <=> Pending(w)
    BY <2>1 DEF Pending
  <2> QED
    BY <1>1, <2>1, <2>2, <2>3, QuietTtyOK DEF IInv
<1>3. CASE console_tick
    BY <1>1, <1>3, ConsoleTickIInv DEF IInv
<1>4. CASE DebugIdle \/ EditLine \/ EnterCommand
    BY <1>1, <1>4, DebugIInv DEF IInv
<1>5. CASE sys_tick
    BY <1>1, <1>5, SysTickIInv DEF IInv
<1>6. CASE BatchOther \/ (\E t \in Ttys : BatchLoad(t)) \/ BreakStep \/ BreakContinue
    BY <1>1, <1>6, GuestIInv DEF IInv
<1> QED
    BY <1>2, <1>3, <1>4, <1>5, <1>6 DEF Next

LEMMA Invariance == Spec => []IInv
BY InitIInv, StepIInv, PTL DEF Spec
-----------------------------------------------------------------------------
\* Type correctness: in every reachable state every variable has its type.
THEOREM TypeCorrect == Spec => []TypeOK
<1>1. IInv => TypeOK
    BY DEF IInv
<1> QED
    BY <1>1, Invariance, PTL

\* No window ever reads a key of another window, a key out of order, or the
\* value of an empty latch (console.c:32-67, debug.c:69-97, tty.c:23-66).
THEOREM KeysAreRouted == Spec => []KeysRouted
<1>1. IInv => KeysRouted
    BY DEF IInv, TtyOK, KeysRouted
<1> QED
    BY <1>1, Invariance, PTL

\* The last key typed into a tty is never lost on its way to the guest, for any
\* speed of the CPU and any interleaving of ticks and loads (tty.c:23-66).
THEOREM LatestKeyIsKept == Spec => []LatestKeyKept
<1>1. IInv => LatestKeyKept
    BY DEF IInv, TtyOK, LatestKeyKept
<1> QED
    BY <1>1, Invariance, PTL

\* The guest never reads more characters than were typed (tty.c:47-66).
THEOREM PhantomKeysNeverRead == Spec => []NoPhantomKeys
<1>1. IInv => NoPhantomKeys
    BY DEF IInv, TtyOK, NoPhantomKeys
<1> QED
    BY <1>1, Invariance, PTL
=============================================================================
