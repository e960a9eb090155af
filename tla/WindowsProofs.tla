--------------------------- MODULE WindowsProofs ---------------------------
(***************************************************************************)
(* Proofs about Windows, for any number of ttys, any sizes of the windows  *)
(* and of the command buffer, and any characters and lines.                *)
(***************************************************************************)
EXTENDS Windows, SequenceTheorems, TLAPS

\* The line editor's cursor and what lies left of it.
Line ==
  /\ ch_x = Len(buf) + 1
  /\ ~interrupted => \A x \in 1 .. Len(buf) :
       Inside(Debug, ch_y, x) => content[Debug][ch_y][x] = buf[x]

\* A command starts on an empty line.
Entered == phase = "command" => buf = << >>

\* A window that does not wait to be copied is on the screen.
Fresh ==
  \A w \in Text \ erased : \A y \in RowsOf(w) : \A x \in ColsOf(w) :
    ~dirty[w] /\ Inside(w, y, x) => screen[w][y][x] = content[w][y][x]

Clean == phase = "debug_console_tick" => \A w \in Text : ~dirty[w]

\* The inductive invariant.
IInv == TypeOK /\ Line /\ Entered /\ Fresh /\ Clean

Grid(w) == [RowsOf(w) -> [ColsOf(w) -> Cell]]

-----------------------------------------------------------------------------
(* The grids *)

LEMMA EmptyIsGrid == ASSUME NEW w PROVE Empty(w) \in Grid(w)
  BY DEF Empty, Grid, Cell

LEMMA BoxedIsGrid ==
  ASSUME NEW w, NEW g \in Grid(w) PROVE Boxed(w, g) \in Grid(w)
  BY DEF Boxed, Grid, Cell

LEMMA PutIsGrid ==
  ASSUME NEW w, NEW g \in Grid(w), NEW row, NEW col, NEW c \in Cell
  PROVE  Put(w, g, row, col, c) \in Grid(w)
  BY DEF Put, Grid

LEMMA PrintedIsGrid ==
  ASSUME NEW w, NEW g \in Grid(w), NEW row, NEW s \in Seq(Glyphs)
  PROVE  Printed(w, g, row, s) \in Grid(w)
<1> DEFINE At(y, x) == (y - row) * Width(w) + x
<1>1. ASSUME NEW y \in RowsOf(w), NEW x \in ColsOf(w)
      PROVE  (IF row < Height(w) /\ At(y, x) \in 1 .. Len(s)
                THEN s[At(y, x)] ELSE g[y][x]) \in Cell
  <2>1. ASSUME At(y, x) \in 1 .. Len(s) PROVE s[At(y, x)] \in Cell
    <3> HIDE DEF At
    <3> QED BY <2>1 DEF Cell
  <2>2. g[y][x] \in Cell BY DEF Grid
  <2> QED BY <2>1, <2>2
<1> QED BY <1>1 DEF Printed, Grid

\* A place of a tty is inside its frame.
LEMMA PlaceIsInside ==
  ASSUME NEW t \in Ttys, NEW a \in Byte
  PROVE  /\ (a \div COLS) + 1 \in 1 .. ROWS /\ (a % COLS) + 1 \in 1 .. COLS
         /\ a = (a \div COLS) * COLS + (a % COLS)
<1>1. COLS \in Nat /\ COLS > 0 /\ ROWS \in Nat BY WindowsAssumption
<1>2. a \in Int /\ a >= 0 /\ a < ROWS * COLS BY <1>1 DEF Byte
<1>3. a % COLS \in 0 .. COLS - 1 BY <1>1, <1>2
<1>4. a \div COLS \in Int BY <1>1, <1>2
<1>5. a = (a \div COLS) * COLS + (a % COLS) BY <1>1, <1>2
<1>6. a \div COLS >= 0 BY <1>1, <1>2
<1>7. a \div COLS < ROWS
  <2> DEFINE q == a \div COLS
             r == a % COLS
  <2> SUFFICES ASSUME q >= ROWS PROVE FALSE BY <1>1, <1>4
  <2>1. q \in Int /\ r \in 0 .. COLS - 1 /\ a = q * COLS + r BY <1>3, <1>4, <1>5
  <2> HIDE DEF q, r
  <2>2. q * COLS >= ROWS * COLS BY <2>1, <1>1
  <2> QED BY <2>1, <2>2, <1>1, <1>2
<1> QED BY <1>1, <1>3, <1>4, <1>5, <1>6, <1>7

LEMMA TtyIsNoDebug == ASSUME NEW t \in Ttys PROVE t # Debug /\ t \in Text /\ Debug \in Text
  BY WindowsAssumption DEF Text

LEMMA RowColInside ==
  ASSUME NEW t \in Ttys, NEW a \in Byte
  PROVE  Inside(t, (a \div COLS) + 1, (a % COLS) + 1)
  BY PlaceIsInside, TtyIsNoDebug, WindowsAssumption DEF Inside, Height, Width

\* The command line.
LEMMA EmptyLine == << >> \in Seq(Keys) /\ Len(<< >>) = 0
  OBVIOUS

LEMMA ShorterLine ==
  ASSUME NEW s \in Seq(Keys), s # << >>
  PROVE  /\ Len(s) \in Nat \ {0}
         /\ SubSeq(s, 1, Len(s) - 1) \in Seq(Keys)
         /\ Len(SubSeq(s, 1, Len(s) - 1)) = Len(s) - 1
         /\ \A x \in 1 .. Len(s) - 1 : SubSeq(s, 1, Len(s) - 1)[x] = s[x]
<1>1. Len(s) \in Nat \ {0} OBVIOUS
<1> DEFINE n == Len(s) - 1
<1>2. n \in Int /\ n >= 0 /\ 1 \in Int BY <1>1
<1>3. \A x \in 1 .. n : s[x] \in Keys BY <1>1
<1>4. /\ SubSeq(s, 1, n) \in Seq(Keys)
      /\ Len(SubSeq(s, 1, n)) = IF 1 <= n THEN n - 1 + 1 ELSE 0
      /\ \A x \in 1 .. n - 1 + 1 : SubSeq(s, 1, n)[x] = s[1 + x - 1]
  BY <1>2, <1>3, SubSeqProperties
<1>5. n - 1 + 1 = n /\ \A x \in 1 .. n : 1 + x - 1 = x BY <1>2
<1> QED BY <1>1, <1>2, <1>4, <1>5

-----------------------------------------------------------------------------
(* The type invariant *)

LEMMA TypeInit == Init => TypeOK
<1> SUFFICES ASSUME Init PROVE TypeOK OBVIOUS
<1>1. \A w \in Text : content[w] \in Grid(w) /\ screen[w] \in Grid(w)
  BY EmptyIsGrid DEF Init
<1>2. 0 \in Byte
  <2>1. \A r, c \in Nat \ {0} : r * c >= 1 OBVIOUS
  <2> QED BY <2>1, WindowsAssumption DEF Byte
<1>3. DOMAIN content = Text /\ DOMAIN screen = Text BY DEF Init
<1>4. ch_x \in 1 .. CMD_SIZE + 1 /\ ch_y \in Nat \ {0} /\ buf \in Seq(Keys)
      /\ Len(buf) <= CMD_SIZE
  BY EmptyLine, WindowsAssumption DEF Init
<1>5. /\ dirty \in [Text \cup Views -> BOOLEAN] /\ tty_loc \in [Ttys -> Byte]
      /\ tty_char \in [Ttys -> Glyphs \cup {NUL}]
      /\ picture \in [Views -> Drawing]
      /\ seen \in [Views -> Drawing]
  BY <1>2 DEF Init, Drawing
<1>6. /\ phase \in Phases /\ cpu_running \in BOOLEAN /\ machine \in Pictures /\ half_way \in BOOLEAN
      /\ interrupted \in BOOLEAN /\ erased \in SUBSET Ttys
  BY DEF Init, Phases
<1> QED BY <1>1, <1>3, <1>4, <1>5, <1>6 DEF TypeOK, Grid

LEMMA TypeNext == TypeOK /\ Line /\ [Next]_vars => TypeOK'
<1> SUFFICES ASSUME TypeOK, Line, [Next]_vars PROVE TypeOK' OBVIOUS
<1> USE WindowsAssumption
<1>t. \A w \in Text : content[w] \in Grid(w) /\ screen[w] \in Grid(w)
  BY DEF TypeOK, Grid
<1>d. Debug \in Text BY DEF Text
<1> DEFINE Rest ==
      /\ phase \in Phases
      /\ cpu_running \in BOOLEAN /\ machine \in Pictures /\ half_way \in BOOLEAN
      /\ picture \in [Views -> Drawing]
      /\ seen \in [Views -> Drawing]
      /\ dirty \in [Text \cup Views -> BOOLEAN]
      /\ ch_x \in 1 .. CMD_SIZE + 1 /\ ch_y \in Nat \ {0}
      /\ buf \in Seq(Keys) /\ Len(buf) <= CMD_SIZE
      /\ tty_loc \in [Ttys -> Byte] /\ tty_char \in [Ttys -> Glyphs \cup {NUL}]
      /\ interrupted \in BOOLEAN
      /\ erased \in SUBSET Ttys
    Grids == /\ DOMAIN content = Text /\ DOMAIN screen = Text
             /\ \A w \in Text : content[w] \in Grid(w) /\ screen[w] \in Grid(w)
<1>s. SUFFICES Rest' /\ Grids'
  BY DEF TypeOK, Grid
<1>r. Rest /\ Grids BY <1>t DEF TypeOK
<1>v. DrawViews =>
        /\ picture' \in [Views -> Drawing] /\ half_way' = FALSE
        /\ UNCHANGED <<cpu_running, machine, seen, tty_loc, tty_char>>
  BY <1>r DEF DrawViews, Drawing
<1>1. CASE UNCHANGED vars
  BY <1>1, <1>r DEF vars, machine_vars, window_vars, cursor, tty_vars
<1>2. CASE ConsoleTick
  <2>1. Rest'
    BY <1>2, <1>r DEF ConsoleTick, machine_vars, cursor, Phases
  <2>2. Grids'
    BY <1>2, <1>r, BoxedIsGrid DEF ConsoleTick
  <2> QED BY <2>1, <2>2
<1>3. CASE NoKey
  BY <1>3, <1>r, <1>v DEF NoKey, Proceed, cursor, Phases, Views
<1>4. ASSUME NEW k \in Keys, Type(k) PROVE Rest' /\ Grids'
  <2>1. Rest'
    <3>1. CASE Len(buf) < CMD_SIZE
      <4>1. buf' = Append(buf, k) /\ ch_x' = ch_x + 1 BY <1>4, <3>1 DEF Type
      <4>2. buf' \in Seq(Keys) /\ Len(buf') = Len(buf) + 1 BY <4>1, <1>r
      <4>3. ch_x' \in 1 .. CMD_SIZE + 1 /\ Len(buf') <= CMD_SIZE
        BY <4>1, <4>2, <3>1, <1>r DEF Line
      <4> QED BY <1>4, <1>r, <1>v, <3>1, <4>2, <4>3
            DEF Type, Proceed, Phases, Views
    <3>2. CASE ~(Len(buf) < CMD_SIZE)
      BY <1>4, <1>r, <1>v, <3>2 DEF Type, Phases, Views
    <3> QED BY <3>1, <3>2
  <2>2. Grids'
    <3>1. k \in Cell BY DEF Cell
    <3>2. Put(Debug, content[Debug], ch_y, ch_x, k) \in Grid(Debug)
      BY <3>1, <1>r, <1>d, PutIsGrid
    <3> QED BY <1>4, <1>r, <1>d, <3>2 DEF Type, PutChar
  <2> QED BY <2>1, <2>2
<1>5. CASE Backspace
  <2>1. Rest'
    <3>1. buf # << >> /\ Len(buf) \in Nat /\ Len(buf) >= 1
      BY <1>5, <1>r DEF Backspace, CanErase
    <3>2. buf' \in Seq(Keys) /\ Len(buf') = Len(buf) - 1
      BY <3>1, <1>5, <1>r, ShorterLine DEF Backspace
    <3>3. ch_x' \in 1 .. CMD_SIZE + 1 /\ Len(buf') <= CMD_SIZE
      BY <3>1, <3>2, <1>5, <1>r DEF Backspace, AfterErasing, Line
    <3> QED BY <1>5, <1>r, <1>v, <3>2, <3>3
          DEF Backspace, Proceed, Phases, Views
  <2>2. Grids'
    <3>1. Put(Debug, content[Debug], ch_y, ch_x - 1, Blank) \in Grid(Debug)
      BY <1>r, <1>d, PutIsGrid DEF Cell
    <3> QED BY <1>5, <1>r, <1>d, <3>1 DEF Backspace, PutChar
  <2> QED BY <2>1, <2>2
<1>e. ASSUME buf' = << >>, ch_x' = 1, ch_y' \in Nat \ {0},
             phase' \in Phases, dirty' \in [Text \cup Views -> BOOLEAN],
             picture' \in [Views -> Drawing], interrupted' = FALSE, half_way' = FALSE,
             UNCHANGED <<cpu_running, machine, seen, tty_loc, tty_char, erased>>
      PROVE  Rest'
  <2>1. buf' \in Seq(Keys) /\ Len(buf') <= CMD_SIZE BY <1>e, EmptyLine
  <2>2. ch_x' \in 1 .. CMD_SIZE + 1 BY <1>e
  <2>3. /\ tty_loc' \in [Ttys -> Byte] /\ tty_char' \in [Ttys -> Glyphs \cup {NUL}]
        /\ erased' \in SUBSET Ttys /\ seen' \in [Views -> Drawing]
        /\ cpu_running' \in BOOLEAN /\ machine' \in Pictures
    BY <1>e, <1>r
  <2> QED BY <1>e, <2>1, <2>2, <2>3
<1>y. ch_y + 1 \in Nat \ {0} BY <1>r
<1>6. CASE EnterCommand
  <2>1. /\ Grids' /\ buf' = << >> /\ ch_x' = 1 /\ ch_y' = ch_y + 1
        /\ phase' \in Phases /\ dirty' \in [Text \cup Views -> BOOLEAN]
        /\ picture' \in [Views -> Drawing] /\ interrupted' = FALSE /\ half_way' = FALSE
        /\ UNCHANGED <<cpu_running, machine, seen, tty_loc, tty_char, erased>>
    BY <1>6, <1>r, <1>v DEF EnterCommand, Enter, Phases, Views
  <2> QED BY <2>1, <1>e, <1>y
<1>7. CASE EnterExit
  <2>1. /\ Grids' /\ buf' = << >> /\ ch_x' = 1 /\ ch_y' = ch_y + 1
        /\ phase' \in Phases /\ dirty' \in [Text \cup Views -> BOOLEAN]
        /\ picture' \in [Views -> Drawing] /\ interrupted' = FALSE /\ half_way' = FALSE
        /\ UNCHANGED <<cpu_running, machine, seen, tty_loc, tty_char, erased>>
    BY <1>7, <1>r, <1>v DEF EnterExit, Enter, Phases, Views
  <2> QED BY <2>1, <1>e, <1>y
<1>8. CASE EnterClear
  <2>1. Rest'
    <3>1. /\ buf' = << >> /\ ch_x' = 1 /\ ch_y' = 1
          /\ phase' \in Phases /\ dirty' \in [Text \cup Views -> BOOLEAN]
          /\ picture' \in [Views -> Drawing] /\ interrupted' = FALSE /\ half_way' = FALSE
          /\ UNCHANGED <<cpu_running, machine, seen, tty_loc, tty_char, erased>>
      BY <1>8, <1>r, <1>v DEF EnterClear, Enter, Phases, Views
    <3>2. ch_y' \in Nat \ {0} BY <3>1
    <3> QED BY <3>1, <3>2, <1>e
  <2>2. Grids'
    <3>1. Boxed(Debug, Empty(Debug)) \in Grid(Debug) BY EmptyIsGrid, BoxedIsGrid
    <3> QED BY <1>8, <1>r, <1>d, <3>1 DEF EnterClear
  <2> QED BY <2>1, <2>2
<1>9. ASSUME NEW s \in Lines, Puts(s), UNCHANGED tty_vars, UNCHANGED phase,
             UNCHANGED <<machine, half_way>>, cpu_running' \in BOOLEAN, interrupted' \in BOOLEAN
      PROVE  Rest' /\ Grids'
  <2>1. /\ ch_y' = ch_y + 1 /\ dirty' = [dirty EXCEPT ![Debug] = TRUE]
        /\ UNCHANGED <<picture, seen, ch_x, buf, tty_loc, tty_char, erased, phase, machine, half_way>>
    BY <1>9 DEF Puts, tty_vars
  <2>4. ch_y' \in Nat \ {0} BY <2>1, <1>r
  <2>5. dirty' \in [Text \cup Views -> BOOLEAN] BY <2>1, <1>r
  <2>6. buf' \in Seq(Keys) /\ Len(buf') <= CMD_SIZE BY <2>1, <1>r
  <2>7. ch_x' \in 1 .. CMD_SIZE + 1 BY <2>1, <1>r
  <2>8. /\ phase' \in Phases /\ machine' \in Pictures /\ half_way' \in BOOLEAN
        /\ picture' \in [Views -> Drawing]
        /\ seen' \in [Views -> Drawing]
      BY <2>1, <1>r
  <2>9. /\ tty_loc' \in [Ttys -> Byte] /\ tty_char' \in [Ttys -> Glyphs \cup {NUL}]
        /\ erased' \in SUBSET Ttys
      BY <2>1, <1>r
  <2>3. Rest' BY <2>4, <2>5, <2>6, <2>7, <2>8, <2>9, <1>9
  <2>2. Grids'
    <3>1. Printed(Debug, content[Debug], ch_y, s) \in Grid(Debug)
      BY <1>r, <1>d, PrintedIsGrid
    <3> QED BY <1>9, <1>r, <1>d, <3>1 DEF Puts
  <2> QED BY <2>2, <2>3
<1>10. ASSUME NEW s \in Lines, Stop(s) PROVE Rest' /\ Grids'
  BY <1>9, <1>10 DEF Stop
<1>11. ASSUME NEW s \in Lines, Report(s) PROVE Rest' /\ Grids'
  BY <1>9, <1>11, <1>r DEF Report, machine_vars
<1>12. CASE MachineChanges
  BY <1>12, <1>r DEF MachineChanges, window_vars, cursor, tty_vars
<1>19. CASE CpuRw
  BY <1>19, <1>r DEF CpuRw, window_vars, cursor, tty_vars, Phases
<1>13. CASE CommandReturns
  BY <1>13, <1>r DEF CommandReturns, window_vars, cursor, tty_vars, Phases
<1>14. CASE EndBatch
  BY <1>14, <1>r DEF EndBatch, machine_vars, window_vars, cursor, tty_vars, Phases
<1>15. ASSUME NEW t \in Ttys, StoreLoc(t) \/ StoreChar(t) PROVE Rest' /\ Grids'
  BY <1>15, <1>r DEF StoreLoc, StoreChar, Store, machine_vars, cursor
<1>16. ASSUME NEW t \in Ttys, StoreWrite(t) PROVE Rest' /\ Grids'
  <2>1. Rest'
    BY <1>16, <1>r DEF StoreWrite, Drawn, Store, machine_vars, cursor, tty_vars, Text
  <2>2. tty_char[t] \in Cell BY <1>16, <1>r DEF StoreWrite, Cell
  <2>3. Put(t, content[t], Row(tty_loc[t]), Col(tty_loc[t]), tty_char[t]) \in Grid(t)
    BY <2>2, <1>r, TtyIsNoDebug, PutIsGrid
  <2>4. Grids' BY <1>16, <1>r, <2>3 DEF StoreWrite, Store
  <2> QED BY <2>1, <2>4
<1>17. ASSUME NEW t \in Ttys, StoreClear(t) PROVE Rest' /\ Grids'
  <2>1. Rest'
    BY <1>17, <1>r DEF StoreClear, Store, machine_vars, cursor
  <2>2. Grids' BY <1>17, <1>r, EmptyIsGrid DEF StoreClear, Store
  <2> QED BY <2>1, <2>2
<1>18. CASE Terminated
  BY <1>18, <1>1 DEF Terminated
<1> QED BY <1>1, <1>2, <1>3, <1>4, <1>5, <1>6, <1>7, <1>8, <1>10, <1>11, <1>12,
           <1>13, <1>14, <1>15, <1>16, <1>17, <1>18, <1>19 DEF Next

-----------------------------------------------------------------------------
(* The command line and the screen *)

LEMMA LineInit == Init => Line
  BY EmptyLine DEF Init, Line

LEMMA LineNext == TypeOK /\ Line /\ Entered /\ [Next]_vars => Line'
<1> SUFFICES ASSUME TypeOK, Line, Entered, [Next]_vars PROVE Line' OBVIOUS
<1>t. /\ ch_x \in Nat \ {0} /\ ch_y \in Nat \ {0} /\ buf \in Seq(Keys)
      /\ DOMAIN content = Text /\ Debug \in Text
      /\ content[Debug] \in Grid(Debug) /\ CMD_SIZE \in Nat
  BY WindowsAssumption DEF TypeOK, Grid, Text
<1>i. \A y, x : Inside(Debug, y, x) => y \in RowsOf(Debug) /\ x \in ColsOf(Debug)
  BY WindowsAssumption DEF Inside, RowsOf, ColsOf, Height, Width
<1>u. ASSUME UNCHANGED <<ch_x, ch_y, buf, interrupted>>, content'[Debug] = content[Debug]
      PROVE  Line'
  BY <1>u DEF Line
<1>b. ASSUME content'[Debug] = Boxed(Debug, content[Debug]),
             UNCHANGED <<ch_x, ch_y, buf, interrupted>>
      PROVE  Line'
  <2>1. \A y, x : Inside(Debug, y, x) => content'[Debug][y][x] = content[Debug][y][x]
    BY <1>b, <1>i DEF Boxed
  <2> QED BY <2>1, <1>b DEF Line
<1>e. ASSUME buf' = << >>, ch_x' = 1 PROVE Line'
  <2>1. Len(buf') = 0 BY <1>e, EmptyLine
  <2> QED BY <2>1, <1>e DEF Line
<1>1. CASE UNCHANGED vars
  BY <1>1, <1>u DEF vars, window_vars, cursor
<1>2. CASE ConsoleTick
  <2>1. UNCHANGED <<ch_x, ch_y, buf, interrupted>> BY <1>2 DEF ConsoleTick, cursor
  <2>2. \/ content'[Debug] = content[Debug]
        \/ content'[Debug] = Boxed(Debug, content[Debug])
    BY <1>2, <1>t DEF ConsoleTick
  <2> QED BY <2>1, <2>2, <1>u, <1>b
<1>3. CASE NoKey
  BY <1>3, <1>u DEF NoKey, cursor
<1>4. ASSUME NEW k \in Keys, Type(k) PROVE Line'
  <2>1. CASE Len(buf) < CMD_SIZE
    <3>1. /\ buf' = Append(buf, k) /\ ch_x' = ch_x + 1 /\ UNCHANGED <<ch_y, interrupted>>
          /\ content'[Debug] = Put(Debug, content[Debug], ch_y, ch_x, k)
      BY <1>4, <2>1, <1>t DEF Type, PutChar
    <3>2. /\ Len(buf') = Len(buf) + 1 /\ buf'[Len(buf) + 1] = k
          /\ \A x \in 1 .. Len(buf) : buf'[x] = buf[x]
      BY <3>1, <1>t
    <3>3. ch_x' = Len(buf') + 1 BY <3>1, <3>2, <1>t DEF Line
    <3>4. \A y, x : Inside(Debug, y, x) => content'[Debug][y][x] =
            IF y = ch_y /\ x = ch_x THEN k ELSE content[Debug][y][x]
      BY <3>1, <1>i DEF Put
    <3>5. ASSUME ~interrupted, NEW x \in 1 .. Len(buf'), Inside(Debug, ch_y, x)
          PROVE  content'[Debug][ch_y][x] = buf'[x]
      <4>1. CASE x = ch_x BY <4>1, <3>2, <3>4, <3>5 DEF Line
      <4>2. CASE x # ch_x
        <5>1. x \in 1 .. Len(buf) BY <4>2, <3>2, <1>t DEF Line
        <5> QED BY <5>1, <4>2, <3>2, <3>4, <3>5 DEF Line
      <4> QED BY <4>1, <4>2
    <3> QED BY <3>1, <3>3, <3>5 DEF Line
  <2>2. CASE ~(Len(buf) < CMD_SIZE)
    BY <1>4, <2>2, <1>u DEF Type
  <2> QED BY <2>1, <2>2
<1>5. CASE Backspace
  <2>1. /\ buf # << >> /\ buf' = SubSeq(buf, 1, Len(buf) - 1)
        /\ ch_x' = ch_x - 1 /\ UNCHANGED <<ch_y, interrupted>>
        /\ content'[Debug] = Put(Debug, content[Debug], ch_y, ch_x - 1, Blank)
    BY <1>5, <1>t DEF Backspace, CanErase, AfterErasing, PutChar
  <2>2. /\ Len(buf) \in Nat \ {0} /\ Len(buf') = Len(buf) - 1
        /\ \A x \in 1 .. Len(buf) - 1 : buf'[x] = buf[x]
    BY <2>1, <1>t, ShorterLine
  <2>3. ch_x' = Len(buf') + 1 BY <2>1, <2>2 DEF Line
  <2>4. \A y, x : Inside(Debug, y, x) => content'[Debug][y][x] =
          IF y = ch_y /\ x = ch_x - 1 THEN Blank ELSE content[Debug][y][x]
    BY <2>1, <1>i DEF Put
  <2>5. ASSUME ~interrupted, NEW x \in 1 .. Len(buf'), Inside(Debug, ch_y, x)
        PROVE  content'[Debug][ch_y][x] = buf'[x]
    <3>1. x \in 1 .. Len(buf) - 1 /\ x \in 1 .. Len(buf) /\ x # ch_x - 1
      BY <2>2 DEF Line
    <3> QED BY <3>1, <2>2, <2>4, <2>5 DEF Line
  <2> QED BY <2>1, <2>3, <2>5 DEF Line
<1>6. CASE EnterCommand BY <1>6, <1>e DEF EnterCommand, Enter
<1>7. CASE EnterExit BY <1>7, <1>e DEF EnterExit, Enter
<1>8. CASE EnterClear BY <1>8, <1>e DEF EnterClear, Enter
<1>9. ASSUME NEW s \in Lines, Puts(s), interrupted' \/ buf = << >> PROVE Line'
  <2>1. UNCHANGED <<ch_x, buf>> BY <1>9 DEF Puts
  <2>2. CASE interrupted' BY <2>1, <2>2 DEF Line
  <2>3. CASE buf = << >>
    <3>1. buf' = << >> /\ ch_x' = 1 BY <2>1, <2>3, EmptyLine DEF Line
    <3> QED BY <3>1, <1>e
  <2> QED BY <1>9, <2>2, <2>3
<1>10. ASSUME NEW s \in Lines, Stop(s) PROVE Line'
  <2>1. interrupted' \/ buf = << >> BY <1>10 DEF Stop
  <2> QED BY <2>1, <1>9, <1>10 DEF Stop
<1>11. ASSUME NEW s \in Lines, Report(s) PROVE Line'
  BY <1>9, <1>11 DEF Report, Entered
<1>12. CASE MachineChanges \/ CpuRw \/ CommandReturns \/ EndBatch
  BY <1>12, <1>u DEF MachineChanges, CpuRw, CommandReturns, EndBatch, window_vars, cursor
<1>13. ASSUME NEW t \in Ttys, StoreLoc(t) \/ StoreChar(t) \/ StoreWrite(t) \/ StoreClear(t)
       PROVE  Line'
  <2>1. content'[Debug] = content[Debug]
    BY <1>13, <1>t, TtyIsNoDebug DEF StoreLoc, StoreChar, StoreWrite, StoreClear
  <2> QED BY <2>1, <1>13, <1>u DEF StoreLoc, StoreChar, StoreWrite, StoreClear, Store, cursor
<1>14. CASE Terminated
  BY <1>14, <1>1 DEF Terminated
<1> QED BY <1>1, <1>2, <1>3, <1>4, <1>5, <1>6, <1>7, <1>8, <1>10, <1>11, <1>12,
           <1>13, <1>14 DEF Next

LEMMA EnteredNext == Entered /\ [Next]_vars => Entered'
  BY DEF Entered, Next, vars, cursor, ConsoleTick, NoKey, Type, Backspace, Proceed,
         Enter, EnterCommand, EnterExit, EnterClear, Stop, Report, Puts, MachineChanges, CpuRw,
         CommandReturns, EndBatch, StoreLoc, StoreChar, StoreWrite, StoreClear, Store,
         Terminated

LEMMA CleanNext == TypeOK /\ Clean /\ [Next]_vars => Clean'
<1> SUFFICES ASSUME TypeOK, Clean, [Next]_vars PROVE Clean' OBVIOUS
<1>1. CASE ConsoleTick BY <1>1 DEF ConsoleTick, Clean
<1>2. CASE phase' # "debug_console_tick" BY <1>2 DEF Clean
<1>3. CASE UNCHANGED vars BY <1>3 DEF Clean, vars, window_vars
<1>4. CASE Next /\ ~ConsoleTick
  <2>1. CASE phase \in {"command", "batch"}
    <3>1. phase' # "debug_console_tick"
      BY <1>4, <2>1 DEF Next, NoKey, Type, Backspace, DrawViews, Enter, EnterCommand, EnterExit,
         EnterClear, Stop, Report, MachineChanges, CpuRw, CommandReturns, EndBatch,
         StoreLoc, StoreChar, StoreWrite, StoreClear, Store, Terminated
    <3> QED BY <3>1, <1>2
  <2>2. CASE phase = "debug_console_tick"
    <3>1. phase' # "debug_console_tick"
      BY <1>4, <2>2 DEF Next, NoKey, Type, Backspace, Proceed, Enter, EnterCommand, EnterExit,
         EnterClear, Stop, Report, Executing, MachineChanges, CpuRw, CommandReturns, EndBatch,
         StoreLoc, StoreChar, StoreWrite, StoreClear, Store, Terminated
    <3> QED BY <3>1, <1>2
  <2>3. CASE phase \in {"console_tick", "ended"}
    <3>1. UNCHANGED vars
      BY <1>4, <2>3 DEF Next, NoKey, Type, Backspace, DrawViews, Enter, EnterCommand, EnterExit,
         EnterClear, Stop, Report, Executing, MachineChanges, CpuRw, CommandReturns, EndBatch,
         StoreLoc, StoreChar, StoreWrite, StoreClear, Store, Terminated
    <3> QED BY <3>1, <1>3
  <2> QED BY <2>1, <2>2, <2>3 DEF TypeOK, Phases
<1> QED BY <1>1, <1>3, <1>4

LEMMA FreshNext == TypeOK /\ Fresh /\ [Next]_vars => Fresh'
<1> SUFFICES ASSUME TypeOK, Fresh, [Next]_vars PROVE Fresh' OBVIOUS
<1>t. /\ DOMAIN content = Text /\ DOMAIN screen = Text /\ Debug \in Text
      /\ dirty \in [Text \cup Views -> BOOLEAN] /\ erased \in SUBSET Ttys
  BY DEF TypeOK, Text
<1>v. ASSUME NEW w \in Text PROVE w \notin Views
  BY WindowsAssumption DEF Text, Views, Debug
<1>u. ASSUME UNCHANGED <<content, screen, erased>>, \A w \in Text : dirty'[w] = dirty[w]
      PROVE  Fresh'
  BY <1>u DEF Fresh
\* A step that writes into window d, and sets its flag.
<1>d. ASSUME NEW d \in Text, UNCHANGED <<screen, erased>>, dirty'[d],
             \A w \in Text \ {d} : content'[w] = content[w] /\ dirty'[w] = dirty[w]
      PROVE  Fresh'
  <2> SUFFICES ASSUME NEW w \in Text \ erased', NEW y \in RowsOf(w), NEW x \in ColsOf(w),
                      ~dirty'[w], Inside(w, y, x)
               PROVE  screen'[w][y][x] = content'[w][y][x]
    BY DEF Fresh
  <2>1. w # d BY <1>d
  <2> QED BY <2>1, <1>d DEF Fresh
<1>1. CASE UNCHANGED vars
  BY <1>1, <1>u DEF vars, window_vars, tty_vars
<1>2. CASE ConsoleTick
  <2> SUFFICES ASSUME NEW w \in Text \ erased', NEW y \in RowsOf(w), NEW x \in ColsOf(w),
                      Inside(w, y, x)
               PROVE  screen'[w][y][x] = content'[w][y][x]
    BY DEF Fresh
  <2>1. CASE Copied(w)
    BY <1>2, <2>1 DEF ConsoleTick
  <2>2. CASE ~Copied(w)
    <3>1. w \notin erased /\ ~dirty[w] BY <1>2, <2>2 DEF ConsoleTick, Copied
    <3>2. content'[w] = content[w] /\ screen'[w] = screen[w] BY <1>2, <2>2 DEF ConsoleTick
    <3> QED BY <3>1, <3>2 DEF Fresh
  <2> QED BY <2>1, <2>2
<1>3. CASE NoKey \/ EnterCommand \/ EnterExit
  <2>1. /\ UNCHANGED <<content, screen, erased>>
        /\ dirty' = [dirty EXCEPT !["registers"] = TRUE]
    BY <1>3 DEF NoKey, Enter, EnterCommand, EnterExit
  <2>2. \A w \in Text : dirty'[w] = dirty[w] BY <2>1, <1>t, <1>v DEF Views
  <2> QED BY <2>1, <2>2, <1>u
<1>4. ASSUME NEW k \in Keys, Type(k) PROVE Fresh'
  <2>1. /\ UNCHANGED <<screen, erased>>
        /\ dirty' = [dirty EXCEPT !["registers"] = TRUE, ![Debug] = TRUE]
        /\ \A w \in Text \ {Debug} : content'[w] = content[w]
    BY <1>4, <1>t DEF Type, PutChar
  <2>2. dirty'[Debug] /\ \A w \in Text \ {Debug} : dirty'[w] = dirty[w]
    BY <2>1, <1>t, <1>v DEF Views
  <2> QED BY <2>1, <2>2, <1>d, <1>t
<1>5. CASE Backspace
  <2>1. /\ UNCHANGED <<screen, erased>>
        /\ dirty' = [dirty EXCEPT !["registers"] = TRUE, ![Debug] = TRUE]
        /\ \A w \in Text \ {Debug} : content'[w] = content[w]
    BY <1>5, <1>t DEF Backspace, PutChar
  <2>2. dirty'[Debug] /\ \A w \in Text \ {Debug} : dirty'[w] = dirty[w]
    BY <2>1, <1>t, <1>v DEF Views
  <2> QED BY <2>1, <2>2, <1>d, <1>t
<1>6. CASE EnterClear
  <2>1. /\ content' = [content EXCEPT ![Debug] = Boxed(Debug, Empty(Debug))]
        /\ screen' = [screen EXCEPT ![Debug] = Boxed(Debug, Empty(Debug))]
        /\ dirty' = [dirty EXCEPT !["registers"] = TRUE] /\ erased' = erased
    BY <1>6 DEF EnterClear, Enter
  <2>2. screen'[Debug] = content'[Debug] BY <2>1, <1>t
  <2>3. \A w \in Text \ {Debug} :
          content'[w] = content[w] /\ screen'[w] = screen[w] /\ dirty'[w] = dirty[w]
    BY <2>1, <1>t, <1>v DEF Views
  <2> QED BY <2>1, <2>2, <2>3 DEF Fresh
<1>7. ASSUME NEW s \in Lines, Stop(s) \/ Report(s) PROVE Fresh'
  <2>1. /\ UNCHANGED <<screen, erased>>
        /\ dirty' = [dirty EXCEPT ![Debug] = TRUE]
        /\ \A w \in Text \ {Debug} : content'[w] = content[w]
    BY <1>7, <1>t DEF Stop, Report, Puts, tty_vars
  <2>2. dirty'[Debug] /\ \A w \in Text \ {Debug} : dirty'[w] = dirty[w] BY <2>1, <1>t
  <2> QED BY <2>1, <2>2, <1>d, <1>t
<1>8. CASE MachineChanges \/ CpuRw \/ CommandReturns \/ EndBatch
  BY <1>8, <1>u DEF MachineChanges, CpuRw, CommandReturns, EndBatch, window_vars, tty_vars
<1>9. ASSUME NEW t \in Ttys, StoreLoc(t) \/ StoreChar(t) PROVE Fresh'
  BY <1>9, <1>u DEF StoreLoc, StoreChar, Store
<1>10. ASSUME NEW t \in Ttys, StoreWrite(t) PROVE Fresh'
  <2>1. /\ UNCHANGED <<screen, erased>>
        /\ dirty' = [dirty EXCEPT ![t] = TRUE]
        /\ \A w \in Text \ {t} : content'[w] = content[w]
    BY <1>10, <1>t DEF StoreWrite, Store, Drawn, tty_vars
  <2>2. dirty'[t] /\ \A w \in Text \ {t} : dirty'[w] = dirty[w]
    BY <2>1, <1>t, TtyIsNoDebug
  <2> QED BY <2>1, <2>2, <1>d, TtyIsNoDebug
<1>11. ASSUME NEW t \in Ttys, StoreClear(t) PROVE Fresh'
  <2>1. /\ UNCHANGED <<screen, dirty>> /\ erased' = erased \cup {t}
        /\ \A w \in Text \ {t} : content'[w] = content[w]
    BY <1>11, <1>t DEF StoreClear, Store
  <2> QED BY <2>1 DEF Fresh
<1>12. CASE Terminated
  BY <1>12, <1>1 DEF Terminated
<1> QED BY <1>1, <1>2, <1>3, <1>4, <1>5, <1>6, <1>7, <1>8, <1>9, <1>10, <1>11, <1>12
      DEF Next

LEMMA Invariant == Spec => []IInv
<1>1. Init => IInv
  <2>1. Init => Entered /\ Fresh /\ Clean
    BY DEF Init, Entered, Fresh, Clean
  <2> QED BY <2>1, TypeInit, LineInit DEF IInv
<1>2. IInv /\ [Next]_vars => IInv'
  BY TypeNext, LineNext, EnteredNext, FreshNext, CleanNext DEF IInv
<1> QED BY <1>1, <1>2, PTL DEF Spec

\* The windows, the cursor and the latches keep their types: the cursor of the
\* debug window never leaves the line (window.c, debug.c, tty.c).
THEOREM TypeCorrect == Spec => []TypeOK
<1>1. IInv => TypeOK BY DEF IInv
<1> QED BY <1>1, Invariant, PTL

\* The command line the user sees is the one that will be executed, for any sizes
\* and any lines printed in between (window.c:54-70, debug.c:78-95).
THEOREM LineIsOnScreen == Spec => []LineOnScreen
<1>1. IInv => LineOnScreen
  <2> SUFFICES ASSUME IInv, phase = "debug_console_tick", ~interrupted
               PROVE  /\ ch_x = Len(buf) + 1
                      /\ \A x \in 1 .. Len(buf) : Inside(Debug, ch_y, x) =>
                           screen[Debug][ch_y][x] = buf[x]
    BY DEF LineOnScreen
  <2>1. Debug \in Text \ erased
    BY WindowsAssumption DEF IInv, TypeOK, Text
  <2>2. ~dirty[Debug] BY <2>1 DEF IInv, Clean
  <2>3. ASSUME NEW x \in 1 .. Len(buf), Inside(Debug, ch_y, x)
        PROVE  screen[Debug][ch_y][x] = buf[x]
    <3>1. ch_y \in RowsOf(Debug) /\ x \in ColsOf(Debug)
      BY <2>3, WindowsAssumption DEF Inside, RowsOf, ColsOf, Height, Width
    <3>2. screen[Debug][ch_y][x] = content[Debug][ch_y][x]
      BY <3>1, <2>1, <2>2, <2>3 DEF IInv, Fresh
    <3> QED BY <3>2, <2>3 DEF IInv, Line
  <2> QED BY <2>3 DEF IInv, Line
<1> QED BY <1>1, Invariant, PTL

\* No write to a window is lost on the way to the screen (window.c:30-40,
\* tty.c:17-21).
THEOREM ScreenIsUpToDate == Spec => []ScreenUpToDate
<1>1. IInv => ScreenUpToDate
  BY DEF IInv, Fresh, Clean, ScreenUpToDate
<1> QED BY <1>1, Invariant, PTL

-----------------------------------------------------------------------------
(* The terminals *)

\* Grids that agree in every place show the same.
LEMMA SamePlaces ==
  ASSUME NEW f, NEW g,
         \A t \in Ttys : \A a \in Byte :
           f[t][(a \div COLS) + 1][(a % COLS) + 1] = g[t][(a \div COLS) + 1][(a % COLS) + 1]
  PROVE  Places(f) = Places(g)
  BY DEF Places

LEMMA PlaceInGrid ==
  ASSUME NEW t \in Ttys, NEW a \in Byte
  PROVE  (a \div COLS) + 1 \in RowsOf(t) /\ (a % COLS) + 1 \in ColsOf(t)
  BY PlaceIsInside, TtyIsNoDebug, WindowsAssumption DEF RowsOf, ColsOf, Height, Width

\* An address has a place of its own.
LEMMA OnePlaceEach ==
  ASSUME NEW t \in Ttys, NEW a \in Byte, NEW l \in Byte
  PROVE  (a \div COLS) + 1 = Row(l) /\ (a % COLS) + 1 = Col(l) <=> a = l
<1> DEFINE q(n) == n \div COLS
           r(n) == n % COLS
<1>1. q(l) + 1 \in 1 .. ROWS /\ q(l) \in Int /\ q(a) \in Int /\ r(l) \in Int /\ r(a) \in Int
  BY PlaceIsInside, WindowsAssumption DEF Byte
<1>2. q(l) % ROWS = q(l) BY <1>1, WindowsAssumption
<1>3. Row(l) = q(l) + 1 /\ Col(l) = r(l) + 1 BY <1>2 DEF Row, Col
<1>4. a = q(a) * COLS + r(a) /\ l = q(l) * COLS + r(l) BY PlaceIsInside
<1> HIDE DEF q, r
<1>5. q(a) = q(l) /\ r(a) = r(l) => a = l BY <1>4
<1>6. q(a) + 1 = q(l) + 1 /\ r(a) + 1 = r(l) + 1 <=> q(a) = q(l) /\ r(a) = r(l)
  BY <1>1
<1>7. a = l => q(a) = q(l) /\ r(a) = r(l) OBVIOUS
<1>8. q(a) + 1 = Row(l) /\ r(a) + 1 = Col(l) <=> a = l BY <1>3, <1>5, <1>6, <1>7
<1> QED BY <1>8 DEF q, r

LEMMA EmptyPlaces ==
  ASSUME NEW t \in Ttys, NEW a \in Byte
  PROVE  Empty(t)[(a \div COLS) + 1][(a % COLS) + 1] = Blank
  BY PlaceInGrid DEF Empty

LEMMA BoxedPlaces ==
  ASSUME NEW t \in Ttys, NEW a \in Byte, NEW g
  PROVE  Boxed(t, g)[(a \div COLS) + 1][(a % COLS) + 1] = g[(a \div COLS) + 1][(a % COLS) + 1]
  BY PlaceInGrid, RowColInside DEF Boxed

LEMMA PutPlaces ==
  ASSUME NEW t \in Ttys, NEW a \in Byte, NEW l \in Byte, NEW g, NEW c
  PROVE  Put(t, g, Row(l), Col(l), c)[(a \div COLS) + 1][(a % COLS) + 1] =
           IF a = l THEN c ELSE g[(a \div COLS) + 1][(a % COLS) + 1]
  BY PlaceInGrid, OnePlaceEach DEF Put

LEMMA TerminalInit == Init => Abstract!Init
<1> SUFFICES ASSUME Init PROVE Abstract!Init OBVIOUS
<1>1. Places(content) = [t \in Ttys |-> [a \in Byte |-> Blank]]
  BY EmptyPlaces, TtyIsNoDebug DEF Init, Places
<1>2. Places(screen) = Places(content) BY DEF Init
<1> QED BY <1>1, <1>2 DEF Init, Abstract!Init, Abstract!Address, Byte

LEMMA TerminalNext == IInv /\ [Next]_vars => [Abstract!Next]_Abstract!vars
<1> SUFFICES ASSUME IInv, [Next]_vars PROVE [Abstract!Next]_Abstract!vars OBVIOUS
<1>t. /\ DOMAIN content = Text /\ DOMAIN screen = Text
      /\ tty_loc \in [Ttys -> Byte]
  BY DEF IInv, TypeOK
\* A step that leaves the ttys alone.
<1>u. ASSUME \A t \in Ttys : content'[t] = content[t] /\ screen'[t] = screen[t],
             UNCHANGED <<tty_loc, tty_char>>
      PROVE  [Abstract!Next]_Abstract!vars
  <2>1. Places(content') = Places(content) /\ Places(screen') = Places(screen)
    BY <1>u, SamePlaces
  <2>2. UNCHANGED <<Places(content), Places(screen), tty_loc, tty_char>>
    BY <2>1, <1>u
  <2> QED BY <2>2 DEF Abstract!vars
<1>1. CASE UNCHANGED vars
  BY <1>1, <1>u DEF vars, window_vars, tty_vars
<1>2. CASE ConsoleTick
  <2> DEFINE S == {t \in Ttys : Copied(t)}
  <2>1. Places(content') = Places(content)
    <3>1. \A t \in Ttys : \A a \in Byte :
            content'[t][(a \div COLS) + 1][(a % COLS) + 1] =
              content[t][(a \div COLS) + 1][(a % COLS) + 1]
      BY <1>2, BoxedPlaces, TtyIsNoDebug DEF ConsoleTick
    <3> QED BY <3>1, SamePlaces
  <2>2. Places(screen') =
          [t \in Ttys |-> IF t \in S THEN Places(content)[t] ELSE Places(screen)[t]]
    <3>1. \A t \in Ttys : \A a \in Byte :
            screen'[t][(a \div COLS) + 1][(a % COLS) + 1] =
              IF t \in S THEN content[t][(a \div COLS) + 1][(a % COLS) + 1]
                         ELSE screen[t][(a \div COLS) + 1][(a % COLS) + 1]
      BY <1>2, BoxedPlaces, TtyIsNoDebug DEF ConsoleTick
    <3> HIDE DEF S
    <3>2. \A t \in Ttys :
            [a \in Byte |-> screen'[t][(a \div COLS) + 1][(a % COLS) + 1]] =
              IF t \in S THEN Places(content)[t] ELSE Places(screen)[t]
      BY <3>1 DEF Places
    <3> QED BY <3>2 DEF Places
  <2>3. UNCHANGED <<tty_loc, tty_char>> BY <1>2 DEF ConsoleTick
  <2>4. S \in SUBSET Ttys OBVIOUS
  <2>5. Abstract!Show(S)
    BY <2>1, <2>2, <2>3 DEF Abstract!Show
  <2> QED BY <2>4, <2>5 DEF Abstract!Next
<1>3. CASE NoKey \/ EnterCommand \/ EnterExit
  BY <1>3, <1>u DEF NoKey, EnterCommand, EnterExit, Enter, DrawViews
<1>4. ASSUME NEW k \in Keys, Type(k) PROVE [Abstract!Next]_Abstract!vars
  <2>1. \A t \in Ttys : content'[t] = content[t]
    BY <1>4, <1>t, TtyIsNoDebug DEF Type, PutChar
  <2> QED BY <2>1, <1>4, <1>u DEF Type, DrawViews
<1>5. CASE Backspace
  <2>1. \A t \in Ttys : content'[t] = content[t]
    BY <1>5, <1>t, TtyIsNoDebug DEF Backspace, PutChar
  <2> QED BY <2>1, <1>5, <1>u DEF Backspace, DrawViews
<1>6. CASE EnterClear
  <2>1. \A t \in Ttys : content'[t] = content[t] /\ screen'[t] = screen[t]
    BY <1>6, <1>t, TtyIsNoDebug DEF EnterClear
  <2> QED BY <2>1, <1>6, <1>u DEF EnterClear, Enter, DrawViews
<1>7. ASSUME NEW s \in Lines, Stop(s) \/ Report(s) PROVE [Abstract!Next]_Abstract!vars
  <2>1. \A t \in Ttys : content'[t] = content[t] /\ screen'[t] = screen[t]
    BY <1>7, <1>t, TtyIsNoDebug DEF Stop, Report, Puts
  <2> QED BY <2>1, <1>7, <1>u DEF Stop, Report, tty_vars
<1>8. CASE MachineChanges \/ CpuRw \/ CommandReturns \/ EndBatch
  BY <1>8, <1>u DEF MachineChanges, CpuRw, CommandReturns, EndBatch, window_vars, tty_vars
<1>9. ASSUME NEW t \in Ttys, StoreLoc(t) PROVE Abstract!Next
  <2>1. UNCHANGED <<content, screen, tty_char>> BY <1>9 DEF StoreLoc, Store
  <2>2. \E a \in 0 .. ROWS * COLS - 1 : tty_loc' = [tty_loc EXCEPT ![t] = a]
    BY <1>9 DEF StoreLoc, Byte
  <2>3. Abstract!StoreLoc(t) BY <2>1, <2>2 DEF Abstract!StoreLoc, Abstract!Address, Places
  <2> QED BY <2>3 DEF Abstract!Next
<1>10. ASSUME NEW t \in Ttys, StoreChar(t) PROVE Abstract!Next
  <2>1. UNCHANGED <<content, screen, tty_loc>> BY <1>10 DEF StoreChar, Store
  <2>2. Abstract!StoreChar(t)
    BY <2>1, <1>10 DEF StoreChar, Abstract!StoreChar, Places
  <2> QED BY <2>2 DEF Abstract!Next
<1>11. ASSUME NEW t \in Ttys, StoreWrite(t) PROVE Abstract!Next
  <2>1. UNCHANGED <<screen, tty_loc, tty_char>> BY <1>11 DEF StoreWrite, Store, tty_vars
  <2>2. tty_loc[t] \in Byte BY <1>t
  <2>3. content' = [content EXCEPT ![t] =
          Put(t, content[t], Row(tty_loc[t]), Col(tty_loc[t]), tty_char[t])]
    BY <1>11 DEF StoreWrite
  <2>4. \A a \in Byte : content'[t][(a \div COLS) + 1][(a % COLS) + 1] =
          IF a = tty_loc[t] THEN tty_char[t] ELSE content[t][(a \div COLS) + 1][(a % COLS) + 1]
    BY <2>2, <2>3, <1>t, PutPlaces, TtyIsNoDebug
  <2>5. \A u \in Ttys \ {t} : content'[u] = content[u]
    BY <2>3, <1>t, TtyIsNoDebug
  <2>6. Places(content') = [Places(content) EXCEPT ![t][tty_loc[t]] = tty_char[t]]
    <3>1. Places(content')[t] = [Places(content)[t] EXCEPT ![tty_loc[t]] = tty_char[t]]
      BY <2>4 DEF Places
    <3>2. \A u \in Ttys \ {t} : Places(content')[u] = Places(content)[u]
      BY <2>5 DEF Places
    <3> QED BY <3>1, <3>2 DEF Places
  <2>7. Abstract!Write(t) BY <2>1, <2>6 DEF Abstract!Write, Places
  <2> QED BY <2>7 DEF Abstract!Next
<1>12. ASSUME NEW t \in Ttys, StoreClear(t) PROVE Abstract!Next
  <2>1. UNCHANGED <<screen, tty_loc, tty_char>> BY <1>12 DEF StoreClear, Store
  <2>2. content'[t] = Empty(t) /\ \A u \in Ttys \ {t} : content'[u] = content[u]
    BY <1>12, <1>t, TtyIsNoDebug DEF StoreClear
  <2>3. Places(content') = [Places(content) EXCEPT ![t] = [a \in Byte |-> Blank]]
    <3>1. Places(content')[t] = [a \in Byte |-> Blank]
      BY <2>2, EmptyPlaces DEF Places
    <3>2. \A u \in Ttys \ {t} : Places(content')[u] = Places(content)[u]
      BY <2>2 DEF Places
    <3> QED BY <3>1, <3>2 DEF Places
  <2>4. Abstract!Clear(t)
    BY <2>1, <2>3 DEF Abstract!Clear, Abstract!Address, Places, Byte
  <2> QED BY <2>4 DEF Abstract!Next
<1>13. CASE Terminated
  BY <1>13, <1>1 DEF Terminated
<1> QED BY <1>1, <1>2, <1>3, <1>4, <1>5, <1>6, <1>7, <1>8, <1>9, <1>10, <1>11, <1>12,
           <1>13 DEF Next

\* Every tty is a terminal of its own, for any number of ttys and any size
\* (tty.c:17-21, 68-75).
THEOREM TtysAreTerminals == Spec => ImplementsTerminal
<1>1. Spec => Abstract!Init /\ [][Abstract!Next]_Abstract!vars
  BY TerminalInit, TerminalNext, Invariant, PTL DEF Spec
<1> QED BY <1>1 DEF ImplementsTerminal, Abstract!Spec
=============================================================================
