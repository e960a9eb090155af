------------------------------ MODULE Windows ------------------------------
(***************************************************************************)
(* What the user sees: the windows of window.c with their contents, their  *)
(* dirty flags and the cursor of the debug window; the line editor and the *)
(* two views of debug.c; the output half of tty.c; and everything else     *)
(* that prints a line.  Which window a key goes to is ConsoleInput's.      *)
(*                                                                         *)
(* A text window (the ttys and "debug") is a grid, content[w][y][x], whose *)
(* outermost cells are overwritten by the frame whenever the window is     *)
(* copied to the screen.  A view is the picture of the machine it shows.   *)
(* Characters are printable ones: one cell each.                           *)
(***************************************************************************)
EXTENDS Integers, Sequences

CONSTANTS
  Ttys,           (* the window_name of every tty                           *)
  ROWS, COLS,     (* the size of a tty: 8 and 32, 256 places for a byte     *)
  HEIGHT, WIDTH,  (* the size of the debug window with its frame: 32 by 32  *)
  CMD_SIZE,       (* the size of the command buffer of debug.c              *)
  Glyphs,         (* the characters                                         *)
  Keys,           (* those the user types into the debug window             *)
  Lines,          (* the texts printed in the debug window                  *)
  Pictures,       (* what the views show of a machine                       *)
  Shifted,        (* a picture of registers in the wrong places             *)
  Blank, Frame, NUL,
  MaxY            (* bound: the row of the cursor of the debug window       *)

Debug == "debug"
Text  == Ttys \cup {Debug}
Views == {"registers", "favmem"}
Byte  == 0 .. ROWS * COLS - 1
Cell  == Glyphs \cup {Blank, Frame}
Drawing == Pictures \cup {Blank, Shifted}

ASSUME WindowsAssumption ==
  /\ Ttys \cap (Views \cup {Debug}) = {}
  /\ ROWS \in Nat \ {0} /\ COLS \in Nat \ {0}
  /\ HEIGHT \in Nat \ {0} /\ WIDTH \in Nat \ {0}
  /\ CMD_SIZE \in Nat \ {0}
  /\ Keys \subseteq Glyphs
  /\ Lines \subseteq Seq(Glyphs)
  /\ Frame \notin Glyphs /\ NUL \notin Glyphs
  /\ Shifted \notin Pictures
  /\ MaxY \in Nat

VARIABLES
  phase,               \* the stage of the main loop; "ended" after exit
  cpu_running,         \* main.c
  content, screen,     \* of the text windows: ncurses' buffer, the terminal
  picture, seen,       \* the same of the views
  dirty,               \* window.c
  ch_x, ch_y,          \* window.c, of the debug window
  buf,                 \* debug.c: the command line; Len(buf) is its i
  tty_loc, tty_char,   \* tty.c
  machine,             \* what the views would show of the machine
  half_way,            \* where the register iterator is: behind some registers
  interrupted,         \* history: a batch printed over the line being typed
  erased               \* history: the ttys cleared since they were last copied

machine_vars == <<cpu_running, machine, half_way>>
window_vars  == <<content, screen, picture, seen, dirty>>
cursor       == <<ch_x, ch_y, buf, interrupted>>
tty_vars     == <<tty_loc, tty_char, erased>>
vars         == <<phase, machine_vars, window_vars, cursor, tty_vars>>

Phases == {"console_tick", "debug_console_tick", "command", "batch", "ended"}

Height(w) == IF w = Debug THEN HEIGHT ELSE ROWS + 2
Width(w)  == IF w = Debug THEN WIDTH ELSE COLS + 2

RowsOf(w) == 0 .. Height(w) - 1
ColsOf(w) == 0 .. Width(w) - 1

Inside(w, y, x) == y \in 1 .. Height(w) - 2 /\ x \in 1 .. Width(w) - 2

TypeOK ==
  /\ phase \in Phases
  /\ cpu_running \in BOOLEAN /\ machine \in Pictures /\ half_way \in BOOLEAN
  /\ DOMAIN content = Text /\ DOMAIN screen = Text
  /\ \A w \in Text : /\ content[w] \in [RowsOf(w) -> [ColsOf(w) -> Cell]]
                     /\ screen[w] \in [RowsOf(w) -> [ColsOf(w) -> Cell]]
  /\ picture \in [Views -> Drawing]
  /\ seen \in [Views -> Drawing]
  /\ dirty \in [Text \cup Views -> BOOLEAN]
  /\ ch_x \in 1 .. CMD_SIZE + 1 /\ ch_y \in Nat \ {0}
  /\ buf \in Seq(Keys) /\ Len(buf) <= CMD_SIZE
  /\ tty_loc \in [Ttys -> Byte] /\ tty_char \in [Ttys -> Glyphs \cup {NUL}]
  /\ interrupted \in BOOLEAN
  /\ erased \in SUBSET Ttys

-----------------------------------------------------------------------------
(* ncurses and window.c *)

\* A window with nothing in it.
Empty(w) == [y \in RowsOf(w) |-> [x \in ColsOf(w) |-> Blank]]

\* box(), and the title on the frame.
Boxed(w, g) ==
  [y \in RowsOf(w) |-> [x \in ColsOf(w) |->
     IF Inside(w, y, x) THEN g[y][x] ELSE Frame]]

\* mvwaddch(): nothing happens outside the window.
Put(w, g, row, col, c) ==
  [y \in RowsOf(w) |-> [x \in ColsOf(w) |->
     IF y = row /\ x = col THEN c ELSE g[y][x]]]

\* mvwprintw() of a line at column 1: it goes on at the left edge of the next
\* row, and ends at the end of the window.
Printed(w, g, row, s) ==
  LET At(y, x) == (y - row) * Width(w) + x
  IN  [y \in RowsOf(w) |-> [x \in ColsOf(w) |->
         IF row < Height(w) /\ At(y, x) \in 1 .. Len(s)
           THEN s[At(y, x)] ELSE g[y][x]]]

\* Mutant: only the registers are drawn on every turn.
ForcedRegisters == {"registers"}

\* The windows console_tick() makes dirty.
Forced == Views

Copied(w) == dirty[w] \/ w \in Forced

\* console_tick(): update_windows() copies the dirty windows to the screen.
ConsoleTick ==
  /\ phase = "console_tick"
  /\ content' = [w \in Text |-> IF Copied(w) THEN Boxed(w, content[w]) ELSE content[w]]
  /\ screen' = [w \in Text |-> IF Copied(w) THEN Boxed(w, content[w]) ELSE screen[w]]
  /\ seen' = [v \in Views |-> IF Copied(v) THEN picture[v] ELSE seen[v]]
  /\ dirty' = [w \in Text \cup Views |-> FALSE]
  /\ erased' = {t \in erased : ~Copied(t)}
  /\ phase' = "debug_console_tick"
  /\ UNCHANGED <<machine_vars, picture, cursor, tty_loc, tty_char>>

-----------------------------------------------------------------------------
(* debug_console_tick() *)

\* registers_window_tick() and favmem_window_tick(); only window_puts() sets dirty.
\* The registers are drawn from where the iterator is, up to its end.
DrawViews ==
  /\ phase = "debug_console_tick"
  /\ picture' = [v \in Views |->
                   IF v = "registers" /\ half_way THEN Shifted ELSE machine]
  /\ half_way' = FALSE
  /\ UNCHANGED <<cpu_running, machine, seen, tty_loc, tty_char>>

\* sys_tick draws nothing here; then comes the batch.
Proceed == phase' = IF cpu_running THEN "batch" ELSE "console_tick"

\* No key for the debugger.
NoKey ==
  /\ DrawViews
  /\ dirty' = [dirty EXCEPT !["registers"] = TRUE]
  /\ Proceed
  /\ UNCHANGED <<content, screen, cursor, erased>>

\* window_putc() of a character that is no newline.
PutChar(c, x) == [content EXCEPT ![Debug] = Put(Debug, content[Debug], ch_y, x, c)]

\* A character; the one after the buffer is full ends the process.
Type(k) ==
  /\ DrawViews
  /\ IF Len(buf) < CMD_SIZE
       THEN /\ buf' = Append(buf, k)
            /\ content' = PutChar(k, ch_x)
            /\ ch_x' = ch_x + 1
            /\ Proceed
       ELSE phase' = "ended" /\ UNCHANGED <<buf, content, ch_x>>
  /\ dirty' = [dirty EXCEPT !["registers"] = TRUE, ![Debug] = TRUE]
  /\ UNCHANGED <<screen, ch_y, interrupted, erased>>

\* Mutant: the cursor goes left also on an empty line.
AlwaysErases == TRUE

CanErase == buf # << >>

\* Mutant: the cursor stays behind the blank.
AfterBlank(x) == x

\* ch_x goes back before and after the blank is written.
AfterErasing(x) == x - 1

Backspace ==
  /\ DrawViews
  /\ CanErase
  /\ buf' = SubSeq(buf, 1, Len(buf) - 1)
  /\ content' = PutChar(Blank, ch_x - 1)
  /\ ch_x' = AfterErasing(ch_x)
  /\ dirty' = [dirty EXCEPT !["registers"] = TRUE, ![Debug] = TRUE]
  /\ Proceed
  /\ UNCHANGED <<screen, ch_y, interrupted, erased>>

\* A newline: the buffer starts again, and the line is a command.  A full buffer
\* has no room for its end.
Enter(next) ==
  /\ DrawViews
  /\ ch_y < MaxY
  /\ buf' = << >>
  /\ interrupted' = FALSE
  /\ dirty' = [dirty EXCEPT !["registers"] = TRUE]
  /\ phase' = IF Len(buf) < CMD_SIZE THEN next ELSE "ended"
  /\ UNCHANGED erased

EnterCommand ==
  /\ Enter("command")
  /\ ch_y' = ch_y + 1 /\ ch_x' = 1
  /\ UNCHANGED <<content, screen>>

EnterExit ==
  /\ Enter("ended")
  /\ ch_y' = ch_y + 1 /\ ch_x' = 1
  /\ UNCHANGED <<content, screen>>

\* `clear`: update_window() copies the window whatever its dirty flag is.
EnterClear ==
  /\ Len(buf) < CMD_SIZE
  /\ Enter(IF cpu_running THEN "batch" ELSE "console_tick")
  /\ ch_y' = 1 /\ ch_x' = 1
  /\ content' = [content EXCEPT ![Debug] = Boxed(Debug, Empty(Debug))]
  /\ screen' = [screen EXCEPT ![Debug] = Boxed(Debug, Empty(Debug))]

-----------------------------------------------------------------------------
(* A command, and the batch *)

\* Instructions are executed in a batch, and by `break step` and
\* `break continue`.
Executing == phase \in {"command", "batch"}

\* window_puts()
Puts(s) ==
  /\ ch_y < MaxY
  /\ content' = [content EXCEPT ![Debug] = Printed(Debug, content[Debug], ch_y, s)]
  /\ ch_y' = ch_y + 1
  /\ dirty' = [dirty EXCEPT ![Debug] = TRUE]
  /\ UNCHANGED <<screen, picture, seen, ch_x, buf>>

\* The line of a breakpoint or an EBREAK, which stops the CPU.
Stop(s) ==
  /\ Executing
  /\ Puts(s)
  /\ cpu_running' = FALSE
  /\ interrupted' = (interrupted \/ buf # << >>)
  /\ UNCHANGED <<phase, machine, half_way, tty_vars>>

\* A line of a command's own.
Report(s) ==
  /\ phase = "command"
  /\ Puts(s)
  /\ UNCHANGED <<phase, machine_vars, interrupted, tty_vars>>

\* An instruction, a cpu jmp or a logger load.  A cycle of a batch may be recorded:
\* the logger takes the iterator to its end.
MachineChanges ==
  /\ Executing
  /\ machine' \in Pictures
  /\ half_way' \in (IF phase = "batch" THEN {half_way, FALSE} ELSE {half_way})
  /\ UNCHANGED <<phase, cpu_running, window_vars, cursor, tty_vars>>

\* cpu rw: the iterator stays behind the register, if there is one of that name.
CpuRw ==
  /\ phase = "command"
  /\ machine' \in Pictures
  /\ half_way' \in BOOLEAN
  /\ phase' = IF cpu_running THEN "batch" ELSE "console_tick"
  /\ UNCHANGED <<cpu_running, window_vars, cursor, tty_vars>>

\* `break continue` starts the CPU as its last step.
CommandReturns ==
  /\ phase = "command"
  /\ \/ cpu_running' = TRUE
     \/ UNCHANGED cpu_running
  /\ phase' = IF cpu_running' THEN "batch" ELSE "console_tick"
  /\ UNCHANGED <<machine, half_way, window_vars, cursor, tty_vars>>

\* cpu_speed instructions are done, or the CPU has stopped.
EndBatch ==
  /\ phase = "batch"
  /\ phase' = "console_tick"
  /\ UNCHANGED <<machine_vars, window_vars, cursor, tty_vars>>

-----------------------------------------------------------------------------
(* tty.c *)

Store == Executing /\ UNCHANGED <<phase, machine_vars, screen, picture, seen, cursor>>

StoreLoc(t) ==
  /\ Store
  /\ \E l \in Byte : tty_loc' = [tty_loc EXCEPT ![t] = l]
  /\ UNCHANGED <<content, dirty, tty_char, erased>>

StoreChar(t) ==
  /\ Store
  /\ \E c \in Glyphs : tty_char' = [tty_char EXCEPT ![t] = c]
  /\ UNCHANGED <<content, dirty, tty_loc, erased>>

\* Mutant: the frame is not skipped.
ColFromZero(l) == l % COLS

Row(l) == ((l \div COLS) % ROWS) + 1
Col(l) == (l % COLS) + 1

\* Mutant: a draw leaves the window as clean as it was.
StaysClean(t) == dirty

Drawn(t) == [dirty EXCEPT ![t] = TRUE]

\* draw(), of a character that was stored.
StoreWrite(t) ==
  /\ Store
  /\ tty_char[t] # NUL
  /\ content' = [content EXCEPT ![t] =
       Put(t, content[t], Row(tty_loc[t]), Col(tty_loc[t]), tty_char[t])]
  /\ dirty' = Drawn(t)
  /\ UNCHANGED tty_vars

\* wclear(), which leaves the screen and dirty alone.
StoreClear(t) ==
  /\ Store
  /\ content' = [content EXCEPT ![t] = Empty(t)]
  /\ erased' = erased \cup {t}
  /\ UNCHANGED <<dirty, tty_loc, tty_char>>

-----------------------------------------------------------------------------
\* console_create_windows() and CreateTty()
Init ==
  /\ phase = "console_tick"
  /\ cpu_running = FALSE /\ machine \in Pictures /\ half_way = FALSE
  /\ content = [w \in Text |-> Empty(w)] /\ screen = content
  /\ picture = [v \in Views |-> Blank] /\ seen = picture
  /\ dirty = [w \in Text \cup Views |-> TRUE]
  /\ ch_x = 1 /\ ch_y = 1 /\ buf = << >>
  /\ tty_loc = [t \in Ttys |-> 0] /\ tty_char = [t \in Ttys |-> NUL]
  /\ interrupted = FALSE /\ erased = {}

\* exit(), or an overrun of buf
Terminated == phase = "ended" /\ UNCHANGED vars

Next ==
  \/ ConsoleTick
  \/ NoKey
  \/ \E k \in Keys : Type(k)
  \/ Backspace
  \/ EnterCommand
  \/ EnterExit
  \/ EnterClear
  \/ \E s \in Lines : Stop(s) \/ Report(s)
  \/ MachineChanges
  \/ CpuRw
  \/ CommandReturns
  \/ EndBatch
  \/ \E t \in Ttys :
       \/ StoreLoc(t)
       \/ StoreChar(t)
       \/ StoreWrite(t)
       \/ StoreClear(t)
  \/ Terminated

Spec == Init /\ [][Next]_vars

\* A turn of the main loop blocks nowhere: getch() returns at once, a batch has
\* cpu_speed instructions and a command comes to its end.
Fairness ==
  /\ WF_vars(ConsoleTick)
  /\ WF_vars(phase = "debug_console_tick" /\ Next)
  /\ WF_vars(CommandReturns)
  /\ WF_vars(EndBatch)

FairSpec == Spec /\ Fairness
-----------------------------------------------------------------------------
(* Properties *)

\* When the emulator looks for a key, the part of the command line that fits the
\* window is on the screen, left of the cursor, as it will be executed: whatever
\* was printed, erased, cleared and drawn before, unless a batch printed a line
\* over it (window.c:54-70, debug.c:78-95).
LineOnScreen ==
  phase = "debug_console_tick" /\ ~interrupted =>
    /\ ch_x = Len(buf) + 1
    /\ \A x \in 1 .. Len(buf) :
         Inside(Debug, ch_y, x) => screen[Debug][ch_y][x] = buf[x]

\* When the emulator looks for a key, the screen shows the contents of every text
\* window: no write waits for a dirty flag that was lost or never set, but for the
\* clears of a tty (window.c:30-40, tty.c:17-21, tty.c:73).
ScreenUpToDate ==
  phase = "debug_console_tick" =>
    \A w \in Text \ erased : \A y \in RowsOf(w) : \A x \in ColsOf(w) :
      Inside(w, y, x) => screen[w][y][x] = content[w][y][x]

\* The places of the ttys in the order of their addresses.
Places(grids) ==
  [t \in Ttys |-> [a \in Byte |-> grids[t][(a \div COLS) + 1][(a % COLS) + 1]]]

Abstract == INSTANCE Terminal WITH
  Size  <- ROWS * COLS,
  loc   <- tty_loc,
  char  <- tty_char,
  cells <- Places(content),
  shown <- Places(screen)

\* Every tty is a terminal of ROWS * COLS places of its own: no two addresses
\* share a place, none lies under the frame, and neither the other tty, the debug
\* window nor the redrawing touches it (tty.c:17-21, 68-75).
ImplementsTerminal == Abstract!Spec

\* A machine that rests is what the views come to show, though they are drawn
\* after the screen is updated and one of them never sets its flag; the registers
\* once no `cpu rw` leaves the iterator behind one of them any more, which moves
\* the next drawing up (console.c:44-46, debug.c:48-67, arch.c:23-33).
ViewsCatchUp ==
  \A p \in Pictures :
    /\ <>[](machine = p /\ phase # "ended") => <>[](seen["favmem"] = p)
    /\ <>[](machine = p /\ ~half_way /\ phase # "ended") => <>[](seen["registers"] = p)
=============================================================================
