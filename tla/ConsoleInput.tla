---------------------------- MODULE ConsoleInput ----------------------------
(***************************************************************************)
(* The path of a key press through the emulator: getch() and the focus     *)
(* switch of console.c, the line editor of debug.c, the one-key latch of   *)
(* tty.c, and the guest program that polls the latch.  Everything runs in  *)
(* the single thread of main(), one stage after the other; `phase` is the  *)
(* stage the main loop executes next.                                      *)
(*                                                                         *)
(* A key is <<w, n>>: the n-th key typed while window w had the focus, so  *)
(* that a key that is lost, repeated, reordered or delivered to the wrong  *)
(* window shows.  No part of the modelled code looks at the character, but *)
(* for ctrl-w, enter and backspace, which are alternatives of the actions. *)
(***************************************************************************)
EXTENDS Integers, SequencesExt

CONSTANTS
  Ttys,      (* the focused_window of every tty created by sys_init:        *)
             (* {0, 1} on the taurus, {0} on the 8080                       *)
  Speeds,    (* the values `cpu speed` may give to cpu_speed (an int)       *)
  CMD_SIZE,  (* the size of the command buffer of debug.c                   *)
  MaxKeys,   (* bound: keys typed into one window                           *)
  MaxStep,   (* bound: the argument of `break step`                         *)
  ERR,       (* ncurses' "no key"                                           *)
  NUL        (* the zero a static variable starts with                      *)

FOCUSED_WINDOW_TTY         == 0
FOCUSED_WINDOW_DBG_CONSOLE == 2
FOCUSED_WINDOW_MAX         == 3

Windows   == 0 .. FOCUSED_WINDOW_MAX - 1
Consumers == Ttys \cup {FOCUSED_WINDOW_DBG_CONSOLE}
Key       == Windows \X (Nat \ {0})

ASSUME ConsoleAssumption ==
  /\ Ttys \subseteq Windows \ {FOCUSED_WINDOW_DBG_CONSOLE}
  /\ Speeds \subseteq Int
  /\ CMD_SIZE \in Nat \ {0}
  /\ MaxKeys \in Nat
  /\ MaxStep \in Nat
  /\ ERR \notin Key /\ NUL \notin Key /\ ERR # NUL

VARIABLES
  alive,         \* FALSE once the process has exited or aborted
  phase,         \* the stage of the main loop that runs next
  i,             \* the loop counter of the batch, or of `break step`
  cpu_running,   \* main.c
  cpu_speed,     \* main.c
  current_focused_window, iskbhit, ch,   \* console.c
  buf,           \* debug.c: the keys of the command line, Len(buf) is its i
  user_ascii, user_ready,                \* tty.c, per tty
  reading,       \* guest: the ttys seen ready whose character is not read yet
  typed,         \* history: the number of keys typed into each window
  delivered      \* history: the keys the guest has read from each tty

console == <<current_focused_window, iskbhit, ch>>
guest   == <<user_ready, reading, delivered>>
vars    == <<alive, phase, i, cpu_running, cpu_speed, console, buf,
             user_ascii, guest, typed>>

Phases == {"console_tick", "debug_console_tick", "break_step",
           "break_continue", "sys_tick", "batch"}

TypeOK ==
  /\ alive \in BOOLEAN
  /\ phase \in Phases
  /\ i \in Nat /\ (phase = "break_step" => i > 0)
  /\ cpu_running \in BOOLEAN
  /\ cpu_speed \in Int
  /\ current_focused_window \in Windows
  /\ iskbhit \in BOOLEAN
  /\ ch \in Key \cup {ERR, NUL}
  /\ buf \in Seq(Key \cup {ERR, NUL})
  /\ user_ascii \in [Ttys -> Key \cup {ERR, NUL}]
  /\ user_ready \in [Ttys -> BOOLEAN]
  /\ reading \in SUBSET Ttys
  /\ typed \in [Windows -> Nat]
  /\ delivered \in [Ttys -> Seq(Key \cup {ERR, NUL})]

Init ==
  /\ alive = TRUE /\ phase = "console_tick" /\ i = 0
  /\ cpu_running = FALSE
  /\ cpu_speed \in Speeds
  /\ current_focused_window = FOCUSED_WINDOW_TTY
  /\ iskbhit = FALSE /\ ch = NUL
  /\ buf = << >>
  /\ user_ascii = [t \in Ttys |-> NUL]
  /\ user_ready = [t \in Ttys |-> FALSE]
  /\ reading = {}
  /\ typed = [w \in Windows |-> 0]
  /\ delivered = [t \in Ttys |-> << >>]

-----------------------------------------------------------------------------
(* console.c *)

\* Mutant: the key is offered to a window whether it has the focus or not.
KbhitAnyWindow(w) == iskbhit

console_window_kbhit(w) == iskbhit /\ current_focused_window = w

console_window_getch(w) == IF console_window_kbhit(w) THEN ch ELSE ERR

\* Mutant: the focus runs past the last window.
FocusOverrun == current_focused_window + 1

NextFocus == (current_focused_window + 1) % FOCUSED_WINDOW_MAX

\* Mutant: ctrl-w moves the focus and leaves a key for the new window.
CtrlWKeepsHit ==
  /\ iskbhit' = TRUE
  /\ current_focused_window' = NextFocus
  /\ ch' = ERR
  /\ UNCHANGED typed

\* console_process_char() on ctrl-w: the key is swallowed and the focus moves.
CtrlW ==
  /\ iskbhit' = FALSE
  /\ current_focused_window' = NextFocus
  /\ ch' = ERR
  /\ UNCHANGED typed

\* getch() finds no key: ch is overwritten, iskbhit is not.
NoKey ==
  /\ ch' = ERR
  /\ UNCHANGED <<iskbhit, current_focused_window, typed>>

PressKey ==
  LET w == current_focused_window IN
  /\ typed[w] < MaxKeys
  /\ typed' = [typed EXCEPT ![w] = @ + 1]
  /\ ch' = <<w, typed[w] + 1>>
  /\ iskbhit' = TRUE
  /\ UNCHANGED current_focused_window

console_tick ==
  /\ alive /\ phase = "console_tick"
  /\ NoKey \/ PressKey \/ CtrlW
  /\ phase' = "debug_console_tick"
  /\ UNCHANGED <<alive, i, cpu_running, cpu_speed, buf, user_ascii, guest>>

-----------------------------------------------------------------------------
(* debug.c *)

\* debug_console_tick() finds no key for the debug window.
DebugIdle ==
  /\ alive /\ phase = "debug_console_tick"
  /\ console_window_getch(FOCUSED_WINDOW_DBG_CONSOLE) = ERR
  /\ iskbhit' = (iskbhit /\ ~console_window_kbhit(FOCUSED_WINDOW_DBG_CONSOLE))
  /\ phase' = "sys_tick"
  /\ UNCHANGED <<alive, i, cpu_running, cpu_speed, current_focused_window, ch,
                 buf, user_ascii, guest, typed>>

DebugGetch ==
  /\ alive /\ phase = "debug_console_tick"
  /\ console_window_getch(FOCUSED_WINDOW_DBG_CONSOLE) # ERR
  /\ iskbhit' = FALSE
  /\ UNCHANGED <<current_focused_window, ch, user_ascii, guest, typed>>

\* A character or a backspace.  The code stores at buf[i] with no bound check;
\* the build (-fsanitize=address) aborts on the store to buf[CMD_SIZE].
EditLine ==
  /\ DebugGetch
  /\ \/ /\ Len(buf) < CMD_SIZE
        /\ buf' = Append(buf, console_window_getch(FOCUSED_WINDOW_DBG_CONSOLE))
        /\ phase' = "sys_tick" /\ UNCHANGED alive
     \/ /\ buf' = IF buf = << >> THEN buf ELSE Front(buf)
        /\ phase' = "sys_tick" /\ UNCHANGED alive
     \/ /\ Len(buf) >= CMD_SIZE
        /\ alive' = FALSE /\ UNCHANGED <<buf, phase>>
  /\ UNCHANGED <<i, cpu_running, cpu_speed>>

\* Enter hands the line to handle_command(); what the commands do to the state
\* of this module is all that is kept of them.
EnterCommand ==
  /\ DebugGetch
  /\ buf' = << >>
  /\ \/ /\ Len(buf) >= CMD_SIZE                    \* buf[i] = '\0' overruns
        /\ alive' = FALSE /\ UNCHANGED <<phase, i, cpu_speed>>
     \/ /\ alive' = FALSE                          \* exit, or an abort
        /\ UNCHANGED <<phase, i, cpu_speed>>
     \/ /\ cpu_speed' \in Speeds                   \* cpu speed <n>
        /\ phase' = "sys_tick" /\ UNCHANGED <<alive, i>>
     \/ /\ i' \in 1 .. MaxStep                     \* break step <n>
        /\ phase' = "break_step" /\ UNCHANGED <<alive, cpu_speed>>
     \/ /\ phase' = "break_continue"               \* break continue
        /\ UNCHANGED <<alive, i, cpu_speed>>
     \/ /\ phase' = "sys_tick"                     \* the other commands
        /\ UNCHANGED <<alive, i, cpu_speed>>
  /\ UNCHANGED cpu_running

-----------------------------------------------------------------------------
(* tty.c *)

\* Mutant: a key that comes while another one waits is dropped.
TtyKeepsFirst(t) == console_window_kbhit(t) /\ ~user_ready[t]

TtyTakes(t) == console_window_kbhit(t)

\* Mutant: the key is latched and the guest is not told.
NeverReady(t) == user_ready[t]

ReadyAfterTick(t) == user_ready[t] \/ TtyTakes(t)

\* Tty_Tick(): the latch is overwritten whether or not the guest has read it.
\* main() then runs a batch of cpu_speed steps, or none.
sys_tick ==
  /\ alive /\ phase = "sys_tick"
  /\ user_ascii' = [t \in Ttys |->
       IF TtyTakes(t) THEN console_window_getch(t) ELSE user_ascii[t]]
  /\ user_ready' = [t \in Ttys |-> ReadyAfterTick(t)]
  /\ iskbhit' = (iskbhit /\ ~\E t \in Ttys : console_window_kbhit(t))
  /\ i' = 0
  /\ phase' = IF cpu_running /\ 0 < cpu_speed THEN "batch" ELSE "console_tick"
  /\ UNCHANGED <<alive, cpu_running, cpu_speed, current_focused_window, ch,
                 buf, reading, delivered, typed>>

\* Mutant: reading the ready flag leaves it set.
ReadyStays(t) == user_ready

\* The value of user_ready once Tty_ByteLoad has returned it for tty t.
ReadyAfterLoad(t) == [user_ready EXCEPT ![t] = FALSE]

\* The guest loads USER_READY of tty t; if it was set the guest goes on to
\* load USER_ASCII, otherwise it polls again.
Poll(t) ==
  /\ t \notin reading
  /\ user_ready' = ReadyAfterLoad(t)
  /\ reading' = IF user_ready[t] THEN reading \cup {t} ELSE reading
  /\ UNCHANGED delivered

\* The guest loads USER_ASCII of tty t.
ReadAscii(t) ==
  /\ t \in reading
  /\ delivered' = [delivered EXCEPT ![t] = Append(@, user_ascii[t])]
  /\ reading' = reading \ {t}
  /\ UNCHANGED user_ready

Load(t) == Poll(t) \/ ReadAscii(t)

\* One instruction of the guest: a load of a tty register or any other one.
Instruction == UNCHANGED guest \/ \E t \in Ttys : Load(t)

-----------------------------------------------------------------------------
(* main.c and the commands of breakpoint.c that step the CPU *)

\* Mutant: the counter is too narrow for the speed and wraps around.
NarrowCount == (i + 1) % 2

NextI == i + 1

\* One turn of the for loop in main().  A breakpoint or an EBREAK may stop the
\* CPU; the instruction is executed all the same.
InBatch ==
  /\ alive /\ phase = "batch"
  /\ cpu_running' \in BOOLEAN
  /\ i' = NextI
  /\ phase' = IF cpu_running' /\ i' < cpu_speed THEN "batch" ELSE "console_tick"
  /\ UNCHANGED <<alive, cpu_speed, console, buf, user_ascii, typed>>

BatchOther   == InBatch /\ UNCHANGED guest
BatchLoad(t) == InBatch /\ Load(t)

\* `break step n` runs n steps inside the command; the CPU stays stopped when
\* it was, and may be stopped by a breakpoint when it was running.
BreakStep ==
  /\ alive /\ phase = "break_step"
  /\ Instruction
  /\ cpu_running' \in {cpu_running, FALSE}
  /\ i' = i - 1
  /\ phase' = IF i > 1 THEN "break_step" ELSE "sys_tick"
  /\ UNCHANGED <<alive, cpu_speed, console, buf, user_ascii, typed>>

\* break_continue_cmd(): one step, then the CPU runs whatever the step found.
BreakContinue ==
  /\ alive /\ phase = "break_continue"
  /\ Instruction
  /\ cpu_running' = TRUE
  /\ phase' = "sys_tick"
  /\ UNCHANGED <<alive, i, cpu_speed, console, buf, user_ascii, typed>>

Terminated == ~alive /\ UNCHANGED vars

Next ==
  \/ console_tick
  \/ DebugIdle \/ EditLine \/ EnterCommand
  \/ sys_tick
  \/ BatchOther
  \/ \E t \in Ttys : BatchLoad(t)
  \/ BreakStep \/ BreakContinue
  \/ Terminated

Spec == Init /\ [][Next]_vars

(***************************************************************************)
(* The main loop never blocks (nodelay(stdscr, TRUE)), so Next is weakly   *)
(* fair.  The guest is a program that polls: between two loads of a tty's  *)
(* registers it executes finitely many other instructions, so a load that  *)
(* is possible again and again happens.                                    *)
(***************************************************************************)
Fairness == WF_vars(Next) /\ \A t \in Ttys : SF_vars(BatchLoad(t))

FairSpec == Spec /\ Fairness
-----------------------------------------------------------------------------
(* Properties *)

\* The key getch() returned and no window has taken yet.
Pending(w) == iskbhit /\ current_focused_window = w

ReadInOrder(t) ==
  \A k \in 1 .. Len(delivered[t]) :
    /\ delivered[t][k] \in {t} \X (1 .. typed[t])
    /\ k > 1 => delivered[t][k - 1][2] <= delivered[t][k][2]

LineInOrder ==
  \A k \in 1 .. Len(buf) :
    /\ buf[k] \in {FOCUSED_WINDOW_DBG_CONSOLE}
                    \X (1 .. typed[FOCUSED_WINDOW_DBG_CONSOLE])
    /\ k > 1 => buf[k - 1][2] < buf[k][2]

\* The keys the guest reads from a tty, and those on the command line, were
\* typed into that very window, and come in typing order: a focus switch,
\* an overtaken key or the missing TTY2 of the 8080 never turn ERR, the zero
\* of a static or another window's key into input (console.c:32-67).
KeysRouted == (\A t \in Ttys : ReadInOrder(t)) /\ LineInOrder

LastKept(t) ==
  typed[t] > 0 =>
    \/ Pending(t) /\ ch = <<t, typed[t]>>
    \/ /\ user_ascii[t] = <<t, typed[t]>>
       /\ \/ user_ready[t] \/ t \in reading
          \/ delivered[t] # << >> /\ Last(delivered[t]) = <<t, typed[t]>>

\* Keys are lost only to later ones: the last key typed into a tty is on its
\* way, or latched with the guest bound to read it, or was the last one read.
\* Tty_Tick overwrites the latch between any two guest instructions of
\* different batches (tty.c:23-33), also between the loads of READY and ASCII.
LatestKeyKept == \A t \in Ttys : LastKept(t)

One(b) == IF b THEN 1 ELSE 0

Accounted(t) ==
  Len(delivered[t]) + One(user_ready[t]) + One(t \in reading) + One(Pending(t))
    <= typed[t]

\* A key that lands between the loads of READY and ASCII is read twice, but
\* only in place of the key it overtook: the guest never reads more characters
\* than were typed, counting those it is still owed (tty.c:47-66).
NoPhantomKeys == \A t \in Ttys : Accounted(t)

\* The debugger stays within reach: whatever the guest does, and however long
\* a batch or a `break step` is, main() polls the keyboard again (main.c:64-78).
KeyboardPolledForever == []<>(phase = "console_tick" \/ ~alive)

\* While the CPU keeps running, every key typed into a tty is read or overtaken
\* by a later key of that tty that is read.
Steady == alive /\ cpu_running /\ cpu_speed > 0
Reached(t, n) == delivered[t] # << >> /\ Last(delivered[t])[2] >= n
KeysGetThrough ==
  <>[]Steady => \A t \in Ttys : \A n \in 1 .. MaxKeys :
                   (typed[t] = n) ~> Reached(t, n)
=============================================================================
