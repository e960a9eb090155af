------------------------------ MODULE MCWindows ------------------------------
(***************************************************************************)
(* Instances of Windows for TLC: two ttys of two rows and two columns, a   *)
(* debug window with two rows of three places inside its frame, and lines  *)
(* of which one is longer than a row.  The ttys, the text of the debug     *)
(* window and the views are in use one at a time: after another one has    *)
(* been used, each is as it was in the beginning again.                    *)
(***************************************************************************)
EXTENDS Windows, FiniteSets

CONSTANTS k, p

MCLines == {<<p>>, <<p, p, p, p, p>>}

\* There is text in window w, or was when it was copied to the screen.
Written(w) ==
  \E y \in RowsOf(w), x \in ColsOf(w) :
    \/ content[w][y][x] \in Glyphs
    \/ screen[w][y][x] \in Glyphs

TtyUsed(t) == Written(t) \/ tty_loc[t] # 0 \/ tty_char[t] # NUL
DebugUsed  == Written(Debug) \/ buf # << >>
ViewsUsed  ==
  \/ machine = 1 \/ half_way
  \/ \E v \in Views : {1, Shifted} \cap {picture[v], seen[v]} # {}

InUse ==
  {t \in Ttys : TtyUsed(t)} \cup {w \in {Debug} : DebugUsed} \cup {v \in Views : ViewsUsed}

\* Only k is stored to a tty.
MCNext ==
  /\ Next
  /\ InUse' = Views \/ Cardinality(InUse') <= 1
  /\ \A t \in Ttys : tty_char'[t] # p

MCSpec == Init /\ [][MCNext]_vars /\ Fairness
==============================================================================
