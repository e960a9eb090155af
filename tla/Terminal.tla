------------------------------ MODULE Terminal ------------------------------
(***************************************************************************)
(* What the ttys promise a guest: each is a row of Size characters behind  *)
(* an address latch and a character latch of its own, and its screen from  *)
(* time to time shows all of them as they are.  Windows.tla implements it. *)
(***************************************************************************)
EXTENDS Naturals

CONSTANTS Ttys, Size, Glyphs, NUL, Blank

VARIABLES
  loc, char,   \* the latches
  cells,       \* the characters
  shown        \* the characters the user sees

vars == <<loc, char, cells, shown>>

Address == 0 .. Size - 1

Init ==
  /\ loc = [t \in Ttys |-> 0]
  /\ char = [t \in Ttys |-> NUL]
  /\ cells = [t \in Ttys |-> [a \in Address |-> Blank]]
  /\ shown = cells

StoreLoc(t) ==
  /\ \E a \in Address : loc' = [loc EXCEPT ![t] = a]
  /\ UNCHANGED <<char, cells, shown>>

StoreChar(t) ==
  /\ \E c \in Glyphs : char' = [char EXCEPT ![t] = c]
  /\ UNCHANGED <<loc, cells, shown>>

Write(t) ==
  /\ cells' = [cells EXCEPT ![t][loc[t]] = char[t]]
  /\ UNCHANGED <<loc, char, shown>>

Clear(t) ==
  /\ cells' = [cells EXCEPT ![t] = [a \in Address |-> Blank]]
  /\ UNCHANGED <<loc, char, shown>>

\* Some of the ttys are shown.
Show(S) ==
  /\ shown' = [t \in Ttys |-> IF t \in S THEN cells[t] ELSE shown[t]]
  /\ UNCHANGED <<loc, char, cells>>

Next ==
  \/ \E t \in Ttys :
       \/ StoreLoc(t)
       \/ StoreChar(t)
       \/ Write(t)
       \/ Clear(t)
  \/ \E S \in SUBSET Ttys : Show(S)

Spec == Init /\ [][Next]_vars
=============================================================================
