------------------------------ MODULE TileGpu ------------------------------
(***************************************************************************)
(* The tile GPU of the taurus, tilegpu.c: the latches a guest stores to,   *)
(* the list of draw calls it fills while the CPU runs, and TileGpu_Tick(), *)
(* which draws the list before the next batch.  A DRAW is deferred to the  *)
(* tick, a CLEAR is not.  The screen itself is raylib's: a function from   *)
(* the places of the tiles.                                                *)
(***************************************************************************)
EXTENDS Integers, Sequences

CONSTANTS
  X, Y,       (* the values of the coordinate latches                       *)
  Tile,       (* the values of the tile latch                               *)
  Controls,   (* the values stored to TILEGPU_CONTROLS                      *)
  Budget,     (* the most stores between two ticks: cpu_speed, and the      *)
              (* argument of `break step`                                   *)
  Nothing     (* a place that was cleared                                   *)

TILEGPU_DRAW  == 1
TILEGPU_CLEAR == 2

Place    == X \X Y
Drawcall == [x : X, y : Y, tile_id : Tile]
Screen   == [Place -> Tile \cup {Nothing}]

ASSUME TileGpuAssumption ==
  /\ 0 \in X /\ 0 \in Y /\ 0 \in Tile
  /\ Budget \in Nat
  /\ Nothing \notin Tile

VARIABLES
  phase,          \* the stage of the main loop
  i,              \* stores since the last tick
  tilegpu_x, tilegpu_y, tilegpu_addr,
  drawcalls,      \* Len(drawcalls) is drawcalls_size
  pop_index,      \* the static variable of pop_drawcall()
  screen

latches == <<tilegpu_x, tilegpu_y, tilegpu_addr>>
vars    == <<phase, i, latches, drawcalls, pop_index, screen>>

TypeOK ==
  /\ phase \in {"cpu", "TileGpu_Tick"}
  /\ i \in 0 .. Budget
  /\ tilegpu_x \in X /\ tilegpu_y \in Y /\ tilegpu_addr \in Tile
  /\ drawcalls \in Seq(Drawcall)
  /\ pop_index \in 0 .. Len(drawcalls)
  /\ screen \in Screen

Init ==
  /\ phase = "cpu" /\ i = 0
  /\ tilegpu_x = 0 /\ tilegpu_y = 0 /\ tilegpu_addr = 0
  /\ drawcalls = << >> /\ pop_index = 0
  /\ screen = [p \in Place |-> Nothing]

-----------------------------------------------------------------------------
(* What raylib shows: a tile covers its place. *)

Draw(s, d) == [s EXCEPT ![<<d.x, d.y>>] = d.tile_id]

Cleared == [p \in Place |-> Nothing]

-----------------------------------------------------------------------------
(* The stores of the guest *)

\* A guest stores as long as the batch goes on.
Store == phase = "cpu" /\ i < Budget /\ i' = i + 1 /\ UNCHANGED phase

\* TileGpu_ByteStore() and TileGpu_HalfStore(): a latch.
StoreLatch ==
  /\ Store
  /\ \/ tilegpu_x' \in X /\ UNCHANGED <<tilegpu_y, tilegpu_addr>>
     \/ tilegpu_y' \in Y /\ UNCHANGED <<tilegpu_x, tilegpu_addr>>
     \/ tilegpu_addr' \in Tile /\ UNCHANGED <<tilegpu_x, tilegpu_y>>
  /\ UNCHANGED <<drawcalls, pop_index, screen>>

\* The draw call the latches describe.
Latched == [x |-> tilegpu_x, y |-> tilegpu_y, tile_id |-> tilegpu_addr]

\* Mutant: a new draw call is drawn before the older ones.
PushFront(d) == <<d>> \o drawcalls

push_drawcall(d) == Append(drawcalls, d)

\* draw(): a store to TILEGPU_CONTROLS.
StoreControls(controls) ==
  /\ Store
  /\ IF controls = TILEGPU_DRAW
       THEN drawcalls' = push_drawcall(Latched) ELSE UNCHANGED drawcalls
  /\ screen' = IF controls = TILEGPU_CLEAR THEN Cleared ELSE screen
  /\ UNCHANGED <<latches, pop_index>>

-----------------------------------------------------------------------------
(* TileGpu_Tick() *)

\* The batch ends, and sys_tick draws when there is something to draw.
EndBatch ==
  /\ phase = "cpu"
  /\ i' = 0
  /\ phase' = IF drawcalls # << >> THEN "TileGpu_Tick" ELSE "cpu"
  /\ UNCHANGED <<latches, drawcalls, pop_index, screen>>

\* pop_drawcall() returns a draw call, which is drawn.
PopDrawcall ==
  /\ phase = "TileGpu_Tick"
  /\ pop_index # Len(drawcalls)
  /\ pop_index' = pop_index + 1
  /\ screen' = Draw(screen, drawcalls[pop_index + 1])
  /\ UNCHANGED <<phase, i, latches, drawcalls>>

\* Mutant: the list stays.
KeepList == drawcalls

EmptyList == << >>

\* Mutant: the next list is read from where this one ended.
KeepIndex == pop_index

ResetIndex == 0

\* pop_drawcall() is at the end of the list: it empties the list, which ends the
\* tick.
PopEmpty ==
  /\ phase = "TileGpu_Tick"
  /\ pop_index = Len(drawcalls)
  /\ drawcalls' = EmptyList /\ pop_index' = ResetIndex
  /\ phase' = "cpu"
  /\ UNCHANGED <<i, latches, screen>>

Next ==
  \/ StoreLatch
  \/ \E controls \in Controls : StoreControls(controls)
  \/ EndBatch
  \/ PopDrawcall \/ PopEmpty

Spec == Init /\ [][Next]_vars
-----------------------------------------------------------------------------
(* Properties *)

\* The list holds no more draw calls than a batch stores: every tick empties it,
\* so it does not grow from batch to batch (tilegpu.c:33-48).
ListBounded == Len(drawcalls) <= (IF phase = "cpu" THEN i ELSE Budget)

\* What is left to draw.
Rest == SubSeq(drawcalls, pop_index + 1, Len(drawcalls))

\* The draw calls in q that cover the place p.
Covering(q, p) == {k \in DOMAIN q : <<q[k].x, q[k].y>> = p}

\* The screen s once all of q is drawn: what covers a place last is seen there.
Finished(s, q) ==
  [p \in Place |->
     LET on == Covering(q, p)
     IN IF on = {} THEN s[p] ELSE q[CHOOSE k \in on : \A j \in on : j <= k].tile_id]

Abstract == INSTANCE TileScreen WITH
  screen    <- IF phase = "cpu" THEN screen ELSE Finished(screen, Rest),
  requested <- IF phase = "cpu" THEN drawcalls ELSE << >>

\* A tick draws all the guest asked for since the last one, once, in the order in
\* which it asked and as the latches were when it did, and a CLEAR erases the
\* frames before, never a request that waits (tilegpu.c:33-93).
ImplementsTileScreen == Abstract!Spec
=============================================================================
