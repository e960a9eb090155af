----------------------------- MODULE TileScreen -----------------------------
(***************************************************************************)
(* What the tile GPU promises: the requests of a batch are drawn together, *)
(* in order, when the batch is over.  TileGpu.tla implements it.           *)
(***************************************************************************)
EXTENDS Integers, Sequences

CONSTANTS X, Y, Tile, Nothing

VARIABLES
  screen,     \* the tile at each place
  requested   \* what the next frame draws

vars == <<screen, requested>>

Request == [x : X, y : Y, tile_id : Tile]

Blank == [p \in X \X Y |-> Nothing]

\* The requests in q for the place p, and the last of them.
For(q, p) == {k \in DOMAIN q : <<q[k].x, q[k].y>> = p}

Last(q, p) == CHOOSE k \in For(q, p) : \A j \in For(q, p) : j <= k

\* The screen s when all of q has been drawn: the last request for a place stays.
Painted(s, q) ==
  [p \in X \X Y |-> IF For(q, p) = {} THEN s[p] ELSE q[Last(q, p)].tile_id]

Init == screen = Blank /\ requested = << >>

Ask(d) == requested' = Append(requested, d) /\ UNCHANGED screen

Clear == screen' = Blank /\ UNCHANGED requested

Frame == screen' = Painted(screen, requested) /\ requested' = << >>

Next == Clear \/ Frame \/ \E d \in Request : Ask(d)

Spec == Init /\ [][Next]_vars
=============================================================================
