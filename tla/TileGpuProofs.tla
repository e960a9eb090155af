---------------------------- MODULE TileGpuProofs ----------------------------
(***************************************************************************)
(* What TLAPS proves of TileGpu, for any screen and any budget: the list   *)
(* of draw calls is bounded by the stores of one batch, and every tick     *)
(* draws the list as the abstract screen draws its requests.               *)
(***************************************************************************)
EXTENDS TileGpu, WellFoundedInduction, TLAPS

Inv == TypeOK /\ ListBounded

LEMMA InitInv == Init => Inv
  <1> SUFFICES ASSUME Init PROVE Inv
    OBVIOUS
  <1>1. drawcalls \in Seq(Drawcall) /\ Len(drawcalls) = 0
    BY DEF Init
  <1>2. screen \in Screen
    BY DEF Init, Screen
  <1>3. 0 \in 0 .. Budget
    BY TileGpuAssumption
  <1> QED
    BY <1>1, <1>2, <1>3, TileGpuAssumption DEF Init, Inv, TypeOK, ListBounded

LEMMA LatchedType == TypeOK => Latched \in Drawcall
  BY DEF TypeOK, Latched, Drawcall

LEMMA ClearedType == Cleared \in Screen
  BY DEF Cleared, Screen

LEMMA DrawType == ASSUME NEW s \in Screen, NEW d \in Drawcall PROVE Draw(s, d) \in Screen
  BY DEF Draw, Screen, Drawcall

\* One more draw call, one more store.
LEMMA PushType ==
  ASSUME TypeOK PROVE /\ push_drawcall(Latched) \in Seq(Drawcall)
                      /\ Len(push_drawcall(Latched)) = Len(drawcalls) + 1
  BY LatchedType DEF TypeOK, push_drawcall

LEMMA NextInv == Inv /\ [Next]_vars => Inv'
  <1> SUFFICES ASSUME Inv, [Next]_vars PROVE Inv'
    OBVIOUS
  <1> USE DEF Inv
  <1>0. /\ drawcalls \in Seq(Drawcall) /\ Len(drawcalls) \in Nat
        /\ i \in 0 .. Budget /\ Budget \in Nat
    BY TileGpuAssumption DEF TypeOK
  <1>1. CASE StoreLatch
    <2>1. i' \in 0 .. Budget /\ i' = i + 1 /\ phase = "cpu" /\ phase' = "cpu"
      BY <1>0, <1>1 DEF StoreLatch, Store
    <2>2. tilegpu_x' \in X /\ tilegpu_y' \in Y /\ tilegpu_addr' \in Tile
      BY <1>1 DEF StoreLatch, TypeOK
    <2>3. UNCHANGED <<drawcalls, pop_index, screen>>
      BY <1>1 DEF StoreLatch
    <2> QED
      BY <1>0, <2>1, <2>2, <2>3 DEF TypeOK, ListBounded
  <1>2. ASSUME NEW controls \in Controls, StoreControls(controls) PROVE Inv'
    <2>1. i' \in 0 .. Budget /\ i' = i + 1 /\ phase = "cpu" /\ phase' = "cpu"
      BY <1>0, <1>2 DEF StoreControls, Store
    <2>2. screen' \in Screen
      BY <1>2, ClearedType DEF StoreControls, TypeOK
    <2>3. drawcalls' \in Seq(Drawcall) /\ Len(drawcalls') \in {Len(drawcalls), Len(drawcalls) + 1}
      BY <1>0, <1>2, PushType DEF StoreControls
    <2>4. UNCHANGED <<latches, pop_index>>
      BY <1>2 DEF StoreControls
    <2>5. pop_index' \in 0 .. Len(drawcalls')
      BY <1>0, <2>3, <2>4 DEF TypeOK
    <2>6. ListBounded'
      BY <1>0, <2>1, <2>3 DEF ListBounded
    <2> QED
      BY <2>1, <2>2, <2>3, <2>4, <2>5, <2>6 DEF TypeOK, latches
  <1>3. CASE EndBatch
    <2>1. UNCHANGED <<latches, drawcalls, pop_index, screen>> /\ i' = 0 /\ phase = "cpu"
          /\ phase' = IF drawcalls # << >> THEN "TileGpu_Tick" ELSE "cpu"
      BY <1>3 DEF EndBatch
    <2>2. Len(drawcalls) <= Budget
      BY <1>0, <2>1 DEF ListBounded
    <2>3. drawcalls = << >> => Len(drawcalls) = 0
      OBVIOUS
    <2>4. ListBounded'
      BY <1>0, <2>1, <2>2, <2>3 DEF ListBounded
    <2> QED
      BY <1>0, <2>1, <2>4 DEF TypeOK, latches
  <1>4. CASE PopDrawcall
    <2>1. phase = "TileGpu_Tick" /\ phase' = phase /\ pop_index # Len(drawcalls)
          /\ pop_index' = pop_index + 1 /\ UNCHANGED <<i, latches, drawcalls>>
      BY <1>4 DEF PopDrawcall
    <2>2. pop_index' \in 0 .. Len(drawcalls) /\ pop_index + 1 \in 1 .. Len(drawcalls)
      BY <1>0, <2>1 DEF TypeOK
    <2>3. screen' \in Screen
      BY <1>0, <1>4, <2>2, DrawType DEF PopDrawcall, TypeOK
    <2> QED
      BY <2>1, <2>2, <2>3 DEF TypeOK, ListBounded, latches
  <1>5. CASE PopEmpty
    <2>1. drawcalls' \in Seq(Drawcall) /\ Len(drawcalls') = 0
      BY <1>5 DEF PopEmpty, EmptyList
    <2> QED
      BY <1>0, <1>5, <2>1 DEF PopEmpty, ResetIndex, TypeOK, ListBounded, latches
  <1>6. CASE UNCHANGED vars
    BY <1>6 DEF vars, latches, TypeOK, ListBounded
  <1> QED
    BY <1>1, <1>2, <1>3, <1>4, <1>5, <1>6 DEF Next

\* Latches, list, index and screen keep their types: the index never leaves the
\* list it walks through.
THEOREM TypeCorrect == Spec => []TypeOK
  <1>1. Inv => TypeOK
    BY DEF Inv
  <1> QED
    BY <1>1, InitInv, NextInv, PTL DEF Spec

\* The list never holds more draw calls than one batch stores.
THEOREM ListIsBounded == Spec => []ListBounded
  <1>1. Inv => ListBounded
    BY DEF Inv
  <1> QED
    BY <1>1, InitInv, NextInv, PTL DEF Spec
-----------------------------------------------------------------------------
(* The refinement of TileScreen *)

\* A tick starts with the first draw call.
IndexHome == phase = "cpu" => pop_index = 0

LEMMA IndexIsHome == Spec => []IndexHome
  <1>1. Init => IndexHome
    BY DEF Init, IndexHome
  <1>2. IndexHome /\ [Next]_vars => IndexHome'
    BY DEF IndexHome, Next, vars, latches, StoreLatch, Store, StoreControls, EndBatch,
           PopDrawcall, PopEmpty, ResetIndex
  <1> QED
    BY <1>1, <1>2, PTL DEF Spec

\* A set of positions has a last one.
LEMMA LastExists ==
  ASSUME NEW n \in Nat, NEW S \in SUBSET (1 .. n), S # {}
  PROVE  \E k \in S : \A j \in S : j <= k
  <1> DEFINE T == {n - k : k \in S}
  <1>0. \A k \in S : k \in 1 .. n
    OBVIOUS
  <1>1. T \subseteq Nat /\ T # {}
    <2>1. \A k \in S : n - k \in Nat
      BY <1>0
    <2>2. PICK k \in S : TRUE
      OBVIOUS
    <2>3. n - k \in T
      BY <2>2
    <2> QED
      BY <2>1, <2>3
  <1>2. PICK x \in T : \A y \in T : <<y, x>> \notin OpToRel(<, Nat)
    <2> HIDE DEF T
    <2> QED
      BY <1>1, NatLessThanWellFounded, WFMin
  <1>3. \A y \in T : ~(y < x)
    BY <1>1, <1>2 DEF OpToRel
  <1>4. PICK k \in S : x = n - k
    BY <1>2
  <1>5. \A j \in S : ~(n - j < n - k)
    BY <1>3, <1>4
  <1>6. \A j \in S : j <= k
    BY <1>0, <1>5
  <1> QED
    BY <1>6

\* What is seen at p in the end is what the last draw call for p shows.
LEMMA FinishedAt ==
  ASSUME NEW s, NEW q \in Seq(Drawcall), NEW p \in Place,
         NEW k \in Covering(q, p), \A j \in Covering(q, p) : j <= k
  PROVE  Finished(s, q)[p] = q[k].tile_id
  <1>1. Covering(q, p) \subseteq Int
    BY DEF Covering
  <1>2. \A m \in Covering(q, p) : (\A j \in Covering(q, p) : j <= m) => m = k
    BY <1>1
  <1>3. (CHOOSE m \in Covering(q, p) : \A j \in Covering(q, p) : j <= m) = k
    BY <1>2
  <1> QED
    BY <1>3 DEF Finished

\* To draw the first call and then the rest is to draw them all.
LEMMA FinishedStep ==
  ASSUME NEW s \in Screen, NEW q \in Seq(Drawcall), NEW r \in Seq(Drawcall),
         Len(q) = Len(r) + 1, \A k \in 1 .. Len(r) : r[k] = q[k + 1]
  PROVE  Finished(Draw(s, q[1]), r) = Finished(s, q)
  <1>0. /\ Len(r) \in Nat /\ 1 \in DOMAIN q /\ q[1] \in Drawcall
        /\ DOMAIN q = 1 .. Len(r) + 1 /\ DOMAIN r = 1 .. Len(r)
    OBVIOUS
  <1> SUFFICES ASSUME NEW p \in Place
               PROVE  Finished(Draw(s, q[1]), r)[p] = Finished(s, q)[p]
    BY DEF Finished
  <1>1. \A k \in 1 .. Len(r) : k \in Covering(r, p) <=> k + 1 \in Covering(q, p)
    BY <1>0 DEF Covering
  <1>2. CASE Covering(r, p) # {}
    <2>1. PICK k \in Covering(r, p) : \A j \in Covering(r, p) : j <= k
      BY <1>0, <1>2, LastExists DEF Covering
    <2>2. k \in 1 .. Len(r) /\ k + 1 \in Covering(q, p) /\ r[k] = q[k + 1]
      BY <1>0, <1>1, <2>1 DEF Covering
    <2>3. ASSUME NEW j \in Covering(q, p) PROVE j <= k + 1
      <3>1. j \in 1 .. Len(r) + 1
        BY <1>0 DEF Covering
      <3>2. CASE j = 1
        BY <2>2, <3>2
      <3>3. CASE j # 1
        <4>1. j - 1 \in 1 .. Len(r) /\ (j - 1) + 1 = j
          BY <1>0, <3>1, <3>3
        <4>2. j - 1 \in Covering(r, p)
          BY <1>1, <4>1
        <4> QED
          BY <2>1, <2>2, <3>1, <4>2
      <3> QED
        BY <3>2, <3>3
    <2> QED
      BY <2>1, <2>2, <2>3, FinishedAt
  <1>3. CASE Covering(r, p) = {}
    <2>1. Finished(Draw(s, q[1]), r)[p] = Draw(s, q[1])[p]
      BY <1>3 DEF Finished
    <2>2. \A j \in Covering(q, p) : j = 1
      <3> SUFFICES ASSUME NEW j \in Covering(q, p), j # 1 PROVE FALSE
        OBVIOUS
      <3>1. j - 1 \in 1 .. Len(r) /\ (j - 1) + 1 = j
        BY <1>0 DEF Covering
      <3> QED
        BY <1>1, <1>3, <3>1
    <2>3. CASE 1 \in Covering(q, p)
      <3>1. Finished(s, q)[p] = q[1].tile_id
        BY <2>2, <2>3, FinishedAt
      <3>2. <<q[1].x, q[1].y>> = p
        BY <2>3 DEF Covering
      <3> QED
        BY <2>1, <3>1, <3>2 DEF Draw, Screen
    <2>4. CASE 1 \notin Covering(q, p)
      <3>1. Covering(q, p) = {} /\ <<q[1].x, q[1].y>> # p
        BY <1>0, <2>2, <2>4 DEF Covering
      <3> QED
        BY <2>1, <3>1 DEF Finished, Draw, Screen
    <2> QED
      BY <2>3, <2>4
  <1> QED
    BY <1>2, <1>3

LEMMA FinishedNone ==
  ASSUME NEW s \in Screen, NEW q \in Seq(Drawcall), Len(q) = 0 PROVE Finished(s, q) = s
  <1>1. \A p \in Place : Covering(q, p) = {}
    BY DEF Covering
  <1> QED
    BY <1>1 DEF Finished, Screen

\* A frame of the abstract screen draws what a tick draws.
LEMMA FrameIsTick == ASSUME NEW s, NEW q PROVE Abstract!Painted(s, q) = Finished(s, q)
  BY DEF Abstract!Painted, Abstract!For, Abstract!Last, Finished, Covering, Place

Shown == IF phase = "cpu" THEN screen ELSE Finished(screen, Rest)

Waiting == IF phase = "cpu" THEN drawcalls ELSE << >>

LEMMA AbstractInit == Init => Abstract!Init
  BY DEF Init, Abstract!Init, Abstract!Blank, Place

LEMMA AbstractNext ==
  TypeOK /\ TypeOK' /\ IndexHome /\ [Next]_vars => [Abstract!Next]_(Abstract!vars)
  <1> SUFFICES ASSUME TypeOK, TypeOK', IndexHome, [Next]_vars
               PROVE  [Abstract!Next]_(Abstract!vars)
    OBVIOUS
  <1>0. SUFFICES \/ UNCHANGED <<Shown, Waiting>>
                 \/ Abstract!Next
    BY DEF Abstract!vars, Shown, Waiting
  <1>1. CASE StoreLatch
    BY <1>1 DEF StoreLatch, Store, Shown, Waiting
  <1>2. ASSUME NEW controls \in Controls, StoreControls(controls)
        PROVE  UNCHANGED <<Shown, Waiting>> \/ Abstract!Next
    <2>1. phase = "cpu" /\ phase' = "cpu"
      BY <1>2 DEF StoreControls, Store
    <2>2. CASE controls = TILEGPU_DRAW
      <3>1. Latched \in Abstract!Request
        BY LatchedType DEF Drawcall, Abstract!Request
      <3>2. drawcalls' = Append(drawcalls, Latched) /\ screen' = screen
        BY <1>2, <2>2 DEF StoreControls, push_drawcall, TILEGPU_DRAW, TILEGPU_CLEAR
      <3> QED
        BY <2>1, <3>1, <3>2 DEF Abstract!Next, Abstract!Ask
    <2>3. CASE controls = TILEGPU_CLEAR
      <3>1. drawcalls' = drawcalls /\ screen' = Cleared
        BY <1>2, <2>3 DEF StoreControls, TILEGPU_DRAW, TILEGPU_CLEAR
      <3> QED
        BY <2>1, <3>1 DEF Abstract!Next, Abstract!Clear, Abstract!Blank, Cleared, Place
    <2>4. CASE controls \notin {TILEGPU_DRAW, TILEGPU_CLEAR}
      BY <1>2, <2>1, <2>4 DEF StoreControls, Shown, Waiting
    <2> QED
      BY <2>2, <2>3, <2>4
  <1>3. CASE EndBatch
    <2>1. phase = "cpu" /\ UNCHANGED <<drawcalls, pop_index, screen>> /\ pop_index = 0
          /\ phase' = IF drawcalls # << >> THEN "TileGpu_Tick" ELSE "cpu"
      BY <1>3 DEF EndBatch, IndexHome
    <2>2. CASE drawcalls = << >>
      BY <2>1, <2>2 DEF Shown, Waiting
    <2>3. CASE drawcalls # << >>
      <3>1. Rest' = drawcalls
        BY <2>1 DEF Rest, TypeOK
      <3>2. Abstract!Frame
        BY <2>1, <2>3, <3>1, FrameIsTick DEF Abstract!Frame
      <3> QED
        BY <3>2 DEF Abstract!Next
    <2> QED
      BY <2>2, <2>3
  <1>4. CASE PopDrawcall
    <2> DEFINE d == drawcalls[pop_index + 1]
    <2>1. phase = "TileGpu_Tick" /\ phase' = phase /\ pop_index # Len(drawcalls)
          /\ pop_index' = pop_index + 1 /\ screen' = Draw(screen, d)
          /\ UNCHANGED <<i, latches, drawcalls>>
      BY <1>4 DEF PopDrawcall
    <2>2. pop_index \in Nat /\ Len(drawcalls) \in Nat /\ pop_index < Len(drawcalls)
      BY <2>1 DEF TypeOK
    <2>3. Rest \in Seq(Drawcall) /\ Len(Rest) = Len(drawcalls) - pop_index /\ Rest[1] = d
      BY <2>2 DEF Rest, TypeOK
    <2>4. Rest' \in Seq(Drawcall) /\ Len(Rest') = Len(drawcalls) - pop_index - 1
      BY <2>1, <2>2 DEF Rest, TypeOK
    <2>5. \A k \in 1 .. Len(Rest') : Rest'[k] = Rest[k + 1]
      <3> SUFFICES ASSUME NEW k \in 1 .. Len(Rest') PROVE Rest'[k] = Rest[k + 1]
        OBVIOUS
      <3>1. k \in Nat /\ 1 <= k /\ k <= Len(drawcalls) - pop_index - 1
        BY <2>2, <2>4
      <3>2. Rest[k + 1] = drawcalls[k + 1 + pop_index]
        BY <2>2, <3>1 DEF Rest, TypeOK
      <3>3. Rest'[k] = drawcalls[k + (pop_index + 1)]
        BY <2>1, <2>2, <3>1 DEF Rest, TypeOK
      <3>4. k + 1 + pop_index = k + (pop_index + 1)
        BY <2>2, <3>1
      <3> QED
        BY <3>2, <3>3, <3>4
    <2>6. Finished(Draw(screen, d), Rest') = Finished(screen, Rest)
      <3>1. Len(Rest) = Len(Rest') + 1 /\ screen \in Screen
        BY <2>2, <2>3, <2>4 DEF TypeOK
      <3> QED
        BY <2>3, <2>4, <2>5, <3>1, FinishedStep
    <2> QED
      BY <2>1, <2>6 DEF Shown, Waiting
  <1>5. CASE PopEmpty
    <2>1. phase = "TileGpu_Tick" /\ phase' = "cpu" /\ pop_index = Len(drawcalls)
          /\ drawcalls' = << >> /\ screen' = screen
      BY <1>5 DEF PopEmpty, EmptyList
    <2>2. Rest \in Seq(Drawcall) /\ Len(Rest) = 0
      BY <2>1 DEF Rest, TypeOK
    <2>3. Finished(screen, Rest) = screen
      BY <2>2, FinishedNone DEF TypeOK
    <2> QED
      BY <2>1, <2>3 DEF Shown, Waiting
  <1>6. CASE UNCHANGED vars
    BY <1>6 DEF vars, Shown, Waiting, Rest
  <1> QED
    BY <1>1, <1>2, <1>3, <1>4, <1>5, <1>6 DEF Next

\* Every tick draws what the guest asked for since the last one, each request once
\* and in order, with the latches it had then; a CLEAR erases earlier frames only.
THEOREM GpuIsScreen == Spec => ImplementsTileScreen
  <1>1. Spec => Abstract!Init /\ [][Abstract!Next]_(Abstract!vars)
    BY TypeCorrect, IndexIsHome, AbstractInit, AbstractNext, PTL DEF Spec
  <1> QED
    BY <1>1 DEF ImplementsTileScreen, Abstract!Spec
=============================================================================
