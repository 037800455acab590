-------------------------- MODULE FrameLayoutProofs --------------------------
(***************************************************************************)
(* Theorems about FrameLayout, for any number of slots.  The two loops     *)
(* keep a running depth; what has to be known about the homes already laid *)
(* out is where exactly each of them lies (CalleePlaced, SlotsPlaced), and *)
(* the properties of the finished frame are arithmetic from there.         *)
(***************************************************************************)
EXTENDS FrameLayout, TLAPS

Saved == Len(fn.used_callee_regs)
Base  == align_up(8 * Saved, 16)     \* the depth at which the locals start

\* Not yet past the saved registers.
Early == phase \in {"symbols", "callee"}

CalleePlaced ==
  \A k \in 1..Saved :
    ~Early \/ k <= i => callee_reg_offsets[18 + k] = -(8 * k)

SlotsPlaced == \A s \in 1..Len(slot_map) : slot_map[s] = -(Base + 8 * s)

DepthIsKnown ==
  /\ Early => /\ i <= Saved
              /\ current_depth = 8 * i
              /\ slot_map = <<>>
  /\ ~Early => /\ i <= fn.max_slot_id
               /\ Len(slot_map) = i
               /\ current_depth = Base + 8 * i
  /\ phase = "done" => /\ i = fn.max_slot_id
                       /\ total_frame_size = align_up(16 + current_depth, 16)

\* The table of symbols has its first size at least and, once the symbols are
\* in, an entry for the last of them.
TableFits ==
  /\ table_slots >= DEFAULT_PTR_TABLE_CAPACITY
  /\ phase # "symbols" => HasRoom
  /\ phase = "undefined" => i >= table_slots /\ i < fn.max_slot_id

\* The inductive invariant.
IInv == TypeOK /\ DepthIsKnown /\ CalleePlaced /\ SlotsPlaced /\ TableFits
-----------------------------------------------------------------------------
\* align_up of a multiple of 8 to 16 adds 8 at most.
LEMMA AlignUp16 ==
  ASSUME NEW n \in Nat
  PROVE  /\ align_up(8 * n, 16) \in Nat
         /\ align_up(8 * n, 16) \in {8 * n, 8 * n + 8}
         /\ align_up(8 * n, 16) % 16 = 0
         /\ align_up(8 * n, 16) % 8 = 0
<1>1. (8 * n) % 16 \in {0, 8}
  OBVIOUS
<1>2. CASE (8 * n) % 16 = 0
  BY <1>2 DEF align_up
<1>3. CASE (8 * n) % 16 = 8
  <2>1. align_up(8 * n, 16) = 8 * n + 8
    BY <1>3 DEF align_up
  <2> QED
    BY <1>3, <2>1
<1> QED
  BY <1>1, <1>2, <1>3

\* A multiple of 8 needs no padding to be one.
LEMMA AlignUp8 ==
  ASSUME NEW n \in Nat
  PROVE  align_up(8 * n, 8) = 8 * n
BY DEF align_up

\* The registers to save are x19 and so on upwards, ten at most.
LEMMA Inputs ==
  ASSUME TypeOK
  PROVE  /\ Saved \in 0..10
         /\ DOMAIN fn.used_callee_regs = 1..Saved
         /\ \A k \in 1..Saved : fn.used_callee_regs[k] = 18 + k
         /\ fn.max_slot_id \in Nat
<1>1. PICK n \in 0..NumCallee : fn.used_callee_regs = [k \in 1..n |-> 18 + k]
  BY DEF TypeOK, Functions
<1>2. Saved = n
  BY <1>1, FrameBounds DEF Saved
<1>3. fn.max_slot_id \in 1..MaxSlots
  BY DEF TypeOK, Functions
<1> QED
  BY <1>1, <1>2, <1>3, FrameBounds

LEMMA InitIInv == Init => IInv
<1> SUFFICES ASSUME Init PROVE IInv
  OBVIOUS
<1>1. TypeOK
  <2>1. 0 \in -(8 * NumCallee)..0
    BY FrameBounds
  <2> QED
    BY <2>1 DEF Init, TypeOK, DEFAULT_PTR_TABLE_CAPACITY
<1>2. Saved \in 0..10
  BY <1>1, Inputs
<1>3. phase = "symbols" /\ i = 0 /\ current_depth = 0 /\ slot_map = <<>>
  BY DEF Init
<1>4. DepthIsKnown /\ CalleePlaced
  BY <1>2, <1>3 DEF DepthIsKnown, CalleePlaced, Early
<1>5. SlotsPlaced
  BY <1>3 DEF SlotsPlaced
<1>6. TableFits
  BY <1>3 DEF Init, TableFits, DEFAULT_PTR_TABLE_CAPACITY
<1> QED
  BY <1>1, <1>4, <1>5, <1>6 DEF IInv

\* The parts of the type invariant, one by one.
LEMMA Types ==
  ASSUME TypeOK
  PROVE  /\ i \in Nat /\ current_depth \in Nat /\ total_frame_size \in Nat
         /\ table_slots \in Nat /\ fn \in Functions
         /\ slot_map \in Seq(Int)
         /\ callee_reg_offsets \in [0..63 -> -(8 * NumCallee)..0]
         /\ Saved <= NumCallee
<1>1. PICK n \in 0..NumCallee : fn.used_callee_regs = [k \in 1..n |-> 18 + k]
  BY DEF TypeOK, Functions
<1>2. Saved = n
  BY <1>1, FrameBounds DEF Saved
<1>3. Saved <= NumCallee
  BY <1>2, FrameBounds
<1> QED
  BY <1>3 DEF TypeOK

\* One more register to save.
LEMMA SaveCalleeIInv ==
  ASSUME IInv, SaveCallee
  PROVE  IInv'
<1>1. Saved \in 0..10 /\ fn.max_slot_id \in Nat
  BY Inputs DEF IInv
<1>2. i \in Nat /\ current_depth \in Nat /\ total_frame_size \in Nat
  BY Types DEF IInv
<1>3. /\ fn' = fn /\ Saved' = Saved /\ phase = "callee" /\ phase' = "callee"
      /\ i < Saved /\ i' = i + 1 /\ current_depth = 8 * i
      /\ current_depth' = current_depth + 8 /\ slot_map = <<>> /\ slot_map' = <<>>
      /\ total_frame_size' = total_frame_size
  BY DEF SaveCallee, IInv, DepthIsKnown, Early, Saved
<1>4. current_depth' = 8 * (i + 1) /\ i + 1 \in 1..Saved
  BY <1>1, <1>2, <1>3
<1>5. callee_reg_offsets' =
        [callee_reg_offsets EXCEPT ![18 + (i + 1)] = -(8 * (i + 1))]
  <2>1. fn.used_callee_regs[i + 1] = 18 + (i + 1)
    BY <1>4, Inputs DEF IInv
  <2>2. current_depth + 8 = 8 * (i + 1)
    BY <1>2, <1>3
  <2> QED
    BY <2>1, <2>2 DEF SaveCallee
<1>6. TypeOK'
  <2>1. -(8 * (i + 1)) \in -(8 * NumCallee)..0
    <3>1. Saved <= NumCallee /\ NumCallee \in 0..10
      BY Types, FrameBounds DEF IInv
    <3> QED
      BY <1>1, <1>2, <1>4, <3>1
  <2>2. callee_reg_offsets' \in [0..63 -> -(8 * NumCallee)..0]
    <3>1. callee_reg_offsets \in [0..63 -> -(8 * NumCallee)..0]
      BY Types DEF IInv
    <3> QED
      BY <1>5, <2>1, <3>1
  <2>3. fn' \in Functions /\ slot_map' \in Seq(Int)
    BY <1>3, Types DEF IInv
  <2>4. i' \in Nat /\ current_depth' \in Nat /\ total_frame_size' \in Nat
    BY <1>2, <1>3
  <2>5. table_slots' \in Nat
    BY Types DEF IInv, SaveCallee
  <2> QED
    BY <1>3, <2>2, <2>3, <2>4, <2>5 DEF TypeOK
<1>7. DepthIsKnown'
  BY <1>3, <1>4 DEF DepthIsKnown, Early
<1>8. CalleePlaced'
  <2> SUFFICES ASSUME NEW k \in 1..Saved, k <= i + 1
               PROVE  callee_reg_offsets'[18 + k] = -(8 * k)
    BY <1>3 DEF CalleePlaced, Early
  <2>1. 18 + k \in 0..63
    BY <1>1
  <2>2. DOMAIN callee_reg_offsets = 0..63
    BY Types DEF IInv
  <2>3. CASE k = i + 1
    BY <1>5, <2>1, <2>2, <2>3
  <2>4. CASE k # i + 1
    <3>1. k <= i
      BY <1>1, <1>2, <2>4
    <3>2. callee_reg_offsets[18 + k] = -(8 * k)
      BY <3>1 DEF IInv, CalleePlaced, Early
    <3>3. 18 + k # 18 + (i + 1)
      BY <1>1, <1>2, <2>4
    <3> QED
      BY <1>5, <2>1, <2>2, <3>2, <3>3
  <2> QED
    BY <2>3, <2>4
<1>9. SlotsPlaced'
  BY <1>3 DEF SlotsPlaced
<1>10. TableFits'
  BY DEF SaveCallee, IInv, TableFits, HasRoom
<1> QED
  BY <1>6, <1>7, <1>8, <1>9, <1>10 DEF IInv

\* The end of the first loop.
LEMMA StartLocalsIInv ==
  ASSUME IInv, StartLocals
  PROVE  IInv'
<1>1. Saved \in 0..10 /\ fn.max_slot_id \in Nat
  BY Inputs DEF IInv
<1>0. Base \in Nat
  BY <1>1, AlignUp16 DEF Base
<1>2. /\ fn' = fn /\ Saved' = Saved /\ Base' = Base
      /\ phase = "callee" /\ phase' = "slots"
      /\ i = Saved /\ i' = 0 /\ current_depth' = Base
      /\ slot_map = <<>> /\ slot_map' = <<>> /\ total_frame_size' = total_frame_size
      /\ callee_reg_offsets' = callee_reg_offsets
  BY DEF StartLocals, IInv, DepthIsKnown, Early, Saved, Base
<1>3. TypeOK'
  <2>1. fn' \in Functions /\ slot_map' \in Seq(Int)
    BY <1>2, Types DEF IInv
  <2>2. callee_reg_offsets' \in [0..63 -> -(8 * NumCallee)..0]
    BY <1>2, Types DEF IInv
  <2>3. i' \in Nat /\ current_depth' \in Nat /\ total_frame_size' \in Nat
    BY <1>1, <1>2, <1>0, Types DEF IInv
  <2>4. table_slots' \in Nat
    BY Types DEF IInv, StartLocals
  <2> QED
    BY <1>2, <2>1, <2>2, <2>3, <2>4 DEF TypeOK
<1>4. DepthIsKnown'
  BY <1>1, <1>2, <1>0 DEF DepthIsKnown, Early
<1>5. CalleePlaced' /\ SlotsPlaced'
  BY <1>1, <1>2 DEF IInv, CalleePlaced, Early, SlotsPlaced
<1>6. TableFits'
  BY DEF StartLocals, IInv, TableFits, HasRoom
<1> QED
  BY <1>3, <1>4, <1>5, <1>6 DEF IInv

\* One more slot: the depth is a multiple of 8 and needs no padding.
LEMMA LaySlotIInv ==
  ASSUME IInv, LaySlot
  PROVE  IInv'
<1>1. Saved \in 0..10 /\ fn.max_slot_id \in Nat
  BY Inputs DEF IInv
<1>2. Base \in Nat /\ Base \in {8 * Saved, 8 * Saved + 8}
  BY <1>1, AlignUp16 DEF Base
<1>3. /\ fn' = fn /\ Saved' = Saved /\ Base' = Base
      /\ phase = "slots" /\ phase' = "slots"
      /\ i < fn.max_slot_id /\ i' = i + 1 /\ Len(slot_map) = i
      /\ current_depth = Base + 8 * i
      /\ total_frame_size' = total_frame_size
      /\ callee_reg_offsets' = callee_reg_offsets
  BY DEF LaySlot, IInv, DepthIsKnown, Early, Saved, Base
<1>4. i \in Nat /\ total_frame_size \in Nat
  BY Types DEF IInv
<1>5. align_up(current_depth, 8) = current_depth
  <2>1. Saved + i \in Nat /\ Saved + i + 1 \in Nat
    BY <1>1, <1>4
  <2>2. current_depth = 8 * (Saved + i) \/ current_depth = 8 * (Saved + i + 1)
    BY <1>1, <1>2, <1>3, <1>4
  <2> QED
    BY <2>1, <2>2, AlignUp8
<1>6. current_depth' = Base + 8 * (i + 1)
  <2>1. current_depth' = current_depth + 8
    BY <1>5 DEF LaySlot, SizeAlign
  <2> QED
    BY <1>2, <1>3, <1>4, <2>1
<1>7. slot_map' = Append(slot_map, -(Base + 8 * (i + 1)))
  <2>1. slot_map' = Append(slot_map, -current_depth')
    BY DEF LaySlot
  <2> QED
    BY <1>6, <2>1
<1>8. slot_map \in Seq(Int) /\ -(Base + 8 * (i + 1)) \in Int
  BY <1>2, <1>4, Types DEF IInv
<1>9. /\ slot_map' \in Seq(Int) /\ Len(slot_map') = i + 1
      /\ \A s \in 1..i : slot_map'[s] = slot_map[s]
      /\ slot_map'[i + 1] = -(Base + 8 * (i + 1))
  BY <1>3, <1>7, <1>8
<1>10. TypeOK'
  <2>1. i' \in Nat /\ current_depth' \in Nat
    BY <1>2, <1>3, <1>4, <1>6
  <2>2. fn' \in Functions
    BY <1>3, Types DEF IInv
  <2>3. callee_reg_offsets' \in [0..63 -> -(8 * NumCallee)..0]
    BY <1>3, Types DEF IInv
  <2>4. table_slots' \in Nat
    BY Types DEF IInv, LaySlot
  <2> QED
    BY <1>3, <1>4, <1>9, <2>1, <2>2, <2>3, <2>4 DEF TypeOK
<1>11. DepthIsKnown'
  <2>1. i + 1 <= fn.max_slot_id
    BY <1>1, <1>3, <1>4
  <2> QED
    BY <1>3, <1>6, <1>9, <2>1 DEF DepthIsKnown, Early
<1>12. CalleePlaced'
  BY <1>3 DEF IInv, CalleePlaced, Early
<1>13. SlotsPlaced'
  <2> SUFFICES ASSUME NEW s \in 1..i + 1
               PROVE  slot_map'[s] = -(Base + 8 * s)
    BY <1>3, <1>9 DEF SlotsPlaced
  <2>1. CASE s = i + 1
    BY <1>9, <2>1
  <2>2. CASE s # i + 1
    <3>1. s \in 1..i
      BY <1>4, <2>2
    <3>2. slot_map[s] = -(Base + 8 * s)
      BY <1>3, <3>1 DEF IInv, SlotsPlaced
    <3> QED
      BY <1>9, <3>1, <3>2
  <2> QED
    BY <2>1, <2>2
<1>14. TableFits'
  BY DEF LaySlot, IInv, TableFits, HasRoom
<1> QED
  BY <1>10, <1>11, <1>12, <1>13, <1>14 DEF IInv

\* The size of the frame is that of its contents, rounded up.
LEMMA FinishIInv ==
  ASSUME IInv, Finish
  PROVE  IInv'
<1>1. Saved \in 0..10 /\ fn.max_slot_id \in Nat
  BY Inputs DEF IInv
<1>2. Base \in Nat /\ Base \in {8 * Saved, 8 * Saved + 8}
  BY <1>1, AlignUp16 DEF Base
<1>3. /\ fn' = fn /\ Saved' = Saved /\ Base' = Base
      /\ phase = "slots" /\ phase' = "done"
      /\ i = fn.max_slot_id /\ i' = i /\ Len(slot_map) = i /\ slot_map' = slot_map
      /\ current_depth = Base + 8 * i /\ current_depth' = current_depth
      /\ total_frame_size' = align_up(16 + current_depth, 16)
      /\ callee_reg_offsets' = callee_reg_offsets
  BY DEF Finish, IInv, DepthIsKnown, Early, Saved, Base
<1>4. total_frame_size' \in Nat
  <2>1. i \in Nat /\ current_depth = Base + 8 * i
    BY <1>3, Types DEF IInv
  <2>2. Saved + i + 2 \in Nat /\ Saved + i + 3 \in Nat
    BY <1>1, <2>1
  <2>3. \/ 16 + current_depth = 8 * (Saved + i + 2)
        \/ 16 + current_depth = 8 * (Saved + i + 3)
    BY <1>1, <1>2, <2>1
  <2> QED
    BY <1>3, <2>2, <2>3, AlignUp16
<1>5. TypeOK'
  BY <1>3, <1>4, Types DEF IInv, TypeOK, Finish
<1>6. DepthIsKnown'
  BY <1>1, <1>3 DEF DepthIsKnown, Early
<1>7. CalleePlaced' /\ SlotsPlaced'
  BY <1>3 DEF IInv, CalleePlaced, Early, SlotsPlaced
<1>8. TableFits'
  BY DEF Finish, IInv, TableFits, HasRoom
<1> QED
  BY <1>5, <1>6, <1>7, <1>8 DEF IInv

LEMMA NextIInv == IInv /\ [Next]_vars => IInv'
<1> SUFFICES ASSUME IInv, [Next]_vars
             PROVE  IInv'
  OBVIOUS
<1>1. CASE SaveCallee
  BY <1>1, SaveCalleeIInv
<1>2. CASE StartLocals
  BY <1>2, StartLocalsIInv
<1>3. CASE LaySlot
  BY <1>3, LaySlotIInv
<1>4. CASE LookupPastTable
  BY <1>4 DEF LookupPastTable, IInv, TypeOK, DepthIsKnown, CalleePlaced,
     SlotsPlaced, TableFits, HasRoom, Early, Saved, Base
<1>5. CASE Finish
  BY <1>5, FinishIInv
<1>6. CASE UNCHANGED vars
  BY <1>6 DEF vars, IInv, TypeOK, DepthIsKnown, CalleePlaced, SlotsPlaced, TableFits,
     HasRoom, Early, Saved, Base
<1>7. CASE GrowTable \/ StartCallee
  <2>1. TypeOK' /\ TableFits'
    <3>1. /\ phase = "symbols" /\ phase' \in {"symbols", "callee"}
          /\ phase' # "symbols" => HasRoom /\ table_slots' = table_slots
          /\ table_slots' \in {table_slots, 2 * table_slots}
          /\ fn' = fn /\ i' = i /\ current_depth' = current_depth
          /\ callee_reg_offsets' = callee_reg_offsets /\ slot_map' = slot_map
          /\ total_frame_size' = total_frame_size
      BY <1>7 DEF GrowTable, StartCallee
    <3>2. table_slots \in Nat /\ table_slots >= DEFAULT_PTR_TABLE_CAPACITY
      BY DEF IInv, TypeOK, TableFits
    <3>3. TypeOK'
      <4>1. table_slots' \in Nat
        BY <3>1, <3>2
      <4>2. phase' \in {"symbols", "callee", "slots", "done", "undefined"}
        BY <3>1
      <4> QED
        BY <3>1, <4>1, <4>2, Types DEF IInv, TypeOK
    <3>4. table_slots' >= DEFAULT_PTR_TABLE_CAPACITY
      BY <3>1, <3>2 DEF DEFAULT_PTR_TABLE_CAPACITY
    <3> QED
      BY <3>1, <3>3, <3>4 DEF TableFits, HasRoom
  <2>2. DepthIsKnown' /\ CalleePlaced' /\ SlotsPlaced'
    BY <1>7 DEF GrowTable, StartCallee, IInv, DepthIsKnown, CalleePlaced, SlotsPlaced,
       Early, Saved, Base
  <2> QED
    BY <2>1, <2>2 DEF IInv
<1> QED
  BY <1>1, <1>2, <1>3, <1>4, <1>5, <1>6, <1>7 DEF Next, Over

\* Where everything lies in a finished frame.
LEMMA FinishedFrame ==
  ASSUME IInv, phase = "done", NEW h \in Homes
  PROVE  /\ Saved \in 0..10 /\ fn.max_slot_id \in Nat
         /\ Base \in {8 * Saved, 8 * Saved + 8}
         /\ \/ h[1] = "callee" /\ h[2] \in 1..Saved /\ Offset(h) = -(8 * h[2])
            \/ h[1] = "slot" /\ h[2] \in 1..fn.max_slot_id /\ Offset(h) = -(Base + 8 * h[2])
         /\ h = <<h[1], h[2]>>
<1>1. /\ Saved \in 0..10
      /\ DOMAIN fn.used_callee_regs = 1..Saved
      /\ \A k \in 1..Saved : fn.used_callee_regs[k] = 18 + k
      /\ fn.max_slot_id \in Nat
  BY Inputs DEF IInv
<1>2. Base \in {8 * Saved, 8 * Saved + 8}
  BY <1>1, AlignUp16 DEF Base
<1>3. slot_map \in Seq(Int) /\ Len(slot_map) = fn.max_slot_id
  BY DEF IInv, TypeOK, DepthIsKnown, Early
<1>4. CASE h \in {<<"callee", k>> : k \in DOMAIN fn.used_callee_regs}
  BY <1>1, <1>2, <1>4 DEF Offset, IInv, CalleePlaced, Early
<1>5. CASE h \in {<<"slot", k>> : k \in DOMAIN slot_map}
  BY <1>1, <1>2, <1>3, <1>5 DEF Offset, IInv, SlotsPlaced
<1> QED
  BY <1>4, <1>5 DEF Homes

\* The inductive invariant holds in every reachable state of the pass.
THEOREM InductiveInvariant == Spec => []IInv
<1>1. Init => IInv
  BY InitIInv
<1>2. IInv /\ [Next]_vars => IInv'
  BY NextIInv
<1> QED
  BY <1>1, <1>2, PTL DEF Spec

\* No two of the saved registers, variables and spilled values of a frame
\* overlap, however many there are.
THEOREM NothingOverlaps == Spec => []HomesAreApart
<1>1. IInv => HomesAreApart
  <2> SUFFICES ASSUME IInv, phase = "done", NEW g \in Homes, NEW h \in Homes, g # h
               PROVE  Offset(g) + 8 <= Offset(h) \/ Offset(h) + 8 <= Offset(g)
    BY DEF HomesAreApart
  <2>1. g[1] # h[1] \/ g[2] # h[2]
    BY FinishedFrame
  <2>2. CASE g[1] = "callee" /\ h[1] = "callee"
    BY <2>1, <2>2, FinishedFrame
  <2>3. CASE g[1] = "slot" /\ h[1] = "slot"
    BY <2>1, <2>3, FinishedFrame
  <2>4. CASE g[1] = "callee" /\ h[1] = "slot"
    BY <2>4, FinishedFrame
  <2>5. CASE g[1] = "slot" /\ h[1] = "callee"
    BY <2>5, FinishedFrame
  <2> QED
    BY <2>2, <2>3, <2>4, <2>5, FinishedFrame
<1> QED
  BY <1>1, InductiveInvariant, PTL

\* Every slot the function may name has its place, and all of the frame's
\* contents lie between the frame record and the stack pointer.
THEOREM FrameIsBigEnough == Spec => []FrameCoversHomes
<1>1. IInv => FrameCoversHomes
  <2> SUFFICES ASSUME IInv, phase = "done"
               PROVE  /\ Len(slot_map) = fn.max_slot_id
                      /\ \A h \in Homes : /\ Offset(h) >= 16 - total_frame_size
                                          /\ Offset(h) + 8 <= 0
    BY DEF FrameCoversHomes
  <2>1. Len(slot_map) = fn.max_slot_id
    BY DEF IInv, DepthIsKnown, Early
  <2>2. ASSUME NEW h \in Homes
        PROVE  Offset(h) >= 16 - total_frame_size /\ Offset(h) + 8 <= 0
    <3>1. current_depth = Base + 8 * fn.max_slot_id
      BY DEF IInv, DepthIsKnown, Early
    <3>2. total_frame_size = align_up(16 + current_depth, 16)
      BY DEF IInv, DepthIsKnown, Early
    <3>3. total_frame_size >= 16 + current_depth
      <4>1. PICK m \in Nat : 16 + current_depth = 8 * m
        <5>1. 16 + current_depth = 8 * (Saved + fn.max_slot_id + 2)
              \/ 16 + current_depth = 8 * (Saved + fn.max_slot_id + 3)
          BY <3>1, FinishedFrame
        <5> QED
          BY <5>1, FinishedFrame
      <4> QED
        BY <3>2, <4>1, AlignUp16
    <3>4. total_frame_size \in Nat
      BY DEF IInv, TypeOK
    <3> QED
      BY <3>1, <3>3, <3>4, FinishedFrame
  <2> QED
    BY <2>1, <2>2
<1> QED
  BY <1>1, InductiveInvariant, PTL

\* The prologue leaves the stack pointer a multiple of 16, and every load or
\* store relative to the frame pointer is aligned.
THEOREM FrameIsAligned == Spec => []StackStaysAligned
<1>1. IInv => StackStaysAligned
  <2> SUFFICES ASSUME IInv, phase = "done"
               PROVE  total_frame_size % 16 = 0 /\ \A h \in Homes : Offset(h) % 8 = 0
    BY DEF StackStaysAligned
  <2>1. total_frame_size % 16 = 0
    <3>1. Saved \in 0..10 /\ fn.max_slot_id \in Nat
      BY Inputs DEF IInv
    <3>2. Base \in {8 * Saved, 8 * Saved + 8}
      BY <3>1, AlignUp16 DEF Base
    <3>3. /\ current_depth = Base + 8 * fn.max_slot_id
          /\ total_frame_size = align_up(16 + current_depth, 16)
      BY DEF IInv, DepthIsKnown, Early
    <3>4. /\ Saved + fn.max_slot_id + 2 \in Nat
          /\ Saved + fn.max_slot_id + 3 \in Nat
          /\ \/ 16 + current_depth = 8 * (Saved + fn.max_slot_id + 2)
             \/ 16 + current_depth = 8 * (Saved + fn.max_slot_id + 3)
      BY <3>1, <3>2, <3>3
    <3> QED
      BY <3>3, <3>4, AlignUp16
  <2>2. ASSUME NEW h \in Homes
        PROVE  Offset(h) % 8 = 0
    BY FinishedFrame
  <2> QED
    BY <2>1, <2>2
<1> QED
  BY <1>1, InductiveInvariant, PTL

\* With 16 slots at most, and whatever callee-saved registers, no home is out
\* of reach of an eight-byte load or store relative to the frame pointer.
THEOREM SmallFramesAssemble == Spec => []SmallFramesAreAddressable
<1>1. IInv => SmallFramesAreAddressable
  <2> SUFFICES ASSUME IInv, phase = "done", fn.max_slot_id <= 16, NEW h \in Homes
               PROVE  Offset(h) >= -256
    BY DEF SmallFramesAreAddressable
  <2> QED
    BY FinishedFrame
<1> QED
  BY <1>1, InductiveInvariant, PTL

\* The pass's variables and the FrameInfo always have their types.
THEOREM TypeCorrect == Spec => []TypeOK
<1>1. IInv => TypeOK
  BY DEF IInv
<1> QED
  BY <1>1, InductiveInvariant, PTL

\* The lookup of a slot's symbol goes past the table only for slots that have
\* none, and only in functions of more than sixteen slots.
THEOREM SymbolsAreInTheTable == Spec => []SymbolsAreFound
<1>1. IInv => SymbolsAreFound
  <2> SUFFICES ASSUME IInv, phase = "undefined"
               PROVE  i > fn.last_sym /\ fn.max_slot_id > 16
    BY DEF SymbolsAreFound
  <2>1. /\ table_slots >= 16 /\ table_slots >= fn.last_sym + 1
        /\ i >= table_slots /\ i < fn.max_slot_id
    BY DEF IInv, TableFits, HasRoom, DEFAULT_PTR_TABLE_CAPACITY
  <2>2. table_slots \in Nat /\ i \in Nat /\ fn.max_slot_id \in Nat
    BY Inputs, Types DEF IInv
  <2>3. fn.last_sym \in Int
    BY FrameBounds DEF IInv, TypeOK, Functions
  <2> QED
    BY <2>1, <2>2, <2>3
<1> QED
  BY <1>1, InductiveInvariant, PTL
=============================================================================
