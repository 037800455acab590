---------------------------- MODULE FrameLayout -----------------------------
(***************************************************************************)
(* The stack frame of one function (frame_layout.cpp): the callee-saved    *)
(* registers it uses, then the slots of its variables and spilled values,  *)
(* each at a distance below the frame pointer.  The depth is the number of *)
(* bytes taken so far.  The emitter addresses what is laid out here with   *)
(* eight-byte loads and stores relative to the frame pointer.              *)
(***************************************************************************)
EXTENDS Integers, Sequences

CONSTANTS
  NumCallee,   \* callee-saved registers there are, x19 upwards
  MaxSlots     \* bound on the slots of a function

\* AArch64 has ten of them, x19 to x28.
ASSUME FrameBounds == NumCallee \in 0..10 /\ MaxSlots \in Nat

VARIABLES
  fn,                  \* the function: see Functions
  table_slots,         \* entries of the function's table of slot symbols
  phase,               \* "symbols" while that table grows, then "callee",
                       \* "slots", "done", or "undefined": the table was
                       \* read past its end
  i,                   \* index of the loop under way
  current_depth,
  callee_reg_offsets,  \* FrameInfo, by register id
  slot_map,            \* FrameInfo: the fp_offset of each slot laid out
  total_frame_size     \* FrameInfo

vars == <<fn, table_slots, phase, i, current_depth, callee_reg_offsets, slot_map,
          total_frame_size>>

\* What the pass gets.  The scan takes the lowest free register, so the ones
\* it used are the first so many; it leaves max_slot_id at least one.  last_sym
\* is the last slot that has a symbol, -1 if none has: parameters and variables
\* have one, results of `and' and `or' and spilled values have none.
Functions ==
  [used_callee_regs : {[k \in 1..n |-> 18 + k] : n \in 0..NumCallee},
   max_slot_id : 1..MaxSlots,
   last_sym : -1..MaxSlots - 1]

\* Mutant: sixteen bytes each.
SizeAlign_mutant == [size |-> 16, align |-> 16]

\* builtin_type_sizealign of int, and the default of a slot without a symbol
SizeAlign == [size |-> 8, align |-> 8]

\* Mutant: no padding.
align_up_mutant(cursor, align) == cursor

align_up(cursor, align) ==
  IF cursor % align = 0 THEN cursor ELSE cursor + (align - (cursor % align))

DEFAULT_PTR_TABLE_CAPACITY == 16

\* Mutant: the index counts as the size that is needed.
HasRoom_mutant == table_slots >= fn.last_sym

\* ensure_slots is content: the last symbol has an entry.
HasRoom == table_slots >= fn.last_sym + 1
-----------------------------------------------------------------------------
\* ptr_table_init gives the table its first size; the rest is as the pass
\* finds it when it takes up the function.
Init ==
  /\ fn \in Functions
  /\ table_slots = DEFAULT_PTR_TABLE_CAPACITY
  /\ phase = "symbols"
  /\ i = 0
  /\ current_depth = 0
  /\ callee_reg_offsets = [r \in 0..63 |-> 0]
  /\ slot_map = <<>>
  /\ total_frame_size = 0

\* One round of the loop in ensure_slots, when the generator enters a symbol.
GrowTable ==
  /\ phase = "symbols" /\ ~HasRoom
  /\ table_slots' = 2 * table_slots
  /\ UNCHANGED <<fn, phase, i, current_depth, callee_reg_offsets, slot_map,
                 total_frame_size>>

\* The symbols are in; the back end takes up the function.
StartCallee ==
  /\ phase = "symbols" /\ HasRoom
  /\ phase' = "callee"
  /\ UNCHANGED <<fn, table_slots, i, current_depth, callee_reg_offsets, slot_map,
                 total_frame_size>>

\* One round of the loop over used_callee_regs.
SaveCallee ==
  /\ phase = "callee" /\ i < Len(fn.used_callee_regs)
  /\ current_depth' = current_depth + 8
  /\ callee_reg_offsets' =
       [callee_reg_offsets EXCEPT ![fn.used_callee_regs[i + 1]] = -(current_depth + 8)]
  /\ i' = i + 1
  /\ UNCHANGED <<fn, table_slots, phase, slot_map, total_frame_size>>

\* Mutant: the depth starts again.
StartLocals_mutant ==
  /\ phase = "callee" /\ i = Len(fn.used_callee_regs)
  /\ current_depth' = 0
  /\ phase' = "slots"
  /\ i' = 0
  /\ UNCHANGED <<fn, table_slots, callee_reg_offsets, slot_map, total_frame_size>>

\* Between the loops: the locals start at a multiple of 16.
StartLocals ==
  /\ phase = "callee" /\ i = Len(fn.used_callee_regs)
  /\ current_depth' = align_up(current_depth, 16)
  /\ phase' = "slots"
  /\ i' = 0
  /\ UNCHANGED <<fn, table_slots, callee_reg_offsets, slot_map, total_frame_size>>

\* One round of the loop over the slots.
LaySlot ==
  LET depth == align_up(current_depth, SizeAlign.align) + SizeAlign.size IN
  /\ phase = "slots" /\ i < fn.max_slot_id
  /\ i < table_slots
  /\ current_depth' = depth
  /\ slot_map' = Append(slot_map, -depth)
  /\ i' = i + 1
  /\ UNCHANGED <<fn, table_slots, phase, callee_reg_offsets, total_frame_size>>

\* slot_syms[i] with i past the table: TableView does not look at its size,
\* and what is found there is taken for a symbol.
LookupPastTable ==
  /\ phase = "slots" /\ i < fn.max_slot_id
  /\ i >= table_slots
  /\ phase' = "undefined"
  /\ UNCHANGED <<fn, table_slots, i, current_depth, callee_reg_offsets, slot_map,
                 total_frame_size>>

\* Mutant: the frame record is forgotten.
Finish_mutant ==
  /\ phase = "slots" /\ i = fn.max_slot_id
  /\ total_frame_size' = align_up(current_depth, 16)
  /\ phase' = "done"
  /\ UNCHANGED <<fn, table_slots, i, current_depth, callee_reg_offsets, slot_map>>

\* 16 bytes above the frame pointer are the frame record (FP and LR).
Finish ==
  /\ phase = "slots" /\ i = fn.max_slot_id
  /\ total_frame_size' = align_up(16 + current_depth, 16)
  /\ phase' = "done"
  /\ UNCHANGED <<fn, table_slots, i, current_depth, callee_reg_offsets, slot_map>>

Over == phase \in {"done", "undefined"} /\ UNCHANGED vars

Next ==
  \/ GrowTable \/ StartCallee
  \/ SaveCallee \/ StartLocals \/ LaySlot \/ LookupPastTable \/ Finish
  \/ Over

Spec == Init /\ [][Next]_vars
-----------------------------------------------------------------------------
\* The types of the pass's variables and of the FrameInfo it fills.
TypeOK ==
  /\ fn \in Functions
  /\ table_slots \in Nat
  /\ phase \in {"symbols", "callee", "slots", "done", "undefined"}
  /\ i \in Nat
  /\ current_depth \in Nat
  /\ callee_reg_offsets \in [0..63 -> -(8 * NumCallee)..0]
  /\ slot_map \in Seq(Int)
  /\ total_frame_size \in Nat

\* What has a place in a finished frame, and where.
Homes == {<<"callee", k>> : k \in DOMAIN fn.used_callee_regs}
           \cup {<<"slot", k>> : k \in DOMAIN slot_map}
Offset(h) == IF h[1] = "callee" THEN callee_reg_offsets[fn.used_callee_regs[h[2]]]
                                ELSE slot_map[h[2]]

\* Saved registers, variables and spilled values do not overlap: the eight
\* bytes the emitter reads and writes at one never belong to another.
HomesAreApart ==
  phase = "done" =>
    \A g, h \in Homes :
      g # h => Offset(g) + 8 <= Offset(h) \/ Offset(h) + 8 <= Offset(g)

\* Everything lies between the saved FP and LR and the stack pointer that the
\* prologue sets (sub sp, sp, #total_frame_size - 16), and every slot the
\* function may name has an entry of slot_map, which the emitter does not check.
FrameCoversHomes ==
  phase = "done" =>
    /\ Len(slot_map) = fn.max_slot_id
    /\ \A h \in Homes : Offset(h) >= 16 - total_frame_size /\ Offset(h) + 8 <= 0

\* The stack pointer is a multiple of 16 after the prologue (the processor
\* insists) and the homes are aligned for eight-byte accesses.
StackStaysAligned ==
  phase = "done" =>
    /\ total_frame_size % 16 = 0
    /\ \A h \in Homes : Offset(h) % 8 = 0

\* A load or store reaches 256 bytes below its base.  With the 16 variables
\* the README allows and all callee-saved registers in use that is enough.
SmallFramesAreAddressable ==
  phase = "done" /\ fn.max_slot_id <= 16 => \A h \in Homes : Offset(h) >= -256

\* A slot that has a symbol is looked up inside the table, and a function of
\* sixteen slots or fewer does all its lookups there.  Beyond that a slot
\* without a symbol, which the pass expects to find empty, may lie past the end.
SymbolsAreFound ==
  phase = "undefined" => i > fn.last_sym /\ fn.max_slot_id > 16
=============================================================================
