------------------------------- MODULE LIRGen -------------------------------
(***************************************************************************)
(* The lowering of middle-level IR to LIR (lir_gen.cpp), as a function of  *)
(* the blocks MIRGen produces.  Temps become virtual registers of the same *)
(* number; an immediate that the machine instruction cannot hold is put    *)
(* in a fresh virtual register first; a call becomes one LIRArgPut per     *)
(* argument and an LIRCall.  Instruction numbers go up by two and never    *)
(* start again, terminators included.                                      *)
(***************************************************************************)
EXTENDS Integers, Sequences, FiniteSets

\* Literal classes: below BigImm they fit the 12-bit field of add and cmp.
BigImm == 2
fits_add_imm(c) == c < BigImm

NoVReg == -1

\* slot: the one it loads or stores, or -1; args: the vregs a call gets.
LInst(op, num, def, uses, slot, args) ==
  [op |-> op, num |-> num, def |-> def, uses |-> uses, slot |-> slot,
   args |-> args]

UsedBy(inst) == {inst.uses[k] : k \in DOMAIN inst.uses}

\* What the generator holds while it lowers a block: the instructions so far,
\* the next vreg and number, and the vregs of the instruction under way.
Builder(vreg, num) == [code |-> <<>>, vreg |-> vreg, num |-> num, uses |-> <<>>]

insert_instruction(b, op, def, uses, slot, args) ==
  [b EXCEPT !.code = Append(@, LInst(op, b.num, def, uses, slot, args)),
            !.num = @ + 2]

create_const(b) ==
  [insert_instruction(b, "LIRConst", b.vreg, <<>>, -1, <<>>)
     EXCEPT !.vreg = @ + 1, !.uses = Append(@, b.vreg)]

\* One operand.  It needs no vreg if it is an immediate the instruction holds.
lower_operand(b, v, immForm) ==
  IF v.kind = "IRVAL_TEMP" THEN [b EXCEPT !.uses = Append(@, v.id)]
  ELSE IF immForm /\ fits_add_imm(v.id) THEN b
  ELSE create_const(b)

\* lower_op_for_use and lower_mul_operand: only the right operand of an
\* addition, a subtraction or a comparison has an immediate form.
ImmForm(type, k) == k = 2 /\ type \in {"BIN_ADD", "BIN_SUB", "IR_CMPOP"}

lower_operands(b, inst) ==
  LET after[k \in 0..Len(inst.args)] ==
        IF k = 0 THEN [b EXCEPT !.uses = <<>>]
        ELSE lower_operand(after[k - 1], inst.args[k], ImmForm(inst.type, k))
  IN after[Len(inst.args)]

\* Mutant: the registers start at x1.
create_arg_put_mutant(c, k, arg) ==
  LET d == lower_operand([c EXCEPT !.uses = <<>>], arg, FALSE)
  IN [insert_instruction(d, "LIRArgPut", NoVReg, d.uses, -1, <<k>>)
        EXCEPT !.uses = c.uses \o d.uses]

\* create_arg_puts_and_call: args of an LIRArgPut is the register it fills.
create_arg_put(c, k, arg) ==
  LET d == lower_operand([c EXCEPT !.uses = <<>>], arg, FALSE)
  IN [insert_instruction(d, "LIRArgPut", NoVReg, d.uses, -1, <<k - 1>>)
        EXCEPT !.uses = c.uses \o d.uses]

create_arg_puts(b, args) ==
  LET after[k \in 0..Len(args)] ==
        IF k = 0 THEN [b EXCEPT !.uses = <<>>]
        ELSE create_arg_put(after[k - 1], k, args[k])
  IN after[Len(args)]

OpOf == [IR_LOAD |-> "LIRLoad", IR_STORE |-> "LIRStore", IR_ARG |-> "LIRArgGet",
         BIN_ADD |-> "LIRBinOp", BIN_SUB |-> "LIRBinOp", BIN_MUL |-> "LIRBinOp",
         IR_CMPOP |-> "LIRSetCC", IR_HALT |-> "LIRRet", IR_JUMP |-> "LIRJump",
         IR_BRANCH_IF_ZERO |-> "LIRBranch"]

\* visit_inst
lower_inst(b, inst) ==
  IF inst.type = "IR_CALL"
    THEN LET c == create_arg_puts(b, inst.args) IN
         insert_instruction(c, "LIRCall", inst.dst, <<>>, -1, c.uses)
    ELSE LET c == lower_operands(b, inst) IN
         insert_instruction(c, OpOf[inst.type], inst.dst, c.uses, inst.slot, <<>>)

\* create_branch, create_jump, create_ret: an immediate takes a vreg; the
\* terminator has a number like any other instruction.
lower_block(b, block) ==
  LET after[n \in 0..Len(block.insts)] ==
        IF n = 0 THEN [b EXCEPT !.code = <<>>]
        ELSE lower_inst(after[n - 1], block.insts[n])
      d == lower_operands(after[Len(block.insts)], block.term) IN
  [block |-> [insts |-> d.code,
              term  |-> LInst(OpOf[block.term.type], d.num, NoVReg, d.uses, -1, <<>>),
              succs |-> block.term.to],
   builder |-> [d EXCEPT !.num = @ + 2]]

\* lower_mir_to_lir for one function whose temps are 0..temps-1.
lower_mir_to_lir(blocks, temps) ==
  LET after[n \in 0..Len(blocks)] ==
        IF n = 0 THEN [blocks |-> <<>>, builder |-> Builder(temps, 0)]
        ELSE LET before == after[n - 1]
                 r      == lower_block(before.builder, blocks[n]) IN
             [blocks |-> Append(before.blocks, r.block), builder |-> r.builder]
      all == after[Len(blocks)]
  IN [blocks |-> all.blocks, next_vreg |-> all.builder.vreg]

\* compare_slot_id_to_max: the largest slot an instruction names, 0 if none.
max_slot_of(lir) ==
  LET slots == {0} \cup UNION {{lir.blocks[b].insts[i].slot : i \in DOMAIN lir.blocks[b].insts}
                               : b \in DOMAIN lir.blocks}
  IN CHOOSE m \in slots : \A n \in slots : n <= m
=============================================================================
