------------------------------ MODULE IRVerify ------------------------------
(***************************************************************************)
(* The verifier of the middle-level IR (ir_verify.c), run over what MIRGen *)
(* has made of a function.  It goes through the blocks in the order they   *)
(* were created (ir_walk_func_linear), remembers the temps it has seen     *)
(* defined, and reports what it takes exception to.                        *)
(*                                                                         *)
(* The walker hands out the instructions of a block and not its            *)
(* terminator, so the cases for IR_HALT, IR_JUMP and IR_BRANCH_IF_ZERO of  *)
(* visit_instruct are never reached: what a terminator reads is not        *)
(* verified, only how many blocks it leads to.                             *)
(***************************************************************************)
EXTENDS MIRGen

\* The verifier: temp_def as the set of temps it has seen, and whether it has
\* reported anything.
visit_func_begin == [temp_def |-> {}, reported |-> FALSE]

Report(v, wrong) == [v EXCEPT !.reported = @ \/ wrong]

define_temp(v, t) ==
  IF t = NoTemp THEN v
  ELSE [Report(v, t \in v.temp_def) EXCEPT !.temp_def = @ \cup {t}]

verify_value_defined(v, val) == val.kind = "IRVAL_TEMP" => val.id \in v.temp_def

\* The result is entered before the operands are looked up.
visit_instruct(v, inst) ==
  LET d == define_temp(v, inst.dst) IN
  Report(d, \E k \in DOMAIN inst.args : ~verify_value_defined(d, inst.args[k]))

SuccCount == [IR_HALT |-> 0, IR_JUMP |-> 1, IR_BRANCH_IF_ZERO |-> 2]

\* add_all_successors has made the targets of the terminator the successors.
\* A BlockId is compared with the number of blocks, not with the last one.
visit_block_end(v, term) ==
  Report(v, \/ term.type \notin DOMAIN SuccCount
            \/ Len(term.to) # SuccCount[term.type]
            \/ \E k \in DOMAIN term.to : term.to[k] - 1 > Len(blocks))

\* ir_walk_func_linear: the instructions of a block one after the other,
visit_block(v, b) ==
  LET seen[n \in 0..Len(b.insts)] ==
        IF n = 0 THEN v ELSE visit_instruct(seen[n - 1], b.insts[n])
  IN visit_block_end(seen[Len(b.insts)], b.term)

\* and the blocks of a function.
run_ir_verifier ==
  LET seen[n \in 0..Len(blocks)] ==
        IF n = 0 THEN visit_func_begin ELSE visit_block(seen[n - 1], blocks[n])
  IN seen[Len(blocks)]
-----------------------------------------------------------------------------
\* Going through the blocks in the order they were created, which is not an
\* order in which they can be executed (the join block of an if comes before
\* all that is nested in it), the verifier finds nothing wrong with what the
\* generator has made: it never meets a use before the definition.
VerifierAccepts == ~Running => ~run_ir_verifier.reported
=============================================================================
