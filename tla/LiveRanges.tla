----------------------------- MODULE LiveRanges -----------------------------
(***************************************************************************)
(* From LIR to live ranges: the IN/OUT sets of liveness_analysis.cpp and   *)
(* the range construction of regalloc_analysis.cpp, as functions of the    *)
(* LIR of one function.                                                    *)
(***************************************************************************)
EXTENDS LIRGen

VRegsOf(lir) == 0..lir.next_vreg - 1

\* note_def, note_use over the instructions of a block.  The walker hands the
\* terminator to visit_terminator, which this pass leaves empty.
use_def(block) ==
  LET noted[n \in 0..Len(block.insts)] ==
        IF n = 0 THEN [use |-> {}, def |-> {}]
        ELSE LET s == noted[n - 1]
                 i == block.insts[n] IN
             [use |-> s.use \cup (UsedBy(i) \ s.def),
              def |-> s.def \cup ({i.def} \ {NoVReg})]
  IN noted[Len(block.insts)]

succs_of(lir, b) == {lir.blocks[b].succs[k] : k \in DOMAIN lir.blocks[b].succs}

\* add_succ_blocks: the blocks in the order the depth-first walk leaves them.
\* A call is for a block that none of the calls around it is for, so they are
\* nested no deeper than there are blocks.
add_succ_blocks(lir) ==
  LET Orders == [visited : SUBSET DOMAIN lir.blocks, stack : Seq(DOMAIN lir.blocks)]
      call[depth \in 0..Len(lir.blocks) + 1] ==
        [b \in DOMAIN lir.blocks |-> [order \in Orders |->
           IF depth = 0 \/ b \in order.visited THEN order
           ELSE LET succs == lir.blocks[b].succs
                    after[n \in 0..Len(succs)] ==
                      IF n = 0 THEN [order EXCEPT !.visited = @ \cup {b}]
                      ELSE call[depth - 1][succs[n]][after[n - 1]]
                IN [after[Len(succs)] EXCEPT !.stack = Append(@, b)]]]
  IN call[Len(lir.blocks) + 1]

NothingVisited == [visited |-> {}, stack |-> <<>>]

\* Mutant: from the other end.
block_stack_mutant(lir) ==
  LET s == add_succ_blocks(lir)[1][NothingVisited].stack IN
  [k \in DOMAIN s |-> s[Len(s) + 1 - k]]

block_stack(lir) == add_succ_blocks(lir)[1][NothingVisited].stack

\* construct_in_out.  Nobody fills preds (lir.hpp), so nothing is ever put
\* back on the stack: each block reachable from the entry is done once, in
\* the order of block_stack.
construct_in_out(lir) ==
  LET empty == [b \in DOMAIN lir.blocks |-> {}]
      stack == block_stack(lir)
      swept[n \in 0..Len(stack)] ==
        IF n = 0 THEN [in |-> empty, out |-> empty]
        ELSE LET s   == swept[n - 1]
                 b   == stack[n]
                 out == UNION {s.in[c] : c \in succs_of(lir, b)}
                 ud  == use_def(lir.blocks[b]) IN
             [in  |-> [s.in EXCEPT ![b] = ud.use \cup (out \ ud.def)],
              out |-> [s.out EXCEPT ![b] = out]]
  IN swept[Len(stack)]

\* "new_out[B] = union of in[S]" and "new_in[B] = use[B] + (new_out[B] - def[B])"
SolvesEquations(lir, s) ==
  \A k \in DOMAIN block_stack(lir) :
    LET b  == block_stack(lir)[k]
        ud == use_def(lir.blocks[b]) IN
    /\ s.out[b] = UNION {s.in[c] : c \in succs_of(lir, b)}
    /\ s.in[b] = ud.use \cup (s.out[b] \ ud.def)

\* No block leads back to itself: taking away blocks all of whose successors
\* are gone leaves none.
LeadsForward(lir) ==
  LET gone[n \in Nat] ==
        IF n = 0 THEN {}
        ELSE LET before == gone[n - 1]
             IN {b \in DOMAIN lir.blocks : succs_of(lir, b) \subseteq before}
  IN gone[Len(lir.blocks)] = DOMAIN lir.blocks
-----------------------------------------------------------------------------
OPEN == -1       \* SIZE_MAX, the start of a range whose definition is ahead

\* The state s of the pass: live, the ranges of each vreg (latest last), and
\* whether an assertion of insert_start_range has failed.

\* Mutant: the range stays open.
insert_start_range_mutant(s, v, num) == s

insert_start_range(s, v, num) ==
  LET rs == s.ranges[v] IN
  IF rs # <<>> /\ rs[Len(rs)].start = OPEN
    THEN [s EXCEPT !.ranges[v][Len(rs)].start = num]
    ELSE [s EXCEPT !.aborted = TRUE]

\* Mutant: only a range that is there is looked at.
insert_end_range_mutant2(s, v, num) ==
  LET rs == s.ranges[v] IN
  IF rs = <<>> \/ rs[Len(rs)].start = OPEN THEN s
  ELSE [s EXCEPT !.ranges[v] = Append(@, [start |-> OPEN, end |-> num])]

\* Mutant: the end is the use itself.
insert_end_range_mutant(s, v, num) ==
  LET rs == s.ranges[v] IN
  IF rs # <<>> /\ rs[Len(rs)].start = OPEN THEN s
  ELSE [s EXCEPT !.ranges[v] = Append(@, [start |-> OPEN, end |-> num - 1])]

insert_end_range(s, v, num) ==
  LET rs == s.ranges[v] IN
  IF rs # <<>> /\ rs[Len(rs)].start = OPEN THEN s
  ELSE [s EXCEPT !.ranges[v] = Append(@, [start |-> OPEN, end |-> num])]

\* visit_inst, going backwards: the definition first,
end_definition(s, inst) ==
  IF inst.def = NoVReg \/ s.aborted THEN s
  ELSE [(IF inst.def \in s.live THEN insert_start_range(s, inst.def, inst.num) ELSE s)
          EXCEPT !.live = @ \ {inst.def}]

\* then the uses.
begin_use(s, v, num) ==
  [(IF v \in s.live THEN s ELSE insert_end_range(s, v, num + 1))
     EXCEPT !.live = @ \cup {v}]

visit_inst(s, inst) ==
  LET d == end_definition(s, inst)
      after[n \in 0..Len(inst.uses)] ==
        IF n = 0 THEN d ELSE begin_use(after[n - 1], inst.uses[n], inst.num)
  IN IF d.aborted THEN d ELSE after[Len(inst.uses)]

\* walk_lir_backwards_insts_linear: blocks from first to last, each from its
\* terminator to its first instruction; unreachable blocks are visited too.
visit_block_backwards(s, block, out) ==
  LET code == Append(block.insts, block.term)
      after[n \in 0..Len(code)] ==
        IF n = 0 THEN [s EXCEPT !.live = out]
        ELSE visit_inst(after[n - 1], code[Len(code) + 1 - n])
  IN after[Len(code)]

construct_ranges(lir) ==
  LET out == construct_in_out(lir).out
      after[n \in 0..Len(lir.blocks)] ==
        IF n = 0 THEN [live |-> {}, aborted |-> FALSE,
                       ranges |-> [v \in VRegsOf(lir) |-> <<>>]]
        ELSE visit_block_backwards(after[n - 1], lir.blocks[n], out[n])
  IN after[Len(lir.blocks)]

\* linear_scan_regalloc up to its loop: vregs without a range are dropped, the
\* others are sorted by the start of their first range, the only one looked at.
sorted_vregs(s) ==
  LET vs == {v \in DOMAIN s.ranges : s.ranges[v] # <<>>}
      start(v) == s.ranges[v][1].start
      Before(v) == {w \in vs : \/ start(w) < start(v)
                               \/ start(w) = start(v) /\ w < v}
  IN [k \in 1..Cardinality(vs) |->
        CHOOSE v \in vs : Cardinality(Before(v)) = k - 1]

call_insts(lir) ==
  UNION {LET insts == lir.blocks[b].insts IN
         {insts[i].num : i \in {j \in DOMAIN insts : insts[j].op = "LIRCall"}}
         : b \in DOMAIN lir.blocks}

\* What the scan gets for a function: see LinearScan.
ScanInput(lir, s) ==
  LET vs == sorted_vregs(s) IN
  [n |-> Len(vs),
   start |-> [k \in DOMAIN vs |-> s.ranges[vs[k]][1].start],
   end |-> [k \in DOMAIN vs |-> s.ranges[vs[k]][1].end],
   vreg |-> vs,
   calls |-> call_insts(lir),
   max_slot_id |-> max_slot_of(lir)]
=============================================================================
